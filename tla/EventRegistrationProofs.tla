---------------------- MODULE EventRegistrationProofs ----------------------
(***************************************************************************)
(* For any requests, people, /start messages and capacity: the types of    *)
(* EventRegistration, one row a person, the limit of places, the tickets   *)
(* and forms that wait for a confirmation, and the tickets that wait for a *)
(* /start.                                                                 *)
(***************************************************************************)
EXTENDS EventRegistration, FiniteSetTheorems, TLAPS

(***************************************************************************)
(* Types                                                                   *)
(***************************************************************************)
\* One more call of sendTicketToUser, or none.
LEMMA SendTypes ==
    ASSUME sending \in [Requests \X Causes -> Nat], NEW r, NEW why, Send(r, why)
    PROVE  sending' \in [Requests \X Causes -> Nat]
<1> DEFINE D == Requests \X Causes
           c == <<r, why>>
<1>1. sending \in [D -> Nat] /\ sending' = [sending EXCEPT ![c] = @ + 1]
  BY DEF Send
<1> HIDE DEF D, c
<1>2. ASSUME NEW d \in D PROVE sending'[d] \in Nat
  <2>1. sending[d] \in Nat
    BY <1>1
  <2>2. CASE d = c
    BY <1>1, <2>1, <2>2
  <2>3. CASE d # c
    BY <1>1, <2>1, <2>3
  <2>4. QED
    BY <2>2, <2>3
<1>3. sending' = [d \in D |-> sending'[d]]
  BY <1>1
<1>4. sending' \in [D -> Nat]
  BY <1>2, <1>3, Zenon
<1>5. QED
  BY <1>4 DEF D

\* The places a /start comes by.
StartPlaces == {"unsent", "upsert", "look", "claim", "insert", "complete", "reply", "done", "lost"}

\* A /start that goes on stays a /start.
LEMMA StartFields ==
    ASSUME NEW f \in [Starts -> StartRecord], NEW s \in Starts
    PROVE  /\ \A p \in StartPlaces : [f EXCEPT ![s].pc = p] \in [Starts -> StartRecord]
           /\ \A W \in SUBSET Requests : [f EXCEPT ![s].todo = W] \in [Starts -> StartRecord]
           /\ \A b \in BOOLEAN : [f EXCEPT ![s].created = b] \in [Starts -> StartRecord]
           /\ \A b \in BOOLEAN : [f EXCEPT ![s].cut = b] \in [Starts -> StartRecord]
<1>1. ASSUME NEW r \in StartRecord PROVE [f EXCEPT ![s] = r] \in [Starts -> StartRecord]
  OBVIOUS
<1>2. f[s] \in StartRecord
  OBVIOUS
<1>3. ASSUME NEW p \in StartPlaces PROVE [f[s] EXCEPT !.pc = p] \in StartRecord
  BY <1>2 DEF StartRecord, StartPlaces
<1>4. ASSUME NEW W \in SUBSET Requests PROVE [f[s] EXCEPT !.todo = W] \in StartRecord
  BY <1>2 DEF StartRecord
<1>5. ASSUME NEW b \in BOOLEAN PROVE [f[s] EXCEPT !.created = b] \in StartRecord
  BY <1>2 DEF StartRecord
<1>6. ASSUME NEW b \in BOOLEAN PROVE [f[s] EXCEPT !.cut = b] \in StartRecord
  BY <1>2 DEF StartRecord
<1>7. QED
  BY <1>1, <1>3, <1>4, <1>5, <1>6

\* The empty event has the types.
LEMMA InitTypes == Init => TypeOK /\ WriterFacts
<1> SUFFICES ASSUME Init PROVE TypeOK /\ WriterFacts
  OBVIOUS
<1>1. TicketTypes
  <2>1. <<>> \in Seq(Causes)
    OBVIOUS
  <2>2. QED
    BY <2>1 DEF Init, TicketTypes
<1>2. start \in [Starts -> StartRecord]
  BY DEF Init, NewStart, StartRecord
<1>3. RowTypes /\ RequestTypes /\ TxTypes
  BY DEF Init, RowTypes, RequestTypes, TxTypes
<1>4. WriterFacts
  BY DEF Init, WriterFacts, NewStart
<1>5. QED
  BY <1>1, <1>2, <1>3, <1>4 DEF TypeOK

\* Every step keeps the types, and transactions with the /starts that insert.
LEMMA TypeStep ==
    TypeOK /\ WriterFacts /\ [Next]_vars => TypeOK' /\ WriterFacts'
<1> SUFFICES ASSUME TypeOK, WriterFacts, [Next]_vars PROVE TypeOK' /\ WriterFacts'
  OBVIOUS
<1>1. ASSUME NEW r \in Requests, Register(r)
      PROVE  TypeOK' /\ WriterFacts'
  <2>1. RequestTypes'
    BY <1>1, RegistrationConstants DEF Register, Full,
       RequestTypes, TypeOK,
       tableVars, botVars, requestVars, txVars, historyVars, startStep
  <2>2. RowTypes' /\ TxTypes' /\ TicketTypes' /\ start' \in [Starts -> StartRecord] /\ WriterFacts'
    BY <1>1 DEF Register, Full,
       TypeOK, RowTypes, RequestTypes, TxTypes, TicketTypes, WriterFacts,
       tableVars, botVars, requestVars, txVars, historyVars, startStep
  <2>3. QED
    BY <2>1, <2>2 DEF TypeOK
<1>2. ASSUME NEW r \in Requests, LookUp(r)
      PROVE  TypeOK' /\ WriterFacts'
  <2>1. RequestTypes'
    BY <1>2, RegistrationConstants DEF LookUp,
       RequestTypes, TypeOK,
       tableVars, botVars, requestVars, txVars, historyVars, startStep
  <2>2. RowTypes' /\ TxTypes' /\ TicketTypes' /\ start' \in [Starts -> StartRecord] /\ WriterFacts'
    BY <1>2 DEF LookUp,
       TypeOK, RowTypes, RequestTypes, TxTypes, TicketTypes, WriterFacts,
       tableVars, botVars, requestVars, txVars, historyVars, startStep
  <2>3. QED
    BY <2>1, <2>2 DEF TypeOK
<1>3. ASSUME NEW r \in Requests, Expire(r)
      PROVE  TypeOK' /\ WriterFacts'
  <2>1. RequestTypes'
    BY <1>3, RegistrationConstants DEF Expire,
       RequestTypes, TypeOK,
       tableVars, botVars, requestVars, txVars, historyVars, startStep
  <2>2. RowTypes' /\ TxTypes' /\ TicketTypes' /\ start' \in [Starts -> StartRecord] /\ WriterFacts'
    BY <1>3 DEF Expire,
       TypeOK, RowTypes, RequestTypes, TxTypes, TicketTypes, WriterFacts,
       tableVars, botVars, requestVars, txVars, historyVars, startStep
  <2>3. QED
    BY <2>1, <2>2 DEF TypeOK
<1>4. CASE PassDeadline
  <2>1. RequestTypes'
    BY <1>4, RegistrationConstants DEF PassDeadline,
       RequestTypes, TypeOK,
       tableVars, botVars, requestVars, txVars, historyVars, startStep
  <2>2. RowTypes' /\ TxTypes' /\ TicketTypes' /\ start' \in [Starts -> StartRecord] /\ WriterFacts'
    BY <1>4 DEF PassDeadline,
       TypeOK, RowTypes, RequestTypes, TxTypes, TicketTypes, WriterFacts,
       tableVars, botVars, requestVars, txVars, historyVars, startStep
  <2>3. QED
    BY <2>1, <2>2 DEF TypeOK
<1>5. ASSUME NEW w \in Requests \cup Starts, OpenTransaction(w)
      PROVE  TypeOK' /\ WriterFacts'
  <2>1. TxTypes'
    BY <1>5, RegistrationConstants DEF OpenTransaction, IsWriter,
       TxTypes, TypeOK,
       tableVars, botVars, requestVars, txVars, historyVars, startStep
  <2>2. WriterFacts'
    BY <1>5, RegistrationConstants DEF OpenTransaction, IsWriter,
       TxTypes, TypeOK, WriterFacts,
       tableVars, botVars, requestVars, txVars, historyVars, startStep
  <2>3. RowTypes' /\ RequestTypes' /\ TicketTypes' /\ start' \in [Starts -> StartRecord]
    BY <1>5 DEF OpenTransaction, IsWriter,
       TypeOK, RowTypes, RequestTypes, TxTypes, TicketTypes, WriterFacts,
       tableVars, botVars, requestVars, txVars, historyVars, startStep
  <2>4. QED
    BY <2>1, <2>2, <2>3 DEF TypeOK
<1>6. ASSUME NEW w \in Requests \cup Starts, LockEvent(w)
      PROVE  TypeOK' /\ WriterFacts'
  <2>1. TxTypes'
    BY <1>6, RegistrationConstants DEF LockEvent,
       TxTypes, TypeOK,
       tableVars, botVars, requestVars, txVars, historyVars, startStep
  <2>2. WriterFacts'
    BY <1>6, RegistrationConstants DEF LockEvent,
       TxTypes, TypeOK, WriterFacts,
       tableVars, botVars, requestVars, txVars, historyVars, startStep
  <2>3. RowTypes' /\ RequestTypes' /\ TicketTypes' /\ start' \in [Starts -> StartRecord]
    BY <1>6 DEF LockEvent,
       TypeOK, RowTypes, RequestTypes, TxTypes, TicketTypes, WriterFacts,
       tableVars, botVars, requestVars, txVars, historyVars, startStep
  <2>4. QED
    BY <2>1, <2>2, <2>3 DEF TypeOK
<1>7. ASSUME NEW w \in Requests \cup Starts, Decide(w)
      PROVE  TypeOK' /\ WriterFacts'
  <2>1. TxTypes'
    BY <1>7, RegistrationConstants DEF Decide, Verdict, RowOf,
       TxTypes, TypeOK,
       tableVars, botVars, requestVars, txVars, historyVars, startStep
  <2>2. WriterFacts'
    BY <1>7, RegistrationConstants DEF Decide, Verdict, RowOf,
       TxTypes, TypeOK, WriterFacts,
       tableVars, botVars, requestVars, txVars, historyVars, startStep
  <2>3. RowTypes' /\ RequestTypes' /\ TicketTypes' /\ start' \in [Starts -> StartRecord]
    BY <1>7 DEF Decide, Verdict, RowOf,
       TypeOK, RowTypes, RequestTypes, TxTypes, TicketTypes, WriterFacts,
       tableVars, botVars, requestVars, txVars, historyVars, startStep
  <2>4. QED
    BY <2>1, <2>2, <2>3 DEF TypeOK
<1>8. ASSUME NEW w \in Requests \cup Starts, Create(w)
      PROVE  TypeOK' /\ WriterFacts'
  <2>1. RowTypes'
    <3> DEFINE r == RowOf(w)
    <3>1. r \in Requests /\ PersonOf[r] \in People
      BY <1>8, RegistrationConstants DEF Create, RowOf, WriterFacts
    <3>2. rows' = rows \cup {r} /\ linked' \subseteq linked \cup {r}
      BY <1>8 DEF Create
    <3>3. paid' \in [Requests -> {"NOT_REQUIRED", "PENDING", "CONFIRMED", "REJECTED"}]
      BY <1>8 DEF Create, TypeOK, RowTypes
    <3>4. registered' = registered \cup {PersonOf[r]} /\ confirmed' \subseteq confirmed \cup {r}
      BY <1>8 DEF Create
    <3>5. QED
      BY <3>1, <3>2, <3>3, <3>4 DEF TypeOK, RowTypes
  <2>2. RequestTypes'
    BY <1>8, RegistrationConstants DEF Create, RowOf, TicketNow, Send, Leave,
       RequestTypes, TxTypes, TypeOK, WriterFacts,
       tableVars, botVars, requestVars, txVars, historyVars, startStep
  <2>3. TxTypes'
    BY <1>8, RegistrationConstants DEF Create, RowOf, TicketNow, Send, Leave,
       TxTypes, TypeOK, WriterFacts,
       tableVars, botVars, requestVars, txVars, historyVars, startStep
  <2>4. TicketTypes'
    BY <1>8, SendTypes DEF Create, TypeOK, TicketTypes, Leave, tableVars
  <2>5. start' \in [Starts -> StartRecord]
    <3>1. CASE w \in Requests
      BY <1>8, <3>1 DEF Create, Leave, TypeOK
    <3>2. CASE w \notin Requests
      <4> DEFINE moved == [start EXCEPT ![w].pc = "complete"]
                 made == tx[w] = "create"
      <4>1. w \in Starts /\ start \in [Starts -> StartRecord] /\ "complete" \in StartPlaces
        BY <3>2 DEF TypeOK, StartPlaces
      <4>2. moved \in [Starts -> StartRecord]
        BY <4>1, StartFields
      <4>3. start' = [moved EXCEPT ![w].created = made]
        BY <1>8, <3>2, <4>1 DEF Create, Leave
      <4>4. made \in BOOLEAN
        OBVIOUS
      <4> HIDE DEF moved, made
      <4>5. QED
        BY <4>1, <4>2, <4>3, <4>4, StartFields
    <3>3. QED
      BY <3>1, <3>2
  <2>6. WriterFacts'
    BY <1>8, RegistrationConstants DEF Create, RowOf, TicketNow, Send, Leave,
       RowTypes, StartRecord, TxTypes, TypeOK, WriterFacts,
       tableVars, botVars, requestVars, txVars, historyVars, startStep
  <2>7. QED
    BY <2>1, <2>2, <2>3, <2>4, <2>5, <2>6 DEF TypeOK
<1>9. ASSUME NEW w \in Requests \cup Starts, RollBack(w)
      PROVE  TypeOK' /\ WriterFacts'
  <2>1. RequestTypes'
    BY <1>9, RegistrationConstants DEF RollBack, Leave, RowOf,
       RequestTypes, TxTypes, TypeOK, WriterFacts,
       tableVars, botVars, requestVars, txVars, historyVars, startStep
  <2>2. TxTypes'
    BY <1>9, RegistrationConstants DEF RollBack, Leave, RowOf,
       TxTypes, TypeOK, WriterFacts,
       tableVars, botVars, requestVars, txVars, historyVars, startStep
  <2>3. start' \in [Starts -> StartRecord]
    BY <1>9, RegistrationConstants DEF RollBack, Leave, RowOf,
       RowTypes, StartRecord, TxTypes, TypeOK, WriterFacts,
       tableVars, botVars, requestVars, txVars, historyVars, startStep
  <2>4. WriterFacts'
    BY <1>9, RegistrationConstants DEF RollBack, Leave, RowOf,
       RowTypes, StartRecord, TxTypes, TypeOK, WriterFacts,
       tableVars, botVars, requestVars, txVars, historyVars, startStep
  <2>5. RowTypes' /\ TicketTypes'
    BY <1>9 DEF RollBack, Leave, RowOf,
       TypeOK, RowTypes, RequestTypes, TxTypes, TicketTypes, WriterFacts,
       tableVars, botVars, requestVars, txVars, historyVars, startStep
  <2>6. QED
    BY <2>1, <2>2, <2>3, <2>4, <2>5 DEF TypeOK
<1>10. ASSUME NEW s \in Starts, NEW p \in People, NEW t \in Requests \cup {None}, Begin(s, p, t)
      PROVE  TypeOK' /\ WriterFacts'
  <2>1. start' \in [Starts -> StartRecord]
    BY <1>10, RegistrationConstants DEF Begin, Waiting, NewStart,
       RowTypes, StartRecord, TypeOK,
       tableVars, botVars, requestVars, txVars, historyVars, startStep
  <2>2. WriterFacts'
    BY <1>10, RegistrationConstants DEF Begin, Waiting, NewStart,
       RowTypes, StartRecord, TxTypes, TypeOK, WriterFacts,
       tableVars, botVars, requestVars, txVars, historyVars, startStep
  <2>3. RowTypes' /\ RequestTypes' /\ TxTypes' /\ TicketTypes'
    BY <1>10 DEF Begin, Waiting, NewStart,
       TypeOK, RowTypes, RequestTypes, TxTypes, TicketTypes, WriterFacts,
       tableVars, botVars, requestVars, txVars, historyVars, startStep
  <2>4. QED
    BY <2>1, <2>2, <2>3 DEF TypeOK
<1>11. ASSUME NEW s \in Starts, UpsertBotUser(s)
      PROVE  TypeOK' /\ WriterFacts'
  <2>1. RequestTypes'
    BY <1>11 DEF UpsertBotUser, RequestTypes, TypeOK, WriterFacts, startStep
  <2>2. start' \in [Starts -> StartRecord]
    BY <1>11, RegistrationConstants DEF UpsertBotUser,
       StartRecord, TypeOK,
       tableVars, botVars, requestVars, txVars, historyVars, startStep
  <2>3. WriterFacts'
    BY <1>11, RegistrationConstants DEF UpsertBotUser,
       StartRecord, TxTypes, TypeOK, WriterFacts,
       tableVars, botVars, requestVars, txVars, historyVars, startStep
  <2>4. RowTypes' /\ TxTypes' /\ TicketTypes'
    BY <1>11 DEF UpsertBotUser,
       TypeOK, RowTypes, RequestTypes, TxTypes, TicketTypes, WriterFacts,
       tableVars, botVars, requestVars, txVars, historyVars, startStep
  <2>5. QED
    BY <2>1, <2>2, <2>3, <2>4 DEF TypeOK
<1>12. ASSUME NEW s \in Starts, FindWaiting(s)
      PROVE  TypeOK' /\ WriterFacts'
  <2>1. start' \in [Starts -> StartRecord]
    <3>1. Waiting(start[s].who) \in SUBSET Requests
      BY DEF Waiting, TypeOK, RowTypes
    <3>2. PICK W \in SUBSET Requests :
             start' = [start EXCEPT ![s].pc = "claim", ![s].todo = W]
      BY <1>12, <3>1 DEF FindWaiting
    <3> DEFINE looked == [start EXCEPT ![s].pc = "claim"]
    <3>3. start \in [Starts -> StartRecord] /\ "claim" \in StartPlaces
      BY DEF TypeOK, StartPlaces
    <3>4. looked \in [Starts -> StartRecord]
      BY <3>3, StartFields
    <3>5. start' = [looked EXCEPT ![s].todo = W]
      BY <3>2, <3>3
    <3> HIDE DEF looked
    <3>6. QED
      BY <3>4, <3>5, StartFields
  <2>2. WriterFacts'
    BY <1>12, RegistrationConstants DEF FindWaiting, Waiting,
       RowTypes, StartRecord, TxTypes, TypeOK, WriterFacts,
       tableVars, botVars, requestVars, txVars, historyVars, startStep
  <2>3. RowTypes' /\ RequestTypes' /\ TxTypes' /\ TicketTypes'
    BY <1>12 DEF FindWaiting, Waiting,
       TypeOK, RowTypes, RequestTypes, TxTypes, TicketTypes, WriterFacts,
       tableVars, botVars, requestVars, txVars, historyVars, startStep
  <2>4. QED
    BY <2>1, <2>2, <2>3 DEF TypeOK
<1>13. ASSUME NEW s \in Starts, ReadToken(s)
      PROVE  TypeOK' /\ WriterFacts'
  <2>1. start' \in [Starts -> StartRecord]
    <3>1. start \in [Starts -> StartRecord] /\ {"done", "insert"} \subseteq StartPlaces
      BY DEF TypeOK, StartPlaces
    <3>2. \E p \in StartPlaces : start' = [start EXCEPT ![s].pc = p]
      BY <1>13, <3>1 DEF ReadToken
    <3>3. QED
      BY <3>1, <3>2, StartFields
  <2>2. WriterFacts'
    BY <1>13, RegistrationConstants DEF ReadToken,
       StartRecord, TxTypes, TypeOK, WriterFacts,
       tableVars, botVars, requestVars, txVars, historyVars, startStep
  <2>3. RowTypes' /\ RequestTypes' /\ TxTypes' /\ TicketTypes'
    BY <1>13, RegistrationConstants DEF ReadToken,
       TypeOK, RowTypes, RequestTypes, TxTypes, TicketTypes, WriterFacts,
       tableVars, botVars, requestVars, txVars, historyVars, startStep
  <2>4. QED
    BY <2>1, <2>2, <2>3 DEF TypeOK
<1>14. ASSUME NEW s \in Starts, Complete(s)
      PROVE  TypeOK' /\ WriterFacts'
  <2>1. RequestTypes'
    BY <1>14, RegistrationConstants DEF Complete,
       RequestTypes, TypeOK,
       tableVars, botVars, requestVars, txVars, historyVars, startStep
  <2>2. start' \in [Starts -> StartRecord]
    BY <1>14, RegistrationConstants DEF Complete,
       RowTypes, StartRecord, TypeOK,
       tableVars, botVars, requestVars, txVars, historyVars, startStep
  <2>3. WriterFacts'
    BY <1>14, RegistrationConstants DEF Complete,
       RowTypes, StartRecord, TxTypes, TypeOK, WriterFacts,
       tableVars, botVars, requestVars, txVars, historyVars, startStep
  <2>4. RowTypes' /\ TxTypes' /\ TicketTypes'
    BY <1>14 DEF Complete,
       TypeOK, RowTypes, RequestTypes, TxTypes, TicketTypes, WriterFacts,
       tableVars, botVars, requestVars, txVars, historyVars, startStep
  <2>5. QED
    BY <2>1, <2>2, <2>3, <2>4 DEF TypeOK
<1>15. ASSUME NEW s \in Starts, Reply(s)
      PROVE  TypeOK' /\ WriterFacts'
  <2>1. TicketTypes'
    BY <1>15, SendTypes DEF Reply, TypeOK, TicketTypes, startStep, tableVars
  <2>2. start' \in [Starts -> StartRecord]
    BY <1>15, RegistrationConstants DEF Reply, Send, TicketNow,
       RowTypes, StartRecord, TypeOK,
       tableVars, botVars, requestVars, txVars, historyVars, startStep
  <2>3. WriterFacts'
    BY <1>15, RegistrationConstants DEF Reply, Send, TicketNow,
       RowTypes, StartRecord, TxTypes, TypeOK, WriterFacts,
       tableVars, botVars, requestVars, txVars, historyVars, startStep
  <2>4. RowTypes' /\ RequestTypes' /\ TxTypes'
    BY <1>15 DEF Reply, Send, TicketNow,
       TypeOK, RowTypes, RequestTypes, TxTypes, TicketTypes, WriterFacts,
       tableVars, botVars, requestVars, txVars, historyVars, startStep
  <2>5. QED
    BY <2>1, <2>2, <2>3, <2>4 DEF TypeOK
<1>16. ASSUME NEW s \in Starts, NEW o \in Requests, Claim(s, o)
      PROVE  TypeOK' /\ WriterFacts'
  <2>1. RowTypes'
    BY <1>16, RegistrationConstants DEF Claim, Send,
       RowTypes, StartRecord, TypeOK,
       tableVars, botVars, requestVars, txVars, historyVars, startStep
  <2>2. TicketTypes'
    BY <1>16, SendTypes DEF Claim, TypeOK, TicketTypes, startStep, tableVars
  <2>3. start' \in [Starts -> StartRecord]
    BY <1>16, RegistrationConstants DEF Claim, Send,
       RowTypes, StartRecord, TypeOK,
       tableVars, botVars, requestVars, txVars, historyVars, startStep
  <2>4. WriterFacts'
    BY <1>16, RegistrationConstants DEF Claim, Send,
       RowTypes, StartRecord, TxTypes, TypeOK, WriterFacts,
       tableVars, botVars, requestVars, txVars, historyVars, startStep
  <2>5. RequestTypes' /\ TxTypes'
    BY <1>16 DEF Claim, Send,
       TypeOK, RowTypes, RequestTypes, TxTypes, TicketTypes, WriterFacts,
       tableVars, botVars, requestVars, txVars, historyVars, startStep
  <2>6. QED
    BY <2>1, <2>2, <2>3, <2>4, <2>5 DEF TypeOK
<1>17. ASSUME NEW o \in Requests, ConfirmPayment(o)
      PROVE  TypeOK' /\ WriterFacts'
  <2>1. RowTypes'
    BY <1>17, RegistrationConstants DEF ConfirmPayment, Send, Review,
       RowTypes, StartRecord, TypeOK,
       tableVars, botVars, requestVars, txVars, historyVars, startStep
  <2>2. TicketTypes'
    BY <1>17, SendTypes DEF ConfirmPayment, TypeOK, TicketTypes, tableVars
  <2>3. RequestTypes' /\ TxTypes' /\ start' \in [Starts -> StartRecord] /\ WriterFacts'
    BY <1>17 DEF ConfirmPayment, Send, Review,
       TypeOK, RowTypes, RequestTypes, TxTypes, TicketTypes, WriterFacts,
       tableVars, botVars, requestVars, txVars, historyVars, startStep
  <2>4. QED
    BY <2>1, <2>2, <2>3 DEF TypeOK
<1>18. ASSUME NEW o \in Requests, RejectPayment(o)
      PROVE  TypeOK' /\ WriterFacts'
  <2>1. RowTypes'
    BY <1>18, RegistrationConstants DEF RejectPayment, Review,
       RowTypes, StartRecord, TypeOK,
       tableVars, botVars, requestVars, txVars, historyVars, startStep
  <2>2. RequestTypes' /\ TxTypes' /\ TicketTypes' /\ start' \in [Starts -> StartRecord] /\ WriterFacts'
    BY <1>18 DEF RejectPayment, Review,
       TypeOK, RowTypes, RequestTypes, TxTypes, TicketTypes, WriterFacts,
       tableVars, botVars, requestVars, txVars, historyVars, startStep
  <2>3. QED
    BY <2>1, <2>2 DEF TypeOK
<1>19. ASSUME NEW o \in Requests, CancelRegistration(o)
      PROVE  TypeOK' /\ WriterFacts'
  <2>1. RowTypes'
    BY <1>19, RegistrationConstants DEF CancelRegistration, Review,
       RowTypes, StartRecord, TypeOK,
       tableVars, botVars, requestVars, txVars, historyVars, startStep
  <2>2. RequestTypes' /\ TxTypes' /\ TicketTypes' /\ start' \in [Starts -> StartRecord] /\ WriterFacts'
    BY <1>19 DEF CancelRegistration, Review,
       TypeOK, RowTypes, RequestTypes, TxTypes, TicketTypes, WriterFacts,
       tableVars, botVars, requestVars, txVars, historyVars, startStep
  <2>3. QED
    BY <2>1, <2>2 DEF TypeOK
<1>20. ASSUME NEW r \in Requests, NEW why \in Causes, SendTicketToUser(r, why)
      PROVE  TypeOK' /\ WriterFacts'
  <2>1. TicketTypes'
    BY <1>20, RegistrationConstants DEF SendTicketToUser,
       Causes, RowTypes, StartRecord, TicketTypes, TypeOK,
       tableVars, botVars, requestVars, txVars, historyVars, startStep
  <2>2. RowTypes' /\ RequestTypes' /\ TxTypes' /\ start' \in [Starts -> StartRecord] /\ WriterFacts'
    BY <1>20 DEF SendTicketToUser,
       TypeOK, RowTypes, RequestTypes, TxTypes, TicketTypes, WriterFacts,
       tableVars, botVars, requestVars, txVars, historyVars, startStep
  <2>3. QED
    BY <2>1, <2>2 DEF TypeOK
<1>21. ASSUME NEW r \in Requests, NEW why \in Causes, SendFails(r, why)
      PROVE  TypeOK' /\ WriterFacts'
  <2>1. TicketTypes'
    BY <1>21, RegistrationConstants DEF SendFails,
       Causes, RowTypes, StartRecord, TicketTypes, TypeOK,
       tableVars, botVars, requestVars, txVars, historyVars, startStep
  <2>2. RowTypes' /\ RequestTypes' /\ TxTypes' /\ start' \in [Starts -> StartRecord] /\ WriterFacts'
    BY <1>21 DEF SendFails,
       TypeOK, RowTypes, RequestTypes, TxTypes, TicketTypes, WriterFacts,
       tableVars, botVars, requestVars, txVars, historyVars, startStep
  <2>3. QED
    BY <2>1, <2>2 DEF TypeOK
<1>22. CASE Crash
  <2>1. RequestTypes'
    BY <1>22, RegistrationConstants DEF Crash, Running,
       RequestTypes, TypeOK,
       tableVars, botVars, requestVars, txVars, historyVars, startStep
  <2>2. TxTypes'
    BY <1>22, RegistrationConstants DEF Crash, Running,
       TxTypes, TypeOK,
       tableVars, botVars, requestVars, txVars, historyVars, startStep
  <2>3. TicketTypes'
    BY <1>22, RegistrationConstants DEF Crash, Running,
       Causes, TicketTypes, TypeOK,
       tableVars, botVars, requestVars, txVars, historyVars, startStep
  <2>4. start' \in [Starts -> StartRecord]
    <3>1. ASSUME NEW s \in Starts PROVE start'[s] \in StartRecord
      <4>1. start[s] \in StartRecord
        BY DEF TypeOK
      <4>2. \/ start'[s] = start[s]
            \/ start'[s] = [start[s] EXCEPT !.pc = "upsert", !.todo = {}, !.cut = FALSE]
            \/ start'[s] = [start[s] EXCEPT !.pc = "lost"]
        BY <1>22 DEF Crash
      <4>3. QED
        BY <4>1, <4>2 DEF StartRecord
    <3>2. start' = [s \in Starts |-> start'[s]]
      BY <1>22 DEF Crash
    <3>3. QED
      BY <3>1, <3>2, Zenon
  <2>5. WriterFacts'
    <3>1. ASSUME NEW s \in Starts
          PROVE  /\ tx'[s] = "out"
                 /\ start'[s].pc # "unsent" => start'[s].who \in People
                 /\ start'[s].pc = "insert" => start'[s].token \in Requests
      <4>1. start[s] \in StartRecord
        BY DEF TypeOK
      <4>2. tx'[s] = "out"
        BY <1>22 DEF Crash, TypeOK, TxTypes
      <4>3. \/ start'[s] = start[s] /\ start[s].pc \in {"unsent", "done", "lost"}
            \/ start'[s] = [start[s] EXCEPT !.pc = "upsert", !.todo = {}, !.cut = FALSE] /\ start[s].pc # "unsent"
            \/ start'[s] = [start[s] EXCEPT !.pc = "lost"] /\ start[s].pc # "unsent"
        BY <1>22 DEF Crash, Running
      <4>4. QED
        BY <4>1, <4>2, <4>3 DEF StartRecord, WriterFacts
    <3>2. QED
      BY <3>1 DEF WriterFacts
  <2>6. RowTypes'
    BY <1>22 DEF Crash, Running,
       TypeOK, RowTypes, RequestTypes, TxTypes, TicketTypes, WriterFacts,
       tableVars, botVars, requestVars, txVars, historyVars, startStep
  <2>7. QED
    BY <2>1, <2>2, <2>3, <2>4, <2>5, <2>6 DEF TypeOK
<1>23. CASE UNCHANGED vars
  BY <1>23 DEF vars, TypeOK, RowTypes, RequestTypes, TxTypes, TicketTypes, WriterFacts,
     tableVars, botVars, requestVars, txVars, historyVars, startStep
<1>24. ASSUME NEW w \in Requests \cup Starts, WriteFails(w)
      PROVE  TypeOK' /\ WriterFacts'
  <2>1. RequestTypes'
    BY <1>24, RegistrationConstants DEF WriteFails, IsWriter, RequestTypes, TypeOK, tableVars, botVars, requestVars, txVars, historyVars, startStep
  <2>2. TxTypes'
    BY <1>24, RegistrationConstants DEF WriteFails, IsWriter, TxTypes, TypeOK, tableVars, botVars, requestVars, txVars, historyVars, startStep
  <2>3. start' \in [Starts -> StartRecord]
    BY <1>24, RegistrationConstants DEF WriteFails, IsWriter, StartRecord, TypeOK, tableVars, botVars, requestVars, txVars, historyVars, startStep
  <2>4. WriterFacts'
    BY <1>24, RegistrationConstants
       DEF WriteFails, IsWriter, StartRecord, TxTypes, TypeOK, WriterFacts, tableVars, botVars, requestVars, txVars, historyVars, startStep
  <2>5. RowTypes' /\ TicketTypes'
    BY <1>24 DEF WriteFails, TypeOK, RowTypes, TicketTypes, tableVars, botVars, requestVars, txVars, historyVars, startStep
  <2>6. QED
    BY <2>1, <2>2, <2>3, <2>4, <2>5 DEF TypeOK
<1>25. ASSUME NEW s \in Starts, UpsertFails(s)
      PROVE  TypeOK' /\ WriterFacts'
  <2>1. start' \in [Starts -> StartRecord]
    BY <1>25, RegistrationConstants DEF UpsertFails, StartRecord, TypeOK
  <2>2. WriterFacts'
    BY <1>25, RegistrationConstants DEF UpsertFails, StartRecord, TxTypes, TypeOK, WriterFacts, tableVars, botVars, requestVars, txVars, historyVars, startStep
  <2>3. RowTypes' /\ RequestTypes' /\ TxTypes' /\ TicketTypes'
    BY <1>25 DEF UpsertFails, TypeOK, RowTypes, RequestTypes, TxTypes, TicketTypes, tableVars, botVars, requestVars, txVars, historyVars, startStep
  <2>4. QED
    BY <2>1, <2>2, <2>3 DEF TypeOK
<1>26. ASSUME NEW s \in Starts, DeliveryFails(s)
      PROVE  TypeOK' /\ WriterFacts'
  <2>1. start' \in [Starts -> StartRecord]
    <3> DEFINE gone == [start EXCEPT ![s].pc = "claim"]
               dropped == [gone EXCEPT ![s].todo = {}]
    <3>1. start \in [Starts -> StartRecord] /\ "claim" \in StartPlaces /\ TRUE \in BOOLEAN
      BY DEF TypeOK, StartPlaces
    <3>2. gone \in [Starts -> StartRecord]
      BY <3>1, StartFields
    <3>3. dropped \in [Starts -> StartRecord]
      <4> HIDE DEF gone
      <4> QED
        BY <3>2, StartFields
    <3>4. start' = [dropped EXCEPT ![s].cut = TRUE]
      BY <1>26, <3>1 DEF DeliveryFails
    <3> HIDE DEF dropped
    <3>5. QED
      BY <3>1, <3>3, <3>4, StartFields
  <2>2. WriterFacts'
    BY <1>26, RegistrationConstants DEF DeliveryFails, StartRecord, TxTypes, TypeOK, WriterFacts, tableVars, botVars, requestVars, txVars, historyVars, startStep
  <2>3. RowTypes' /\ RequestTypes' /\ TxTypes' /\ TicketTypes'
    BY <1>26 DEF DeliveryFails, TypeOK, RowTypes, RequestTypes, TxTypes, TicketTypes, tableVars, botVars, requestVars, txVars, historyVars, startStep
  <2>4. QED
    BY <2>1, <2>2, <2>3 DEF TypeOK
<1>27. ASSUME NEW s \in Starts, ConfirmFails(s)
      PROVE  TypeOK' /\ WriterFacts'
  <2>1. start' \in [Starts -> StartRecord]
    BY <1>27, RegistrationConstants DEF ConfirmFails, StartRecord, TypeOK
  <2>2. WriterFacts'
    BY <1>27, RegistrationConstants DEF ConfirmFails, StartRecord, TxTypes, TypeOK, WriterFacts, tableVars, botVars, requestVars, txVars, historyVars, startStep
  <2>3. RowTypes' /\ RequestTypes' /\ TxTypes' /\ TicketTypes'
    BY <1>27 DEF ConfirmFails, TypeOK, RowTypes, RequestTypes, TxTypes, TicketTypes, tableVars, botVars, requestVars, txVars, historyVars, startStep
  <2>4. QED
    BY <2>1, <2>2, <2>3 DEF TypeOK
<1>. QED
  BY <1>1, <1>2, <1>3, <1>4, <1>5, <1>6, <1>7, <1>8, <1>9, <1>10, <1>11, <1>12, <1>13, <1>14, <1>15,
     <1>16, <1>17, <1>18, <1>19, <1>20, <1>21, <1>22, <1>23, <1>24, <1>25, <1>26, <1>27
  DEF Next, HandleStart
(***************************************************************************)
(* The lock                                                                *)
(***************************************************************************)
LockFacts == LockHeldOnce /\ DecisionHolds /\ OneRowPerPerson
Writer == Requests \cup Starts

\* The rows can be counted.
LEMMA RowsAreFinite ==
    ASSUME TypeOK
    PROVE  IsFiniteSet(rows) /\ Cardinality(rows) \in Nat
<1>1. IsFiniteSet(Requests) /\ rows \in SUBSET Requests
  BY RegistrationConstants DEF TypeOK, RowTypes
<1>2. QED
  BY <1>1, FS_Subset, FS_CardinalityType

\* Cancelling a registration frees a place.
LEMMA FewerRows ==
    ASSUME TypeOK, rows' \subseteq rows
    PROVE  Cardinality(rows') \in Nat /\ Cardinality(rows') <= Cardinality(rows)
<1>1. IsFiniteSet(rows) /\ rows' \in SUBSET rows
  BY RowsAreFinite
<1>2. QED
  BY <1>1, FS_Subset, FS_CardinalityType

\* Steps of one transaction that add no row and do not take the lock or decide.
LEMMA TxLeaves ==
    ASSUME TypeOK, WriterFacts, LockFacts, rows' \subseteq rows,
           \A w \in Writer : tx'[w] \notin {"out", "waiting"} => tx'[w] = tx[w],
           \A s \in Starts : tx'[s] # "out" => start'[s].token = start[s].token
    PROVE  LockFacts'
<1>1. \A w \in Writer : tx'[w] = "create" => tx[w] = "create" /\ RowOf(w)' = RowOf(w)
  BY DEF RowOf, Writer
<1>2. LockHeldOnce'
  BY DEF LockFacts, LockHeldOnce, Writer
<1>3. OneRowPerPerson'
  BY DEF LockFacts, OneRowPerPerson
<1>4. ASSUME NEW w \in Writer, tx'[w] = "create"
      PROVE  /\ SamePerson(RowOf(w))' = {}
             /\ IgnoresLimits(RowOf(w))' \/ Cardinality(rows') < Capacity
  <2>1. tx[w] = "create" /\ RowOf(w)' = RowOf(w)
    BY <1>1, <1>4
  <2>2. /\ SamePerson(RowOf(w)) = {}
        /\ IgnoresLimits(RowOf(w)) \/ Cardinality(rows) < Capacity
    BY <2>1 DEF LockFacts, DecisionHolds, Writer
  <2>3. SamePerson(RowOf(w))' = {}
    BY <2>1, <2>2 DEF SamePerson
  <2>4. IgnoresLimits(RowOf(w)) => IgnoresLimits(RowOf(w))'
    BY <2>1 DEF IgnoresLimits
  <2>5. Cardinality(rows) < Capacity => Cardinality(rows') < Capacity
    BY FewerRows, RowsAreFinite, RegistrationConstants
  <2>6. QED
    BY <2>2, <2>3, <2>4, <2>5
<1>5. QED
  BY <1>2, <1>3, <1>4 DEF LockFacts, DecisionHolds, Writer

\* Every step keeps the lock with one transaction, what that one decided, and one row a person.
LEMMA LockStep ==
    TypeOK /\ WriterFacts /\ LockFacts /\ [Next]_vars => LockFacts'
<1> SUFFICES ASSUME TypeOK, WriterFacts, LockFacts, [Next]_vars PROVE LockFacts'
  OBVIOUS
<1>1. ASSUME NEW r \in Requests, Register(r)
      PROVE  LockFacts'
  <2>1. rows' \subseteq rows /\ tx' = tx /\ start' = start
    BY <1>1 DEF Register, tableVars, botVars, requestVars, txVars
  <2>2. QED
    BY <2>1, TxLeaves
<1>2. ASSUME NEW r \in Requests, LookUp(r)
      PROVE  LockFacts'
  <2>1. rows' \subseteq rows /\ tx' = tx /\ start' = start
    BY <1>2 DEF LookUp, tableVars, botVars, requestVars, txVars
  <2>2. QED
    BY <2>1, TxLeaves
<1>3. ASSUME NEW r \in Requests, Expire(r)
      PROVE  LockFacts'
  <2>1. rows' \subseteq rows /\ tx' = tx /\ start' = start
    BY <1>3 DEF Expire, tableVars, botVars, requestVars, txVars
  <2>2. QED
    BY <2>1, TxLeaves
<1>4. CASE PassDeadline
  <2>1. rows' \subseteq rows /\ tx' = tx /\ start' = start
    BY <1>4 DEF PassDeadline, tableVars, botVars, requestVars, txVars
  <2>2. QED
    BY <2>1, TxLeaves
<1>5. ASSUME NEW w \in Requests \cup Starts, OpenTransaction(w)
      PROVE  LockFacts'
  <2>1. rows' = rows /\ start' = start /\ tx' = [tx EXCEPT ![w] = "waiting"]
    BY <1>5 DEF OpenTransaction, tableVars, botVars
  <2>2. \A v \in Writer : tx'[v] \notin {"out", "waiting"} => tx'[v] = tx[v]
    BY <2>1 DEF TypeOK, TxTypes, Writer
  <2>3. QED
    BY <2>1, <2>2, TxLeaves
<1>6. ASSUME NEW w \in Requests \cup Starts, LockEvent(w)
      PROVE  LockFacts'
  <2>1. rows' = rows /\ start' = start /\ tx' = [tx EXCEPT ![w] = "locked"]
    BY <1>6 DEF LockEvent, tableVars, botVars
  <2>2. \A v \in Writer : tx[v] \in {"out", "waiting"}
    BY <1>6 DEF LockEvent, TypeOK, TxTypes, Writer
  <2>3. LockHeldOnce' /\ DecisionHolds'
    BY <2>1, <2>2 DEF TypeOK, TxTypes, Writer, LockHeldOnce, DecisionHolds
  <2>4. OneRowPerPerson'
    BY <2>1 DEF LockFacts, OneRowPerPerson
  <2>5. QED
    BY <2>3, <2>4 DEF LockFacts
<1>7. ASSUME NEW w \in Requests \cup Starts, Decide(w)
      PROVE  LockFacts'
  <2>1. rows' = rows /\ start' = start /\ tx[w] = "locked" /\ tx' = [tx EXCEPT ![w] = Verdict(w)]
    BY <1>7 DEF Decide, tableVars, botVars
  <2>2. Verdict(w) \in {"existing", "refused", "create"}
    BY DEF Verdict
  <2>3. \A v \in Writer : v # w => tx'[v] \in {"out", "waiting"} /\ tx'[v] = tx[v]
    BY <2>1 DEF TypeOK, TxTypes, Writer, LockFacts, LockHeldOnce
  <2>4. LockHeldOnce' /\ OneRowPerPerson'
    BY <2>1, <2>3 DEF Writer, LockHeldOnce, LockFacts, OneRowPerPerson
  <2>5. ASSUME tx'[w] = "create"
        PROVE  /\ SamePerson(RowOf(w))' = {}
               /\ IgnoresLimits(RowOf(w))' \/ Cardinality(rows') < Capacity
    <3>1. Verdict(w) = "create"
      BY <2>1, <2>5 DEF TypeOK, TxTypes
    <3>2. SamePerson(RowOf(w)) = {} /\ (IgnoresLimits(RowOf(w)) \/ ~ (Cardinality(rows) >= Capacity))
      BY <3>1 DEF Verdict, Full
    <3>3. RowOf(w)' = RowOf(w)
      BY <2>1 DEF RowOf
    <3>4. SamePerson(RowOf(w))' = {} /\ (IgnoresLimits(RowOf(w)) => IgnoresLimits(RowOf(w))')
      BY <2>1, <3>2, <3>3 DEF SamePerson, IgnoresLimits
    <3>5. ~ (Cardinality(rows) >= Capacity) => Cardinality(rows') < Capacity
      BY <2>1, RowsAreFinite, RegistrationConstants
    <3>6. QED
      BY <3>2, <3>4, <3>5
  <2>6. DecisionHolds'
    BY <2>3, <2>5 DEF DecisionHolds, Writer
  <2>7. QED
    BY <2>4, <2>6 DEF LockFacts
<1>8. ASSUME NEW w \in Requests \cup Starts, Create(w)
      PROVE  LockFacts'
  <2> DEFINE r == RowOf(w)
  <2>1. rows' = rows \cup {r} /\ tx[w] = "create" /\ tx' = [tx EXCEPT ![w] = "out"]
    BY <1>8 DEF Create, Leave
  <2>2. \A v \in Writer : tx'[v] \in {"out", "waiting"}
    BY <2>1 DEF TypeOK, TxTypes, Writer, LockFacts, LockHeldOnce
  <2>3. SamePerson(r) = {}
    BY <2>1 DEF LockFacts, DecisionHolds
  <2>4. OneRowPerPerson'
    BY <2>1, <2>3 DEF SamePerson, LockFacts, OneRowPerPerson
  <2>5. LockHeldOnce' /\ DecisionHolds'
    BY <2>2 DEF LockHeldOnce, DecisionHolds, Writer
  <2>6. QED
    BY <2>4, <2>5 DEF LockFacts
<1>9. ASSUME NEW w \in Requests \cup Starts, RollBack(w)
      PROVE  LockFacts'
  <2>1. rows' = rows /\ tx' = [tx EXCEPT ![w] = "out"]
    BY <1>9 DEF RollBack, Leave, tableVars
  <2>2. \A v \in Writer : v # w => tx'[v] = tx[v]
    BY <2>1 DEF TypeOK, TxTypes, Writer
  <2>3. tx'[w] = "out"
    BY <2>1 DEF TypeOK, TxTypes
  <2>4. \A other \in Starts : other # w => start'[other] = start[other]
    BY <1>9 DEF RollBack, Leave, TypeOK
  <2>5. \A other \in Starts : tx'[other] # "out" => start'[other].token = start[other].token
    BY <2>3, <2>4
  <2>6. \A v \in Writer : tx'[v] \notin {"out", "waiting"} => tx'[v] = tx[v]
    BY <2>2, <2>3
  <2>7. QED
    BY <2>1, <2>5, <2>6, TxLeaves
<1>10. ASSUME NEW s \in Starts, NEW p \in People, NEW t \in Requests \cup {None}, Begin(s, p, t)
      PROVE  LockFacts'
  <2>1. rows' \subseteq rows /\ tx' = tx /\ start[s].pc = "unsent"
    BY <1>10 DEF Begin, tableVars, txVars, startStep
  <2>2. \A other \in Starts : other # s => start'[other] = start[other]
    BY <1>10 DEF Begin, TypeOK
  <2>3. \A other \in Starts : tx'[other] # "out" => start'[other].token = start[other].token
    BY <2>1, <2>2 DEF WriterFacts
  <2>4. QED
    BY <2>1, <2>3, TxLeaves
<1>11. ASSUME NEW s \in Starts, UpsertBotUser(s)
      PROVE  LockFacts'
  <2>1. rows' \subseteq rows /\ tx' = tx /\ start[s].pc = "upsert"
    BY <1>11 DEF UpsertBotUser, tableVars, txVars, startStep
  <2>2. \A other \in Starts : other # s => start'[other] = start[other]
    BY <1>11 DEF UpsertBotUser, TypeOK
  <2>3. \A other \in Starts : tx'[other] # "out" => start'[other].token = start[other].token
    BY <2>1, <2>2 DEF WriterFacts
  <2>4. QED
    BY <2>1, <2>3, TxLeaves
<1>12. ASSUME NEW s \in Starts, FindWaiting(s)
      PROVE  LockFacts'
  <2>1. rows' \subseteq rows /\ tx' = tx /\ start[s].pc = "look"
    BY <1>12 DEF FindWaiting, tableVars, txVars, startStep
  <2>2. \A other \in Starts : other # s => start'[other] = start[other]
    BY <1>12 DEF FindWaiting, TypeOK
  <2>3. \A other \in Starts : tx'[other] # "out" => start'[other].token = start[other].token
    BY <2>1, <2>2 DEF WriterFacts
  <2>4. QED
    BY <2>1, <2>3, TxLeaves
<1>13. ASSUME NEW s \in Starts, ReadToken(s)
      PROVE  LockFacts'
  <2>1. rows' \subseteq rows /\ tx' = tx /\ start[s].pc = "claim"
    BY <1>13 DEF ReadToken, tableVars, txVars, startStep
  <2>2. \A other \in Starts : other # s => start'[other] = start[other]
    BY <1>13 DEF ReadToken, TypeOK
  <2>3. \A other \in Starts : tx'[other] # "out" => start'[other].token = start[other].token
    BY <2>1, <2>2 DEF WriterFacts
  <2>4. QED
    BY <2>1, <2>3, TxLeaves
<1>14. ASSUME NEW s \in Starts, Complete(s)
      PROVE  LockFacts'
  <2>1. rows' \subseteq rows /\ tx' = tx /\ start[s].pc = "complete"
    BY <1>14 DEF Complete, tableVars, txVars, startStep
  <2>2. \A other \in Starts : other # s => start'[other] = start[other]
    BY <1>14 DEF Complete, TypeOK
  <2>3. \A other \in Starts : tx'[other] # "out" => start'[other].token = start[other].token
    BY <2>1, <2>2 DEF WriterFacts
  <2>4. QED
    BY <2>1, <2>3, TxLeaves
<1>15. ASSUME NEW s \in Starts, Reply(s)
      PROVE  LockFacts'
  <2>1. rows' \subseteq rows /\ tx' = tx /\ start[s].pc = "reply"
    BY <1>15 DEF Reply, tableVars, txVars, startStep
  <2>2. \A other \in Starts : other # s => start'[other] = start[other]
    BY <1>15 DEF Reply, TypeOK
  <2>3. \A other \in Starts : tx'[other] # "out" => start'[other].token = start[other].token
    BY <2>1, <2>2 DEF WriterFacts
  <2>4. QED
    BY <2>1, <2>3, TxLeaves
<1>16. ASSUME NEW s \in Starts, NEW o \in Requests, Claim(s, o)
      PROVE  LockFacts'
  <2>1. rows' \subseteq rows /\ tx' = tx /\ start[s].pc = "claim"
    BY <1>16 DEF Claim, tableVars, txVars, startStep
  <2>2. \A other \in Starts : other # s => start'[other] = start[other]
    BY <1>16 DEF Claim, TypeOK
  <2>3. \A other \in Starts : tx'[other] # "out" => start'[other].token = start[other].token
    BY <2>1, <2>2 DEF WriterFacts
  <2>4. QED
    BY <2>1, <2>3, TxLeaves
<1>17. ASSUME NEW o \in Requests, ConfirmPayment(o)
      PROVE  LockFacts'
  <2>1. rows' \subseteq rows /\ tx' = tx /\ start' = start
    BY <1>17 DEF ConfirmPayment, tableVars, botVars, requestVars, txVars, Review
  <2>2. QED
    BY <2>1, TxLeaves
<1>18. ASSUME NEW o \in Requests, RejectPayment(o)
      PROVE  LockFacts'
  <2>1. rows' \subseteq rows /\ tx' = tx /\ start' = start
    BY <1>18 DEF RejectPayment, tableVars, botVars, requestVars, txVars, Review
  <2>2. QED
    BY <2>1, TxLeaves
<1>19. ASSUME NEW o \in Requests, CancelRegistration(o)
      PROVE  LockFacts'
  <2>1. rows' \subseteq rows /\ tx' = tx /\ start' = start
    BY <1>19 DEF CancelRegistration, tableVars, botVars, requestVars, txVars, Review
  <2>2. QED
    BY <2>1, TxLeaves
<1>20. ASSUME NEW r \in Requests, NEW why \in Causes, SendTicketToUser(r, why)
      PROVE  LockFacts'
  <2>1. rows' \subseteq rows /\ tx' = tx /\ start' = start
    BY <1>20 DEF SendTicketToUser, tableVars, botVars, requestVars, txVars
  <2>2. QED
    BY <2>1, TxLeaves
<1>21. ASSUME NEW r \in Requests, NEW why \in Causes, SendFails(r, why)
      PROVE  LockFacts'
  <2>1. rows' \subseteq rows /\ tx' = tx /\ start' = start
    BY <1>21 DEF SendFails, tableVars, botVars, requestVars, txVars
  <2>2. QED
    BY <2>1, TxLeaves
<1>22. CASE Crash
  <2>1. rows' = rows /\ \A v \in Writer : tx'[v] = "out"
    BY <1>22 DEF Crash, tableVars, TypeOK, TxTypes, Writer
  <2>2. QED
    BY <2>1, TxLeaves DEF Writer
<1>23. CASE UNCHANGED vars
  <2>1. rows' \subseteq rows /\ tx' = tx /\ start' = start
    BY <1>23 DEF vars, tableVars, botVars, requestVars, txVars, historyVars, startStep
  <2>2. QED
    BY <2>1, TxLeaves
<1>24. ASSUME NEW w \in Requests \cup Starts, WriteFails(w)
      PROVE  LockFacts'
  <2>1. rows' = rows /\ tx' = [tx EXCEPT ![w] = "out"]
    BY <1>24 DEF WriteFails, tableVars
  <2>2. \A v \in Writer : tx'[v] \notin {"out", "waiting"} => tx'[v] = tx[v]
    BY <2>1 DEF TypeOK, TxTypes, Writer
  <2>3. tx'[w] = "out"
    BY <2>1 DEF TypeOK, TxTypes
  <2>4. \A other \in Starts : other # w => start'[other] = start[other]
    BY <1>24 DEF WriteFails, TypeOK
  <2>5. \A other \in Starts : tx'[other] # "out" => start'[other].token = start[other].token
    BY <2>3, <2>4
  <2>6. QED
    BY <2>1, <2>2, <2>5, TxLeaves
<1>25. ASSUME NEW s \in Starts, UpsertFails(s)
      PROVE  LockFacts'
  <2>1. rows' \subseteq rows /\ tx' = tx /\ start[s].pc # "insert"
    BY <1>25 DEF UpsertFails, tableVars, txVars
  <2>2. \A other \in Starts : other # s => start'[other] = start[other]
    BY <1>25 DEF UpsertFails, TypeOK
  <2>3. \A other \in Starts : tx'[other] # "out" => start'[other].token = start[other].token
    BY <2>1, <2>2 DEF WriterFacts
  <2>4. QED
    BY <2>1, <2>3, TxLeaves
<1>26. ASSUME NEW s \in Starts, DeliveryFails(s)
      PROVE  LockFacts'
  <2>1. rows' \subseteq rows /\ tx' = tx /\ start[s].pc # "insert"
    BY <1>26 DEF DeliveryFails, tableVars, txVars
  <2>2. \A other \in Starts : other # s => start'[other] = start[other]
    BY <1>26 DEF DeliveryFails, TypeOK
  <2>3. \A other \in Starts : tx'[other] # "out" => start'[other].token = start[other].token
    BY <2>1, <2>2 DEF WriterFacts
  <2>4. QED
    BY <2>1, <2>3, TxLeaves
<1>27. ASSUME NEW s \in Starts, ConfirmFails(s)
      PROVE  LockFacts'
  <2>1. rows' \subseteq rows /\ tx' = tx /\ start[s].pc # "insert"
    BY <1>27 DEF ConfirmFails, tableVars, txVars
  <2>2. \A other \in Starts : other # s => start'[other] = start[other]
    BY <1>27 DEF ConfirmFails, TypeOK
  <2>3. \A other \in Starts : tx'[other] # "out" => start'[other].token = start[other].token
    BY <2>1, <2>2 DEF WriterFacts
  <2>4. QED
    BY <2>1, <2>3, TxLeaves
<1>. QED
  BY <1>1, <1>2, <1>3, <1>4, <1>5, <1>6, <1>7, <1>8, <1>9, <1>10, <1>11, <1>12, <1>13, <1>14, <1>15,
     <1>16, <1>17, <1>18, <1>19, <1>20, <1>21, <1>22, <1>23, <1>24, <1>25, <1>26, <1>27
  DEF Next, HandleStart
(***************************************************************************)
(* Tickets                                                                 *)
(***************************************************************************)
\* One more ticket on its way, of a confirmed registration.
LEMMA SendOne ==
    ASSUME TypeOK, SendingConfirmed, NEW r, NEW why, Send(r, why),
           r \in confirmed', confirmed \subseteq confirmed'
    PROVE  SendingConfirmed'
<1> SUFFICES ASSUME NEW q \in Requests, NEW c \in Causes, sending'[<<q, c>>] > 0
             PROVE  q \in confirmed'
  BY DEF SendingConfirmed
<1>1. CASE q = r
  BY <1>1
<1>2. CASE q # r
  <2>1. <<q, c>> # <<r, why>> /\ <<q, c>> \in Requests \X Causes
    BY <1>2
  <2>2. sending'[<<q, c>>] = sending[<<q, c>>]
    BY <2>1 DEF Send, TypeOK, TicketTypes
  <2>3. QED
    BY <2>2 DEF SendingConfirmed
<1>3. QED
  BY <1>1, <1>2

\* A send that was answered or failed leaves the others as they were.
LEMMA SendAnswered ==
    ASSUME TypeOK, SendingConfirmed, NEW r \in Requests, NEW why \in Causes,
           sending[<<r, why>>] > 0, sending' = [sending EXCEPT ![<<r, why>>] = @ - 1],
           confirmed' = confirmed
    PROVE  SendingConfirmed'
<1> SUFFICES ASSUME NEW q \in Requests, NEW c \in Causes, sending'[<<q, c>>] > 0
             PROVE  q \in confirmed'
  BY DEF SendingConfirmed
<1>1. CASE <<q, c>> = <<r, why>>
  BY <1>1 DEF SendingConfirmed
<1>2. CASE <<q, c>> # <<r, why>>
  <2>1. sending'[<<q, c>>] = sending[<<q, c>>]
    BY <1>2 DEF TypeOK, TicketTypes
  <2>2. QED
    BY <2>1 DEF SendingConfirmed
<1>3. QED
  BY <1>1, <1>2

\* Every step keeps what is known of confirmed registrations and their tickets.
LEMMA TicketStep ==
    TypeOK /\ WriterFacts /\ TicketFacts /\ [Next]_vars => TicketFacts'
<1> SUFFICES ASSUME TypeOK, WriterFacts, TicketFacts, [Next]_vars PROVE TicketFacts'
  OBVIOUS
<1>1. ASSUME NEW r \in Requests, Register(r)
      PROVE  TicketFacts'
  <2>1. RowsConfirmed' /\ SendingConfirmed' /\ StartConfirmed' /\ TicketsConfirmed'
    BY <1>1 DEF Register,
       TicketFacts, RowsConfirmed, SendingConfirmed, StartConfirmed, TicketsConfirmed,
       tableVars, botVars, requestVars, txVars, historyVars, startStep
  <2>2. QED
    BY <2>1 DEF TicketFacts
<1>2. ASSUME NEW r \in Requests, LookUp(r)
      PROVE  TicketFacts'
  <2>1. RowsConfirmed' /\ SendingConfirmed' /\ StartConfirmed' /\ TicketsConfirmed'
    BY <1>2 DEF LookUp,
       TicketFacts, RowsConfirmed, SendingConfirmed, StartConfirmed, TicketsConfirmed,
       tableVars, botVars, requestVars, txVars, historyVars, startStep
  <2>2. QED
    BY <2>1 DEF TicketFacts
<1>3. ASSUME NEW r \in Requests, Expire(r)
      PROVE  TicketFacts'
  <2>1. RowsConfirmed' /\ SendingConfirmed' /\ StartConfirmed' /\ TicketsConfirmed'
    BY <1>3 DEF Expire,
       TicketFacts, RowsConfirmed, SendingConfirmed, StartConfirmed, TicketsConfirmed,
       tableVars, botVars, requestVars, txVars, historyVars, startStep
  <2>2. QED
    BY <2>1 DEF TicketFacts
<1>4. CASE PassDeadline
  <2>1. RowsConfirmed' /\ SendingConfirmed' /\ StartConfirmed' /\ TicketsConfirmed'
    BY <1>4 DEF PassDeadline,
       TicketFacts, RowsConfirmed, SendingConfirmed, StartConfirmed, TicketsConfirmed,
       tableVars, botVars, requestVars, txVars, historyVars, startStep
  <2>2. QED
    BY <2>1 DEF TicketFacts
<1>5. ASSUME NEW w \in Requests \cup Starts, OpenTransaction(w)
      PROVE  TicketFacts'
  <2>1. RowsConfirmed' /\ SendingConfirmed' /\ StartConfirmed' /\ TicketsConfirmed'
    BY <1>5 DEF OpenTransaction,
       TicketFacts, RowsConfirmed, SendingConfirmed, StartConfirmed, TicketsConfirmed,
       tableVars, botVars, requestVars, txVars, historyVars, startStep
  <2>2. QED
    BY <2>1 DEF TicketFacts
<1>6. ASSUME NEW w \in Requests \cup Starts, LockEvent(w)
      PROVE  TicketFacts'
  <2>1. RowsConfirmed' /\ SendingConfirmed' /\ StartConfirmed' /\ TicketsConfirmed'
    BY <1>6 DEF LockEvent,
       TicketFacts, RowsConfirmed, SendingConfirmed, StartConfirmed, TicketsConfirmed,
       tableVars, botVars, requestVars, txVars, historyVars, startStep
  <2>2. QED
    BY <2>1 DEF TicketFacts
<1>7. ASSUME NEW w \in Requests \cup Starts, Decide(w)
      PROVE  TicketFacts'
  <2>1. RowsConfirmed' /\ SendingConfirmed' /\ StartConfirmed' /\ TicketsConfirmed'
    BY <1>7 DEF Decide,
       TicketFacts, RowsConfirmed, SendingConfirmed, StartConfirmed, TicketsConfirmed,
       tableVars, botVars, requestVars, txVars, historyVars, startStep
  <2>2. QED
    BY <2>1 DEF TicketFacts
<1>8. ASSUME NEW w \in Requests \cup Starts, Create(w)
      PROVE  TicketFacts'
  <2> DEFINE r == RowOf(w)
  <2>1. /\ rows' = rows \cup {r} /\ confirmed \subseteq confirmed'
        /\ IgnoresLimits(r) \/ r \notin Donates => r \in confirmed'
        /\ r \in Requests
    <3>1. r \in Requests
      BY <1>8 DEF Create, RowOf, WriterFacts
    <3>2. IgnoresLimits(r) \/ r \notin Donates => paid'[r] # "PENDING"
      BY <1>8, <3>1 DEF Create, IgnoresLimits, TypeOK, RowTypes
    <3>3. QED
      BY <1>8, <3>1, <3>2 DEF Create
  <2>2. RowsConfirmed'
    BY <2>1 DEF RowsConfirmed, TicketFacts
  <2>3. SendingConfirmed'
    <3>1. CASE w \in Requests /\ TicketNow(r)
      <4>1. r \in confirmed'
        BY <2>1, <3>1, RegistrationConstants DEF TicketNow, IgnoresLimits
      <4>2. \E why : Send(r, why)
        BY <1>8, <3>1 DEF Create
      <4>3. QED
        BY <2>1, <4>1, <4>2, SendOne DEF TicketFacts
    <3>2. CASE ~ (w \in Requests /\ TicketNow(r))
      <4>1. sending' = sending
        BY <1>8, <3>2 DEF Create
      <4>2. QED
        BY <2>1, <4>1 DEF SendingConfirmed, TicketFacts
    <3>3. QED
      BY <3>1, <3>2
  <2>4. StartConfirmed'
    <3>1. CASE w \in Requests
      BY <1>8, <2>1, <3>1 DEF Create, Leave, StartConfirmed, TicketFacts
    <3>2. CASE w \notin Requests
      <4>1. /\ start[w].token = r
            /\ start' = [start EXCEPT ![w].pc = "complete", ![w].created = tx[w] = "create"]
        BY <1>8, <3>2 DEF Create, Leave, RowOf
      <4>2. start'[w].token = r /\ start'[w].todo = start[w].todo
        BY <3>2, <4>1 DEF TypeOK, StartRecord
      <4>3. \A s \in Starts : s # w => start'[s] = start[s]
        BY <4>1 DEF TypeOK
      <4>4. IgnoresLimits(r) \/ r \notin Donates => r \in confirmed'
        BY <2>1
      <4>5. QED
        BY <2>1, <4>2, <4>3, <4>4 DEF StartConfirmed, TicketFacts
    <3>3. QED
      BY <3>1, <3>2
  <2>5. TicketsConfirmed'
    BY <1>8, <2>1 DEF Create, TicketsConfirmed, TicketFacts
  <2>6. QED
    BY <2>2, <2>3, <2>4, <2>5 DEF TicketFacts
<1>9. ASSUME NEW w \in Requests \cup Starts, RollBack(w)
      PROVE  TicketFacts'
  <2>1. StartConfirmed'
    <3>1. CASE w \in Requests
      BY <1>9, <3>1 DEF RollBack, Leave, historyVars, StartConfirmed, TicketFacts
    <3>2. CASE w \notin Requests
      <4>1. PICK next \in {"complete", "done"} :
              start' = [start EXCEPT ![w].pc = next, ![w].created = FALSE]
        BY <1>9, <3>2 DEF RollBack, Leave
      <4>2. /\ start'[w].todo = start[w].todo /\ start'[w].created = FALSE
            /\ \A other \in Starts : other # w => start'[other] = start[other]
        BY <3>2, <4>1 DEF TypeOK, StartRecord
      <4>3. QED
        BY <1>9, <4>2 DEF RollBack, historyVars, StartConfirmed, TicketFacts
    <3>3. QED
      BY <3>1, <3>2
  <2>2. RowsConfirmed' /\ SendingConfirmed' /\ TicketsConfirmed'
    BY <1>9 DEF RollBack,
       TicketFacts, RowsConfirmed, SendingConfirmed, TicketsConfirmed,
       tableVars, botVars, requestVars, txVars, historyVars, startStep
  <2>3. QED
    BY <2>1, <2>2 DEF TicketFacts
<1>10. ASSUME NEW s \in Starts, NEW p \in People, NEW t \in Requests \cup {None}, Begin(s, p, t)
      PROVE  TicketFacts'
  <2>1. StartConfirmed'
    BY <1>10 DEF Begin, NewStart, StartConfirmed, TicketFacts, StartRecord, TypeOK,
       tableVars, botVars, requestVars, txVars, historyVars, startStep
  <2>2. RowsConfirmed' /\ SendingConfirmed' /\ TicketsConfirmed'
    BY <1>10 DEF Begin,
       TicketFacts, RowsConfirmed, SendingConfirmed, TicketsConfirmed,
       tableVars, botVars, requestVars, txVars, historyVars, startStep
  <2>3. QED
    BY <2>1, <2>2 DEF TicketFacts
<1>11. ASSUME NEW s \in Starts, UpsertBotUser(s)
      PROVE  TicketFacts'
  <2>1. StartConfirmed'
    BY <1>11 DEF UpsertBotUser, StartConfirmed, TicketFacts, StartRecord, TypeOK,
       tableVars, botVars, requestVars, txVars, historyVars, startStep
  <2>2. RowsConfirmed' /\ SendingConfirmed' /\ TicketsConfirmed'
    BY <1>11 DEF UpsertBotUser,
       TicketFacts, RowsConfirmed, SendingConfirmed, TicketsConfirmed,
       tableVars, botVars, requestVars, txVars, historyVars, startStep
  <2>3. QED
    BY <2>1, <2>2 DEF TicketFacts
<1>12. ASSUME NEW s \in Starts, FindWaiting(s)
      PROVE  TicketFacts'
  <2>1. StartConfirmed'
    <3>1. PICK W \in SUBSET Requests :
             /\ start' = [start EXCEPT ![s].pc = "claim", ![s].todo = W]
             /\ \A o \in W : IgnoresLimits(o)
      <4>1. /\ Waiting(start[s].who) \in SUBSET Requests
            /\ \A o \in Waiting(start[s].who) : IgnoresLimits(o)
        BY DEF Waiting, IgnoresLimits, TypeOK, RowTypes
      <4>2. QED
        BY <1>12, <4>1 DEF FindWaiting
    <3>2. /\ start'[s].todo = W /\ start'[s].created = start[s].created
          /\ start'[s].token = start[s].token
          /\ \A other \in Starts : other # s => start'[other] = start[other]
      BY <3>1 DEF TypeOK, StartRecord
    <3>3. QED
      BY <1>12, <3>1, <3>2 DEF FindWaiting, startStep, historyVars, StartConfirmed, TicketFacts
  <2>2. RowsConfirmed' /\ SendingConfirmed' /\ TicketsConfirmed'
    BY <1>12 DEF FindWaiting,
       TicketFacts, RowsConfirmed, SendingConfirmed, TicketsConfirmed,
       tableVars, botVars, requestVars, txVars, historyVars, startStep
  <2>3. QED
    BY <2>1, <2>2 DEF TicketFacts
<1>13. ASSUME NEW s \in Starts, ReadToken(s)
      PROVE  TicketFacts'
  <2>1. StartConfirmed'
    BY <1>13 DEF ReadToken, StartConfirmed, TicketFacts, StartRecord, TypeOK,
       tableVars, botVars, requestVars, txVars, historyVars, startStep
  <2>2. RowsConfirmed' /\ SendingConfirmed' /\ TicketsConfirmed'
    BY <1>13 DEF ReadToken,
       TicketFacts, RowsConfirmed, SendingConfirmed, TicketsConfirmed,
       tableVars, botVars, requestVars, txVars, historyVars, startStep
  <2>3. QED
    BY <2>1, <2>2 DEF TicketFacts
<1>14. ASSUME NEW s \in Starts, Complete(s)
      PROVE  TicketFacts'
  <2>1. StartConfirmed'
    BY <1>14 DEF Complete, StartConfirmed, TicketFacts, StartRecord, TypeOK,
       tableVars, botVars, requestVars, txVars, historyVars, startStep
  <2>2. RowsConfirmed' /\ SendingConfirmed' /\ TicketsConfirmed'
    BY <1>14 DEF Complete,
       TicketFacts, RowsConfirmed, SendingConfirmed, TicketsConfirmed,
       tableVars, botVars, requestVars, txVars, historyVars, startStep
  <2>3. QED
    BY <2>1, <2>2 DEF TicketFacts
<1>15. ASSUME NEW s \in Starts, Reply(s)
      PROVE  TicketFacts'
  <2>1. SendingConfirmed'
    <3>1. CASE start[s].created /\ TicketNow(start[s].token)
      <4>1. start[s].token \in confirmed
        BY <3>1 DEF TicketNow, IgnoresLimits, StartConfirmed, TicketFacts
      <4>2. Send(start[s].token, "register") /\ confirmed' = confirmed
        BY <1>15, <3>1 DEF Reply, startStep, historyVars
      <4>3. QED
        BY <4>1, <4>2, SendOne DEF TicketFacts
    <3>2. CASE ~ (start[s].created /\ TicketNow(start[s].token))
      BY <1>15, <3>2 DEF Reply, startStep, historyVars, SendingConfirmed, TicketFacts
    <3>3. QED
      BY <3>1, <3>2
  <2>2. StartConfirmed'
    BY <1>15 DEF Reply, StartConfirmed, TicketFacts, StartRecord, TypeOK,
       tableVars, botVars, requestVars, txVars, historyVars, startStep
  <2>3. RowsConfirmed' /\ TicketsConfirmed'
    BY <1>15 DEF Reply,
       TicketFacts, RowsConfirmed, TicketsConfirmed,
       tableVars, botVars, requestVars, txVars, historyVars, startStep
  <2>4. QED
    BY <2>1, <2>2, <2>3 DEF TicketFacts
<1>16. ASSUME NEW s \in Starts, NEW o \in Requests, Claim(s, o)
      PROVE  TicketFacts'
  <2>1. SendingConfirmed'
    <3>1. CASE o \in rows \ linked
      <4>1. o \in confirmed
        BY <1>16, <3>1 DEF Claim, StartConfirmed, RowsConfirmed, TicketFacts
      <4>2. Send(o, "start") /\ confirmed' = confirmed
        BY <1>16, <3>1 DEF Claim, startStep, historyVars
      <4>3. QED
        BY <4>1, <4>2, SendOne DEF TicketFacts
    <3>2. CASE ~ (o \in rows \ linked)
      BY <1>16, <3>2 DEF Claim, startStep, historyVars, SendingConfirmed, TicketFacts
    <3>3. QED
      BY <3>1, <3>2
  <2>2. StartConfirmed'
    BY <1>16 DEF Claim, StartConfirmed, TicketFacts, StartRecord, TypeOK,
       tableVars, botVars, requestVars, txVars, historyVars, startStep
  <2>3. RowsConfirmed' /\ TicketsConfirmed'
    BY <1>16 DEF Claim,
       TicketFacts, RowsConfirmed, TicketsConfirmed,
       tableVars, botVars, requestVars, txVars, historyVars, startStep
  <2>4. QED
    BY <2>1, <2>2, <2>3 DEF TicketFacts
<1>17. ASSUME NEW o \in Requests, ConfirmPayment(o)
      PROVE  TicketFacts'
  <2>1. RowsConfirmed'
    BY <1>17 DEF ConfirmPayment, Review, RowsConfirmed, TicketFacts,
       tableVars, botVars, requestVars, txVars, historyVars, startStep
  <2>2. SendingConfirmed'
    <3>1. CASE o \in linked
      <4>1. Send(o, "confirm") /\ confirmed' = confirmed \cup {o}
        BY <1>17, <3>1 DEF ConfirmPayment
      <4>2. QED
        BY <4>1, SendOne DEF TicketFacts
    <3>2. CASE o \notin linked
      BY <1>17, <3>2 DEF ConfirmPayment, SendingConfirmed, TicketFacts
    <3>3. QED
      BY <3>1, <3>2
  <2>3. StartConfirmed'
    BY <1>17 DEF ConfirmPayment, Review, StartConfirmed, TicketFacts, StartRecord, TypeOK,
       tableVars, botVars, requestVars, txVars, historyVars, startStep
  <2>4. TicketsConfirmed'
    BY <1>17 DEF ConfirmPayment, Review, TicketsConfirmed, TicketFacts,
       tableVars, botVars, requestVars, txVars, historyVars, startStep
  <2>5. QED
    BY <2>1, <2>2, <2>3, <2>4 DEF TicketFacts
<1>18. ASSUME NEW o \in Requests, RejectPayment(o)
      PROVE  TicketFacts'
  <2>1. RowsConfirmed' /\ SendingConfirmed' /\ StartConfirmed' /\ TicketsConfirmed'
    BY <1>18 DEF RejectPayment, Review,
       TicketFacts, RowsConfirmed, SendingConfirmed, StartConfirmed, TicketsConfirmed,
       tableVars, botVars, requestVars, txVars, historyVars, startStep
  <2>2. QED
    BY <2>1 DEF TicketFacts
<1>19. ASSUME NEW o \in Requests, CancelRegistration(o)
      PROVE  TicketFacts'
  <2>1. RowsConfirmed'
    BY <1>19 DEF CancelRegistration, Review, RowsConfirmed, TicketFacts,
       tableVars, botVars, requestVars, txVars, historyVars, startStep
  <2>2. SendingConfirmed' /\ StartConfirmed' /\ TicketsConfirmed'
    BY <1>19 DEF CancelRegistration, Review,
       TicketFacts, SendingConfirmed, StartConfirmed, TicketsConfirmed,
       tableVars, botVars, requestVars, txVars, historyVars, startStep
  <2>3. QED
    BY <2>1, <2>2 DEF TicketFacts
<1>20. ASSUME NEW r \in Requests, NEW why \in Causes, SendTicketToUser(r, why)
      PROVE  TicketFacts'
  <2>1. SendingConfirmed'
    <3>1. /\ sending[<<r, why>>] > 0 /\ confirmed' = confirmed
          /\ sending' = [sending EXCEPT ![<<r, why>>] = @ - 1]
      BY <1>20 DEF SendTicketToUser, historyVars
    <3>2. QED
      BY <3>1, SendAnswered DEF TicketFacts
  <2>2. TicketsConfirmed'
    <3>1. r \in confirmed /\ confirmed' = confirmed
      BY <1>20 DEF SendTicketToUser, historyVars, SendingConfirmed, TicketFacts
    <3>2. tickets' = [tickets EXCEPT ![r] = Append(@, why)]
      BY <1>20 DEF SendTicketToUser
    <3>3. QED
      BY <3>1, <3>2 DEF TicketsConfirmed, TicketFacts, TypeOK, TicketTypes
  <2>3. RowsConfirmed' /\ StartConfirmed'
    BY <1>20 DEF SendTicketToUser,
       TicketFacts, RowsConfirmed, StartConfirmed,
       tableVars, botVars, requestVars, txVars, historyVars, startStep
  <2>4. QED
    BY <2>1, <2>2, <2>3 DEF TicketFacts
<1>21. ASSUME NEW r \in Requests, NEW why \in Causes, SendFails(r, why)
      PROVE  TicketFacts'
  <2>1. SendingConfirmed'
    <3>1. /\ sending[<<r, why>>] > 0 /\ confirmed' = confirmed
          /\ sending' = [sending EXCEPT ![<<r, why>>] = @ - 1]
      BY <1>21 DEF SendFails, historyVars
    <3>2. QED
      BY <3>1, SendAnswered DEF TicketFacts
  <2>2. RowsConfirmed' /\ StartConfirmed' /\ TicketsConfirmed'
    BY <1>21 DEF SendFails,
       TicketFacts, RowsConfirmed, StartConfirmed, TicketsConfirmed,
       tableVars, botVars, requestVars, txVars, historyVars, startStep
  <2>3. QED
    BY <2>1, <2>2 DEF TicketFacts
<1>22. CASE Crash
  <2>1. SendingConfirmed'
    <3>1. ASSUME NEW r \in Requests, NEW why \in Causes PROVE sending'[<<r, why>>] = 0
      <4>1. <<r, why>> \in Requests \X Causes
        OBVIOUS
      <4>2. sending' = [c \in Requests \X Causes |-> 0]
        BY <1>22 DEF Crash
      <4>3. QED
        BY <4>1, <4>2, Zenon
    <3>2. QED
      BY <3>1 DEF SendingConfirmed
  <2>2. StartConfirmed'
    <3>1. confirmed' = confirmed
      BY <1>22 DEF Crash, historyVars
    <3>2. ASSUME NEW s \in Starts
          PROVE  /\ start'[s].todo \subseteq start[s].todo
                 /\ start'[s].created = start[s].created /\ start'[s].token = start[s].token
      <4>1. start[s] \in StartRecord
        BY DEF TypeOK
      <4>2. \/ start'[s] = start[s]
            \/ start'[s] = [start[s] EXCEPT !.pc = "upsert", !.todo = {}, !.cut = FALSE]
            \/ start'[s] = [start[s] EXCEPT !.pc = "lost"]
        BY <1>22 DEF Crash
      <4>3. QED
        BY <4>1, <4>2 DEF StartRecord
    <3>3. QED
      BY <3>1, <3>2 DEF StartConfirmed, TicketFacts
  <2>3. RowsConfirmed' /\ TicketsConfirmed'
    BY <1>22 DEF Crash,
       TicketFacts, RowsConfirmed, TicketsConfirmed,
       tableVars, botVars, requestVars, txVars, historyVars, startStep
  <2>4. QED
    BY <2>1, <2>2, <2>3 DEF TicketFacts
<1>23. CASE UNCHANGED vars
  BY <1>23 DEF vars, TicketFacts, RowsConfirmed, SendingConfirmed, StartConfirmed, TicketsConfirmed,
     tableVars, botVars, requestVars, txVars, historyVars, startStep
<1>24. ASSUME NEW w \in Requests \cup Starts, WriteFails(w)
      PROVE  TicketFacts'
  <2>1. StartConfirmed'
    <3>1. ASSUME NEW q \in Starts
          PROVE  /\ start'[q].todo = start[q].todo /\ start'[q].created = start[q].created
                 /\ start'[q].token = start[q].token
      <4>1. start' = start \/ start' = [start EXCEPT ![w].pc = "done"]
        BY <1>24 DEF WriteFails
      <4>2. QED
        BY <4>1 DEF TypeOK, StartRecord
    <3>2. QED
      BY <1>24, <3>1 DEF WriteFails, historyVars, StartConfirmed, TicketFacts
  <2>2. RowsConfirmed' /\ SendingConfirmed' /\ TicketsConfirmed'
    BY <1>24 DEF WriteFails, TicketFacts, RowsConfirmed, SendingConfirmed, TicketsConfirmed,
       tableVars, botVars, requestVars, txVars, historyVars, startStep
  <2>3. QED
    BY <2>1, <2>2 DEF TicketFacts
<1>25. ASSUME NEW s \in Starts, UpsertFails(s)
      PROVE  TicketFacts'
  <2>1. StartConfirmed'
    BY <1>25 DEF UpsertFails, StartConfirmed, TicketFacts, StartRecord, TypeOK, tableVars, botVars, requestVars, txVars, historyVars, startStep
  <2>2. RowsConfirmed' /\ SendingConfirmed' /\ TicketsConfirmed'
    BY <1>25 DEF UpsertFails, TicketFacts, RowsConfirmed, SendingConfirmed, TicketsConfirmed,
       tableVars, botVars, requestVars, txVars, historyVars, startStep
  <2>3. QED
    BY <2>1, <2>2 DEF TicketFacts
<1>26. ASSUME NEW s \in Starts, DeliveryFails(s)
      PROVE  TicketFacts'
  <2>1. StartConfirmed'
    BY <1>26 DEF DeliveryFails, StartConfirmed, TicketFacts, StartRecord, TypeOK, tableVars, botVars, requestVars, txVars, historyVars, startStep
  <2>2. RowsConfirmed' /\ SendingConfirmed' /\ TicketsConfirmed'
    BY <1>26 DEF DeliveryFails, TicketFacts, RowsConfirmed, SendingConfirmed, TicketsConfirmed,
       tableVars, botVars, requestVars, txVars, historyVars, startStep
  <2>3. QED
    BY <2>1, <2>2 DEF TicketFacts
<1>27. ASSUME NEW s \in Starts, ConfirmFails(s)
      PROVE  TicketFacts'
  <2>1. StartConfirmed'
    BY <1>27 DEF ConfirmFails, StartConfirmed, TicketFacts, StartRecord, TypeOK, tableVars, botVars, requestVars, txVars, historyVars, startStep
  <2>2. RowsConfirmed' /\ SendingConfirmed' /\ TicketsConfirmed'
    BY <1>27 DEF ConfirmFails, TicketFacts, RowsConfirmed, SendingConfirmed, TicketsConfirmed,
       tableVars, botVars, requestVars, txVars, historyVars, startStep
  <2>3. QED
    BY <2>1, <2>2 DEF TicketFacts
<1>. QED
  BY <1>1, <1>2, <1>3, <1>4, <1>5, <1>6, <1>7, <1>8, <1>9, <1>10, <1>11, <1>12, <1>13, <1>14, <1>15,
     <1>16, <1>17, <1>18, <1>19, <1>20, <1>21, <1>22, <1>23, <1>24, <1>25, <1>26, <1>27
  DEF Next, HandleStart

(***************************************************************************)
(* Forms                                                                   *)
(***************************************************************************)
\* Steps that neither decide, nor add a row, nor bring a /start to its form.
LEMMA TokenKeeps ==
    ASSUME TokenFacts, rows' \subseteq rows, registered' = registered,
           \A w \in Writer : tx'[w] = "existing" => tx[w] = "existing",
           \A s \in Starts :
               \/ start'[s] = start[s]
               \/ tx'[s] = "out" /\ start'[s].pc # "complete",
           \A r \in Requests : token'[r] = "completed" => token[r] = "completed"
    PROVE  TokenFacts'
<1>1. RowsRegistered' /\ StartRegistered' /\ CompletedMeansRegistered'
  BY DEF TokenFacts, RowsRegistered, StartRegistered, CompletedMeansRegistered
<1>2. ASSUME NEW w \in Writer, tx'[w] = "existing" PROVE PersonOf[RowOf(w)]' \in registered'
  <2>1. RowOf(w)' = RowOf(w)
    BY <1>2 DEF RowOf, Writer
  <2>2. PersonOf[RowOf(w)] \in registered
    BY <1>2 DEF TokenFacts, TxRegistered, Writer
  <2>3. QED
    BY <2>1, <2>2
<1>3. QED
  BY <1>1, <1>2 DEF TokenFacts, TxRegistered, Writer

\* A form is completed, and a transaction says "existing", only for a person who has been
\* registered: every step keeps it.
LEMMA TokenStep ==
    TypeOK /\ WriterFacts /\ TokenFacts /\ [Next]_vars => TokenFacts'
<1> SUFFICES ASSUME TypeOK, WriterFacts, TokenFacts, [Next]_vars PROVE TokenFacts'
  OBVIOUS
<1>1. ASSUME NEW r \in Requests, Register(r)
      PROVE  TokenFacts'
  <2>1. rows' = rows /\ tx' = tx /\ start' = start /\ registered' = registered
    BY <1>1 DEF Register, tableVars, botVars, requestVars, txVars, historyVars, startStep
  <2>2. \A q \in Requests : token'[q] = "completed" => token[q] = "completed"
    BY <1>1
       DEF Register, TypeOK, RequestTypes, tableVars, botVars, requestVars, txVars, historyVars,
       startStep
  <2>3. QED
    BY <2>1, <2>2, TokenKeeps
<1>2. ASSUME NEW r \in Requests, LookUp(r)
      PROVE  TokenFacts'
  <2>1. /\ rows' \subseteq rows /\ tx' = tx /\ start' = start /\ token' = token
        /\ registered' = registered
    BY <1>2 DEF LookUp, tableVars, botVars, requestVars, txVars, historyVars, startStep
  <2>2. QED
    BY <2>1, TokenKeeps
<1>3. ASSUME NEW r \in Requests, Expire(r)
      PROVE  TokenFacts'
  <2>1. rows' = rows /\ tx' = tx /\ start' = start /\ registered' = registered
    BY <1>3 DEF Expire, tableVars, botVars, requestVars, txVars, historyVars, startStep
  <2>2. \A q \in Requests : token'[q] = "completed" => token[q] = "completed"
    BY <1>3
       DEF Expire, TypeOK, RequestTypes, tableVars, botVars, requestVars, txVars, historyVars,
       startStep
  <2>3. QED
    BY <2>1, <2>2, TokenKeeps
<1>4. CASE PassDeadline
  <2>1. /\ rows' \subseteq rows /\ tx' = tx /\ start' = start /\ token' = token
        /\ registered' = registered
    BY <1>4 DEF PassDeadline, tableVars, botVars, requestVars, txVars, historyVars, startStep
  <2>2. QED
    BY <2>1, TokenKeeps
<1>5. ASSUME NEW w \in Requests \cup Starts, OpenTransaction(w)
      PROVE  TokenFacts'
  <2>1. rows' = rows /\ token' = token /\ start' = start /\ registered' = registered
    BY <1>5 DEF OpenTransaction, tableVars, botVars, requestVars, txVars, historyVars, startStep
  <2>2. \A v \in Writer : tx'[v] = "existing" => tx[v] = "existing"
    BY <1>5 DEF OpenTransaction, TypeOK, TxTypes, Writer
  <2>3. QED
    BY <2>1, <2>2, TokenKeeps
<1>6. ASSUME NEW w \in Requests \cup Starts, LockEvent(w)
      PROVE  TokenFacts'
  <2>1. rows' = rows /\ token' = token /\ start' = start /\ registered' = registered
    BY <1>6 DEF LockEvent, tableVars, botVars, requestVars, txVars, historyVars, startStep
  <2>2. \A v \in Writer : tx'[v] = "existing" => tx[v] = "existing"
    BY <1>6 DEF LockEvent, TypeOK, TxTypes, Writer
  <2>3. QED
    BY <2>1, <2>2, TokenKeeps
<1>7. ASSUME NEW w \in Requests \cup Starts, Decide(w)
      PROVE  TokenFacts'
  <2>1. /\ rows' = rows /\ start' = start /\ token' = token /\ registered' = registered
        /\ tx' = [tx EXCEPT ![w] = Verdict(w)]
    BY <1>7 DEF Decide, tableVars, botVars, requestVars, txVars, historyVars, startStep
  <2>2. ASSUME tx'[w] = "existing" PROVE PersonOf[RowOf(w)] \in registered
    <3>1. Verdict(w) = "existing"
      BY <2>1, <2>2 DEF TypeOK, TxTypes
    <3>2. PICK o \in rows : PersonOf[o] = PersonOf[RowOf(w)]
      BY <3>1 DEF Verdict, SamePerson
    <3>3. QED
      BY <3>2 DEF TokenFacts, RowsRegistered
  <2>3. ASSUME NEW v \in Writer, tx'[v] = "existing" PROVE PersonOf[RowOf(v)]' \in registered'
    <3>1. RowOf(v)' = RowOf(v)
      BY <2>1 DEF RowOf
    <3>2. v # w => tx[v] = "existing"
      BY <2>1, <2>3 DEF TypeOK, TxTypes, Writer
    <3>3. PersonOf[RowOf(v)] \in registered
      BY <2>2, <2>3, <3>2 DEF TokenFacts, TxRegistered, Writer
    <3>4. QED
      BY <2>1, <3>1, <3>3
  <2>4. TxRegistered'
    BY <2>3 DEF TxRegistered, Writer
  <2>5. RowsRegistered' /\ StartRegistered' /\ CompletedMeansRegistered'
    BY <2>1 DEF TokenFacts, RowsRegistered, StartRegistered, CompletedMeansRegistered
  <2>6. QED
    BY <2>4, <2>5 DEF TokenFacts
<1>8. ASSUME NEW w \in Requests \cup Starts, Create(w)
      PROVE  TokenFacts'
  <2> DEFINE r == RowOf(w)
  <2>1. /\ rows' = rows \cup {r} /\ registered' = registered \cup {PersonOf[r]}
        /\ token' = token /\ tx' = [tx EXCEPT ![w] = "out"]
    BY <1>8 DEF Create, Leave
  <2>2. /\ RowsRegistered' /\ CompletedMeansRegistered' /\ registered \subseteq registered'
        /\ PersonOf[r] \in registered'
    BY <2>1 DEF TokenFacts, RowsRegistered, CompletedMeansRegistered
  <2>3. /\ \A v \in Writer : tx'[v] = "existing" => tx[v] = "existing" /\ v # w
        /\ \A s \in Starts : s # w => start'[s] = start[s]
    BY <1>8, <2>1 DEF Create, Leave, TypeOK, TxTypes, Writer
  <2>4. TxRegistered'
    BY <2>2, <2>3 DEF TokenFacts, TxRegistered, RowOf, Writer
  <2>5. ASSUME NEW s \in Starts, start'[s].pc = "complete"
        PROVE  PersonOf[start'[s].token] \in registered'
    <3>1. CASE s # w
      BY <2>2, <2>3, <2>5, <3>1 DEF TokenFacts, StartRegistered
    <3>2. CASE s = w
      <4>1. s \in Requests => start' = start
        BY <1>8, <3>2 DEF Create, Leave
      <4>2. CASE s \in Requests
        BY <2>2, <2>5, <4>1, <4>2 DEF TokenFacts, StartRegistered
      <4>3. CASE s \notin Requests
        <5>1. r = start[s].token /\ start'[s].token = start[s].token
          BY <1>8, <3>2, <4>3 DEF RowOf, Create, Leave, TypeOK, StartRecord
        <5>2. QED
          BY <2>2, <5>1
      <4>4. QED
        BY <4>2, <4>3
    <3>3. QED
      BY <3>1, <3>2
  <2>6. QED
    BY <2>2, <2>4, <2>5 DEF TokenFacts, StartRegistered
<1>9. ASSUME NEW w \in Requests \cup Starts, RollBack(w)
      PROVE  TokenFacts'
  <2> DEFINE r == RowOf(w)
  <2>1. /\ rows' = rows /\ registered' = registered /\ token' = token
        /\ tx' = [tx EXCEPT ![w] = "out"]
    BY <1>9 DEF RollBack, Leave, tableVars, botVars, requestVars, txVars, historyVars, startStep
  <2>2. /\ RowsRegistered' /\ CompletedMeansRegistered' /\ registered \subseteq registered'
        /\ tx[w] = "existing" => PersonOf[r] \in registered'
    BY <2>1 DEF TokenFacts, RowsRegistered, TxRegistered, CompletedMeansRegistered
  <2>3. /\ \A v \in Writer : tx'[v] = "existing" => tx[v] = "existing" /\ v # w
        /\ \A s \in Starts : s # w => start'[s] = start[s]
    BY <1>9, <2>1 DEF RollBack, Leave, TypeOK, TxTypes, Writer
  <2>4. TxRegistered'
    BY <2>2, <2>3 DEF TokenFacts, TxRegistered, RowOf, Writer
  <2>5. ASSUME NEW s \in Starts, start'[s].pc = "complete"
        PROVE  PersonOf[start'[s].token] \in registered'
    <3>1. CASE s # w
      BY <2>2, <2>3, <2>5, <3>1 DEF TokenFacts, StartRegistered
    <3>2. CASE s = w
      <4>1. s \in Requests => start' = start
        BY <1>9, <3>2 DEF RollBack, Leave
      <4>2. CASE s \in Requests
        BY <2>2, <2>5, <4>1, <4>2 DEF TokenFacts, StartRegistered
      <4>3. CASE s \notin Requests
        <5>1. r = start[s].token /\ start'[s].token = start[s].token
          BY <1>9, <3>2, <4>3 DEF RowOf, RollBack, Leave, TypeOK, StartRecord
        <5>2. tx[w] = "existing"
          BY <1>9, <2>5, <3>2, <4>3 DEF RollBack, Leave, TypeOK, StartRecord
        <5>3. QED
          BY <2>2, <5>1, <5>2
      <4>4. QED
        BY <4>2, <4>3
    <3>3. QED
      BY <3>1, <3>2
  <2>6. QED
    BY <2>2, <2>4, <2>5 DEF TokenFacts, StartRegistered
<1>10. ASSUME NEW s \in Starts, NEW p \in People, NEW t \in Requests \cup {None}, Begin(s, p, t)
      PROVE  TokenFacts'
  <2>1. /\ rows' = rows /\ tx' = tx /\ token' = token /\ registered' = registered
        /\ start[s].pc = "unsent" /\ start'[s].pc # "complete"
    BY <1>10
       DEF Begin, NewStart, TypeOK, StartRecord, tableVars, botVars, requestVars, txVars,
       historyVars, startStep
  <2>2. \A other \in Starts : other # s => start'[other] = start[other]
    BY <1>10 DEF Begin, TypeOK
  <2>3. tx[s] = "out"
    BY <2>1 DEF WriterFacts
  <2>4. QED
    BY <2>1, <2>2, <2>3, TokenKeeps
<1>11. ASSUME NEW s \in Starts, UpsertBotUser(s)
      PROVE  TokenFacts'
  <2>1. /\ rows' = rows /\ tx' = tx /\ token' = token /\ registered' = registered
        /\ start[s].pc = "upsert" /\ start'[s].pc # "complete"
    BY <1>11
       DEF UpsertBotUser, NewStart, TypeOK, StartRecord, tableVars, botVars, requestVars, txVars,
       historyVars, startStep
  <2>2. \A other \in Starts : other # s => start'[other] = start[other]
    BY <1>11 DEF UpsertBotUser, TypeOK
  <2>3. tx[s] = "out"
    BY <2>1 DEF WriterFacts
  <2>4. QED
    BY <2>1, <2>2, <2>3, TokenKeeps
<1>12. ASSUME NEW s \in Starts, FindWaiting(s)
      PROVE  TokenFacts'
  <2>1. /\ rows' = rows /\ tx' = tx /\ token' = token /\ registered' = registered
        /\ start[s].pc = "look" /\ start'[s].pc # "complete"
    BY <1>12
       DEF FindWaiting, NewStart, TypeOK, StartRecord, tableVars, botVars, requestVars, txVars,
       historyVars, startStep
  <2>2. \A other \in Starts : other # s => start'[other] = start[other]
    BY <1>12 DEF FindWaiting, TypeOK
  <2>3. tx[s] = "out"
    BY <2>1 DEF WriterFacts
  <2>4. QED
    BY <2>1, <2>2, <2>3, TokenKeeps
<1>13. ASSUME NEW s \in Starts, ReadToken(s)
      PROVE  TokenFacts'
  <2>1. /\ rows' = rows /\ tx' = tx /\ token' = token /\ registered' = registered
        /\ start[s].pc = "claim" /\ start'[s].pc # "complete"
    BY <1>13
       DEF ReadToken, NewStart, TypeOK, StartRecord, tableVars, botVars, requestVars, txVars,
       historyVars, startStep
  <2>2. \A other \in Starts : other # s => start'[other] = start[other]
    BY <1>13 DEF ReadToken, TypeOK
  <2>3. tx[s] = "out"
    BY <2>1 DEF WriterFacts
  <2>4. QED
    BY <2>1, <2>2, <2>3, TokenKeeps
<1>14. ASSUME NEW s \in Starts, Complete(s)
      PROVE  TokenFacts'
  <2>1. /\ rows' = rows /\ tx' = tx /\ registered' = registered
        /\ start[s].pc = "complete" /\ start'[s].pc = "reply"
        /\ token' = [token EXCEPT ![start[s].token] = "completed"]
    BY <1>14
       DEF Complete, TypeOK, StartRecord, tableVars, botVars, requestVars, txVars, historyVars,
       startStep
  <2>2. \A other \in Starts : other # s => start'[other] = start[other]
    BY <1>14 DEF Complete, TypeOK
  <2>3. tx[s] = "out" /\ PersonOf[start[s].token] \in registered
    BY <2>1 DEF WriterFacts, TokenFacts, StartRegistered
  <2>4. CompletedMeansRegistered'
    BY <2>1, <2>3 DEF TokenFacts, CompletedMeansRegistered, TypeOK, RequestTypes
  <2>5. RowsRegistered' /\ TxRegistered' /\ StartRegistered'
    BY <2>1, <2>2, <2>3 DEF TokenFacts, RowsRegistered, TxRegistered, StartRegistered, RowOf
  <2>6. QED
    BY <2>4, <2>5 DEF TokenFacts
<1>15. ASSUME NEW s \in Starts, Reply(s)
      PROVE  TokenFacts'
  <2>1. /\ rows' = rows /\ tx' = tx /\ token' = token /\ registered' = registered
        /\ start[s].pc = "reply" /\ start'[s].pc # "complete"
    BY <1>15
       DEF Reply, NewStart, TypeOK, StartRecord, tableVars, botVars, requestVars, txVars,
       historyVars, startStep
  <2>2. \A other \in Starts : other # s => start'[other] = start[other]
    BY <1>15 DEF Reply, TypeOK
  <2>3. tx[s] = "out"
    BY <2>1 DEF WriterFacts
  <2>4. QED
    BY <2>1, <2>2, <2>3, TokenKeeps
<1>16. ASSUME NEW s \in Starts, NEW o \in Requests, Claim(s, o)
      PROVE  TokenFacts'
  <2>1. /\ rows' = rows /\ tx' = tx /\ token' = token /\ registered' = registered
        /\ start[s].pc = "claim" /\ start'[s].pc # "complete"
    BY <1>16
       DEF Claim, NewStart, TypeOK, StartRecord, tableVars, botVars, requestVars, txVars,
       historyVars, startStep
  <2>2. \A other \in Starts : other # s => start'[other] = start[other]
    BY <1>16 DEF Claim, TypeOK
  <2>3. tx[s] = "out"
    BY <2>1 DEF WriterFacts
  <2>4. QED
    BY <2>1, <2>2, <2>3, TokenKeeps
<1>17. ASSUME NEW o \in Requests, ConfirmPayment(o)
      PROVE  TokenFacts'
  <2>1. /\ rows' \subseteq rows /\ tx' = tx /\ start' = start /\ token' = token
        /\ registered' = registered
    BY <1>17
       DEF ConfirmPayment, Review, tableVars, botVars, requestVars, txVars, historyVars, startStep
  <2>2. QED
    BY <2>1, TokenKeeps
<1>18. ASSUME NEW o \in Requests, RejectPayment(o)
      PROVE  TokenFacts'
  <2>1. /\ rows' \subseteq rows /\ tx' = tx /\ start' = start /\ token' = token
        /\ registered' = registered
    BY <1>18
       DEF RejectPayment, Review, tableVars, botVars, requestVars, txVars, historyVars, startStep
  <2>2. QED
    BY <2>1, TokenKeeps
<1>19. ASSUME NEW o \in Requests, CancelRegistration(o)
      PROVE  TokenFacts'
  <2>1. /\ rows' \subseteq rows /\ tx' = tx /\ start' = start /\ token' = token
        /\ registered' = registered
    BY <1>19
       DEF CancelRegistration, Review, tableVars, botVars, requestVars, txVars, historyVars,
       startStep
  <2>2. QED
    BY <2>1, TokenKeeps
<1>20. ASSUME NEW r \in Requests, NEW why \in Causes, SendTicketToUser(r, why)
      PROVE  TokenFacts'
  <2>1. /\ rows' \subseteq rows /\ tx' = tx /\ start' = start /\ token' = token
        /\ registered' = registered
    BY <1>20 DEF SendTicketToUser, tableVars, botVars, requestVars, txVars, historyVars, startStep
  <2>2. QED
    BY <2>1, TokenKeeps
<1>21. ASSUME NEW r \in Requests, NEW why \in Causes, SendFails(r, why)
      PROVE  TokenFacts'
  <2>1. /\ rows' \subseteq rows /\ tx' = tx /\ start' = start /\ token' = token
        /\ registered' = registered
    BY <1>21 DEF SendFails, tableVars, botVars, requestVars, txVars, historyVars, startStep
  <2>2. QED
    BY <2>1, TokenKeeps
<1>22. CASE Crash
  <2>1. /\ rows' = rows /\ token' = token /\ registered' = registered
        /\ \A w \in Writer : tx'[w] = "out"
    BY <1>22
       DEF Crash, tableVars, botVars, requestVars, txVars, historyVars, startStep, TypeOK, TxTypes,
       Writer
  <2>2. ASSUME NEW s \in Starts PROVE start'[s] = start[s] \/ start'[s].pc # "complete"
    <3>1. start[s] \in StartRecord
      BY DEF TypeOK
    <3>2. QED
      BY <1>22, <3>1 DEF Crash, StartRecord
  <2>3. QED
    BY <2>1, <2>2, TokenKeeps DEF Writer
<1>23. CASE UNCHANGED vars
  <2>1. /\ rows' \subseteq rows /\ tx' = tx /\ start' = start /\ token' = token
        /\ registered' = registered
    BY <1>23 DEF vars, tableVars, botVars, requestVars, txVars, historyVars, startStep
  <2>2. QED
    BY <2>1, TokenKeeps
<1>24. ASSUME NEW w \in Requests \cup Starts, WriteFails(w)
      PROVE  TokenFacts'
  <2>1. /\ rows' = rows /\ registered' = registered /\ token' = token
        /\ tx' = [tx EXCEPT ![w] = "out"]
    BY <1>24 DEF WriteFails, tableVars, botVars, requestVars, txVars, historyVars, startStep
  <2>2. /\ \A v \in Writer : tx'[v] = "existing" => tx[v] = "existing" /\ v # w
        /\ \A s \in Starts : s # w => start'[s] = start[s]
    BY <1>24, <2>1 DEF WriteFails, TypeOK, TxTypes, Writer
  <2>3. TxRegistered'
    BY <2>1, <2>2 DEF TokenFacts, TxRegistered, RowOf, Writer
  <2>4. \A s \in Starts : start'[s] = start[s] \/ start'[s].pc = "done"
    BY <1>24 DEF WriteFails, TypeOK, StartRecord
  <2>5. RowsRegistered' /\ StartRegistered' /\ CompletedMeansRegistered'
    BY <2>1, <2>4 DEF TokenFacts, RowsRegistered, StartRegistered, CompletedMeansRegistered
  <2>6. QED
    BY <2>3, <2>5 DEF TokenFacts
<1>25. ASSUME NEW s \in Starts, UpsertFails(s)
      PROVE  TokenFacts'
  <2>1. /\ rows' = rows /\ tx' = tx /\ token' = token /\ registered' = registered
        /\ start[s].pc # "insert" /\ start'[s].pc # "complete"
    BY <1>25 DEF UpsertFails, TypeOK, StartRecord, tableVars, botVars, requestVars, txVars, historyVars, startStep
  <2>2. \A other \in Starts : other # s => start'[other] = start[other]
    BY <1>25 DEF UpsertFails, TypeOK
  <2>3. tx[s] = "out"
    BY <2>1 DEF WriterFacts
  <2>4. QED
    BY <2>1, <2>2, <2>3, TokenKeeps
<1>26. ASSUME NEW s \in Starts, DeliveryFails(s)
      PROVE  TokenFacts'
  <2>1. /\ rows' = rows /\ tx' = tx /\ token' = token /\ registered' = registered
        /\ start[s].pc # "insert" /\ start'[s].pc # "complete"
    BY <1>26 DEF DeliveryFails, TypeOK, StartRecord, tableVars, botVars, requestVars, txVars, historyVars, startStep
  <2>2. \A other \in Starts : other # s => start'[other] = start[other]
    BY <1>26 DEF DeliveryFails, TypeOK
  <2>3. tx[s] = "out"
    BY <2>1 DEF WriterFacts
  <2>4. QED
    BY <2>1, <2>2, <2>3, TokenKeeps
<1>27. ASSUME NEW s \in Starts, ConfirmFails(s)
      PROVE  TokenFacts'
  <2>1. /\ rows' = rows /\ tx' = tx /\ token' = token /\ registered' = registered
        /\ start[s].pc # "insert" /\ start'[s].pc # "complete"
    BY <1>27 DEF ConfirmFails, TypeOK, StartRecord, tableVars, botVars, requestVars, txVars, historyVars, startStep
  <2>2. \A other \in Starts : other # s => start'[other] = start[other]
    BY <1>27 DEF ConfirmFails, TypeOK
  <2>3. tx[s] = "out"
    BY <2>1 DEF WriterFacts
  <2>4. QED
    BY <2>1, <2>2, <2>3, TokenKeeps
<1>. QED
  BY <1>1, <1>2, <1>3, <1>4, <1>5, <1>6, <1>7, <1>8, <1>9, <1>10, <1>11, <1>12, <1>13, <1>14, <1>15,
     <1>16, <1>17, <1>18, <1>19, <1>20, <1>21, <1>22, <1>23, <1>24, <1>25, <1>26, <1>27
  DEF Next, HandleStart

(***************************************************************************)
(* Waiting tickets                                                         *)
(***************************************************************************)
\* Which requests /starts insert, and what the calls of organizers have done: every step keeps it.
LEMMA AddedStep ==
    TypeOK /\ WriterFacts /\ FormsOfSite /\ AddedOnce /\ [Next]_vars => FormsOfSite' /\ AddedOnce'
<1> SUFFICES ASSUME TypeOK, WriterFacts, FormsOfSite, AddedOnce, [Next]_vars
             PROVE  FormsOfSite' /\ AddedOnce'
  OBVIOUS
<1>1. ASSUME NEW r \in Requests, Register(r)
      PROVE  FormsOfSite' /\ AddedOnce'
  <2>1. FormsOfSite'
    BY <1>1, RegistrationConstants
       DEF Register, tableVars, botVars, requestVars, txVars, historyVars, startStep,
       TypeOK, RequestTypes, RowTypes, TxTypes, StartRecord, WriterFacts, FormsOfSite
  <2>2. AddedOnce'
    BY <1>1, RegistrationConstants
       DEF Register, tableVars, botVars, requestVars, txVars, historyVars, startStep,
       TypeOK, RequestTypes, RowTypes, TxTypes, StartRecord, WriterFacts, AddedOnce
  <2>3. QED
    BY <2>1, <2>2
<1>2. ASSUME NEW r \in Requests, LookUp(r)
      PROVE  FormsOfSite' /\ AddedOnce'
  <2>1. FormsOfSite'
    BY <1>2, RegistrationConstants
       DEF LookUp, tableVars, botVars, requestVars, txVars, historyVars, startStep,
       TypeOK, RequestTypes, RowTypes, TxTypes, StartRecord, WriterFacts, FormsOfSite
  <2>2. AddedOnce'
    BY <1>2, RegistrationConstants
       DEF LookUp, tableVars, botVars, requestVars, txVars, historyVars, startStep,
       TypeOK, RequestTypes, RowTypes, TxTypes, StartRecord, WriterFacts, AddedOnce
  <2>3. QED
    BY <2>1, <2>2
<1>3. ASSUME NEW r \in Requests, Expire(r)
      PROVE  FormsOfSite' /\ AddedOnce'
  <2>1. FormsOfSite'
    BY <1>3, RegistrationConstants
       DEF Expire, tableVars, botVars, requestVars, txVars, historyVars, startStep,
       TypeOK, RequestTypes, RowTypes, TxTypes, StartRecord, WriterFacts, FormsOfSite
  <2>2. AddedOnce'
    BY <1>3, RegistrationConstants
       DEF Expire, tableVars, botVars, requestVars, txVars, historyVars, startStep,
       TypeOK, RequestTypes, RowTypes, TxTypes, StartRecord, WriterFacts, AddedOnce
  <2>3. QED
    BY <2>1, <2>2
<1>4. CASE PassDeadline
  <2>1. FormsOfSite'
    BY <1>4, RegistrationConstants
       DEF PassDeadline, tableVars, botVars, requestVars, txVars, historyVars, startStep,
       TypeOK, RequestTypes, RowTypes, TxTypes, StartRecord, WriterFacts, FormsOfSite
  <2>2. AddedOnce'
    BY <1>4, RegistrationConstants
       DEF PassDeadline, tableVars, botVars, requestVars, txVars, historyVars, startStep,
       TypeOK, RequestTypes, RowTypes, TxTypes, StartRecord, WriterFacts, AddedOnce
  <2>3. QED
    BY <2>1, <2>2
<1>5. ASSUME NEW w \in Writer, OpenTransaction(w)
      PROVE  FormsOfSite' /\ AddedOnce'
  <2>1. FormsOfSite'
    BY <1>5, RegistrationConstants
       DEF OpenTransaction, IsWriter, Writer, tableVars, botVars, requestVars, txVars, historyVars,
       startStep,
       TypeOK, RequestTypes, RowTypes, TxTypes, StartRecord, WriterFacts, FormsOfSite
  <2>2. AddedOnce'
    BY <1>5, RegistrationConstants
       DEF OpenTransaction, IsWriter, Writer, tableVars, botVars, requestVars, txVars, historyVars,
       startStep,
       TypeOK, RequestTypes, RowTypes, TxTypes, StartRecord, WriterFacts, AddedOnce
  <2>3. QED
    BY <2>1, <2>2
<1>6. ASSUME NEW w \in Writer, LockEvent(w)
      PROVE  FormsOfSite' /\ AddedOnce'
  <2>1. FormsOfSite'
    BY <1>6, RegistrationConstants
       DEF LockEvent, Writer, tableVars, botVars, requestVars, txVars, historyVars, startStep,
       TypeOK, RequestTypes, RowTypes, TxTypes, StartRecord, WriterFacts, FormsOfSite
  <2>2. AddedOnce'
    BY <1>6, RegistrationConstants
       DEF LockEvent, Writer, tableVars, botVars, requestVars, txVars, historyVars, startStep,
       TypeOK, RequestTypes, RowTypes, TxTypes, StartRecord, WriterFacts, AddedOnce
  <2>3. QED
    BY <2>1, <2>2
<1>7. ASSUME NEW w \in Writer, Decide(w)
      PROVE  FormsOfSite' /\ AddedOnce'
  <2>1. FormsOfSite'
    BY <1>7, RegistrationConstants
       DEF Decide, Writer, tableVars, botVars, requestVars, txVars, historyVars, startStep,
       TypeOK, RequestTypes, RowTypes, TxTypes, StartRecord, WriterFacts, FormsOfSite
  <2>2. AddedOnce'
    BY <1>7, RegistrationConstants
       DEF Decide, Writer, tableVars, botVars, requestVars, txVars, historyVars, startStep,
       TypeOK, RequestTypes, RowTypes, TxTypes, StartRecord, WriterFacts, AddedOnce
  <2>3. QED
    BY <2>1, <2>2
<1>8. ASSUME NEW w \in Writer, Create(w)
      PROVE  FormsOfSite' /\ AddedOnce'
  <2>1. FormsOfSite'
    <3>1. token' = token /\ \A s \in Starts : start'[s].token = start[s].token
      BY <1>8
         DEF Create, Leave, RowOf, Writer, tableVars, botVars, requestVars, txVars, historyVars,
         startStep, TypeOK, StartRecord
    <3>2. QED
      BY <3>1 DEF FormsOfSite
  <2>2. \A r \in Requests : tx'[r] # "out" => pc'[r] = "ready"
    BY <1>8, RegistrationConstants
       DEF Create, Leave, RowOf, Writer, tableVars, botVars, requestVars, txVars, historyVars,
       startStep, TypeOK, RequestTypes, RowTypes, TxTypes, StartRecord, WriterFacts, AddedOnce
  <2>3. \A r \in Requests : pc[r] = "answered" => pc'[r] = "answered"
    BY <1>8
       DEF Create, Leave, RowOf, Writer, tableVars, botVars, requestVars, txVars, historyVars,
       startStep, TypeOK, RequestTypes
  <2>4. rows' = rows \cup {RowOf(w)}
    BY <1>8 DEF Create
  <2>5. KindOf[RowOf(w)] = "organizer" => pc'[RowOf(w)] = "answered"
    <3>1. CASE w \in Requests
      BY <1>8, <3>1 DEF Create, Leave, RowOf, Writer, TypeOK, RequestTypes
    <3>2. CASE w \notin Requests
      <4>1. w \in Starts /\ RowOf(w) = start[w].token /\ RowOf(w) \in Requests
        BY <1>8, <3>2 DEF Create, RowOf, Writer, WriterFacts
      <4>2. QED
        BY <4>1, RegistrationConstants DEF FormsOfSite
    <3>3. QED
      BY <3>1, <3>2
  <2>6. QED
    BY <2>1, <2>2, <2>3, <2>4, <2>5 DEF AddedOnce, TypeOK, RowTypes
<1>9. ASSUME NEW w \in Writer, RollBack(w)
      PROVE  FormsOfSite' /\ AddedOnce'
  <2>1. FormsOfSite'
    BY <1>9, RegistrationConstants
       DEF RollBack, Leave, Writer, tableVars, botVars, requestVars, txVars, historyVars, startStep,
       TypeOK, RequestTypes, RowTypes, TxTypes, StartRecord, WriterFacts, FormsOfSite
  <2>2. AddedOnce'
    BY <1>9, RegistrationConstants
       DEF RollBack, Leave, Writer, tableVars, botVars, requestVars, txVars, historyVars, startStep,
       TypeOK, RequestTypes, RowTypes, TxTypes, StartRecord, WriterFacts, AddedOnce
  <2>3. QED
    BY <2>1, <2>2
<1>10. ASSUME NEW s \in Starts, NEW p \in People, NEW t \in Requests \cup {None}, Begin(s, p, t)
      PROVE  FormsOfSite' /\ AddedOnce'
  <2>1. FormsOfSite'
    BY <1>10, RegistrationConstants
       DEF Begin, NewStart, tableVars, botVars, requestVars, txVars, historyVars, startStep,
       TypeOK, RequestTypes, RowTypes, TxTypes, StartRecord, WriterFacts, FormsOfSite
  <2>2. AddedOnce'
    BY <1>10, RegistrationConstants
       DEF Begin, NewStart, tableVars, botVars, requestVars, txVars, historyVars, startStep,
       TypeOK, RequestTypes, RowTypes, TxTypes, StartRecord, WriterFacts, AddedOnce
  <2>3. QED
    BY <2>1, <2>2
<1>11. ASSUME NEW s \in Starts, UpsertBotUser(s)
      PROVE  FormsOfSite' /\ AddedOnce'
  <2>1. FormsOfSite'
    BY <1>11, RegistrationConstants
       DEF UpsertBotUser, tableVars, botVars, requestVars, txVars, historyVars, startStep,
       TypeOK, RequestTypes, RowTypes, TxTypes, StartRecord, WriterFacts, FormsOfSite
  <2>2. AddedOnce'
    BY <1>11, RegistrationConstants
       DEF UpsertBotUser, tableVars, botVars, requestVars, txVars, historyVars, startStep,
       TypeOK, RequestTypes, RowTypes, TxTypes, StartRecord, WriterFacts, AddedOnce
  <2>3. QED
    BY <2>1, <2>2
<1>12. ASSUME NEW s \in Starts, FindWaiting(s)
      PROVE  FormsOfSite' /\ AddedOnce'
  <2>1. FormsOfSite'
    BY <1>12, RegistrationConstants
       DEF FindWaiting, tableVars, botVars, requestVars, txVars, historyVars, startStep,
       TypeOK, RequestTypes, RowTypes, TxTypes, StartRecord, WriterFacts, FormsOfSite
  <2>2. AddedOnce'
    BY <1>12, RegistrationConstants
       DEF FindWaiting, tableVars, botVars, requestVars, txVars, historyVars, startStep,
       TypeOK, RequestTypes, RowTypes, TxTypes, StartRecord, WriterFacts, AddedOnce
  <2>3. QED
    BY <2>1, <2>2
<1>13. ASSUME NEW s \in Starts, ReadToken(s)
      PROVE  FormsOfSite' /\ AddedOnce'
  <2>1. FormsOfSite'
    BY <1>13, RegistrationConstants
       DEF ReadToken, tableVars, botVars, requestVars, txVars, historyVars, startStep,
       TypeOK, RequestTypes, RowTypes, TxTypes, StartRecord, WriterFacts, FormsOfSite
  <2>2. AddedOnce'
    BY <1>13, RegistrationConstants
       DEF ReadToken, tableVars, botVars, requestVars, txVars, historyVars, startStep,
       TypeOK, RequestTypes, RowTypes, TxTypes, StartRecord, WriterFacts, AddedOnce
  <2>3. QED
    BY <2>1, <2>2
<1>14. ASSUME NEW s \in Starts, Complete(s)
      PROVE  FormsOfSite' /\ AddedOnce'
  <2>1. FormsOfSite'
    BY <1>14, RegistrationConstants
       DEF Complete, tableVars, botVars, requestVars, txVars, historyVars, startStep,
       TypeOK, RequestTypes, RowTypes, TxTypes, StartRecord, WriterFacts, FormsOfSite
  <2>2. AddedOnce'
    BY <1>14, RegistrationConstants
       DEF Complete, tableVars, botVars, requestVars, txVars, historyVars, startStep,
       TypeOK, RequestTypes, RowTypes, TxTypes, StartRecord, WriterFacts, AddedOnce
  <2>3. QED
    BY <2>1, <2>2
<1>15. ASSUME NEW s \in Starts, Reply(s)
      PROVE  FormsOfSite' /\ AddedOnce'
  <2>1. FormsOfSite'
    BY <1>15, RegistrationConstants
       DEF Reply, tableVars, botVars, requestVars, txVars, historyVars, startStep,
       TypeOK, RequestTypes, RowTypes, TxTypes, StartRecord, WriterFacts, FormsOfSite
  <2>2. AddedOnce'
    BY <1>15, RegistrationConstants
       DEF Reply, tableVars, botVars, requestVars, txVars, historyVars, startStep,
       TypeOK, RequestTypes, RowTypes, TxTypes, StartRecord, WriterFacts, AddedOnce
  <2>3. QED
    BY <2>1, <2>2
<1>16. ASSUME NEW s \in Starts, NEW o \in Requests, Claim(s, o)
      PROVE  FormsOfSite' /\ AddedOnce'
  <2>1. FormsOfSite'
    BY <1>16, RegistrationConstants
       DEF Claim, tableVars, botVars, requestVars, txVars, historyVars, startStep,
       TypeOK, RequestTypes, RowTypes, TxTypes, StartRecord, WriterFacts, FormsOfSite
  <2>2. AddedOnce'
    BY <1>16, RegistrationConstants
       DEF Claim, tableVars, botVars, requestVars, txVars, historyVars, startStep,
       TypeOK, RequestTypes, RowTypes, TxTypes, StartRecord, WriterFacts, AddedOnce
  <2>3. QED
    BY <2>1, <2>2
<1>17. ASSUME NEW o \in Requests, ConfirmPayment(o)
      PROVE  FormsOfSite' /\ AddedOnce'
  <2>1. FormsOfSite'
    BY <1>17, RegistrationConstants
       DEF ConfirmPayment, tableVars, botVars, requestVars, txVars, historyVars, startStep,
       TypeOK, RequestTypes, RowTypes, TxTypes, StartRecord, WriterFacts, FormsOfSite
  <2>2. AddedOnce'
    BY <1>17, RegistrationConstants
       DEF ConfirmPayment, tableVars, botVars, requestVars, txVars, historyVars, startStep,
       TypeOK, RequestTypes, RowTypes, TxTypes, StartRecord, WriterFacts, AddedOnce
  <2>3. QED
    BY <2>1, <2>2
<1>18. ASSUME NEW o \in Requests, RejectPayment(o)
      PROVE  FormsOfSite' /\ AddedOnce'
  <2>1. FormsOfSite'
    BY <1>18, RegistrationConstants
       DEF RejectPayment, tableVars, botVars, requestVars, txVars, historyVars, startStep,
       TypeOK, RequestTypes, RowTypes, TxTypes, StartRecord, WriterFacts, FormsOfSite
  <2>2. AddedOnce'
    BY <1>18, RegistrationConstants
       DEF RejectPayment, tableVars, botVars, requestVars, txVars, historyVars, startStep,
       TypeOK, RequestTypes, RowTypes, TxTypes, StartRecord, WriterFacts, AddedOnce
  <2>3. QED
    BY <2>1, <2>2
<1>19. ASSUME NEW o \in Requests, CancelRegistration(o)
      PROVE  FormsOfSite' /\ AddedOnce'
  <2>1. FormsOfSite'
    BY <1>19, RegistrationConstants
       DEF CancelRegistration, tableVars, botVars, requestVars, txVars, historyVars, startStep,
       TypeOK, RequestTypes, RowTypes, TxTypes, StartRecord, WriterFacts, FormsOfSite
  <2>2. AddedOnce'
    BY <1>19, RegistrationConstants
       DEF CancelRegistration, tableVars, botVars, requestVars, txVars, historyVars, startStep,
       TypeOK, RequestTypes, RowTypes, TxTypes, StartRecord, WriterFacts, AddedOnce
  <2>3. QED
    BY <2>1, <2>2
<1>20. ASSUME NEW r \in Requests, NEW why \in Causes, SendTicketToUser(r, why)
      PROVE  FormsOfSite' /\ AddedOnce'
  <2>1. FormsOfSite'
    BY <1>20, RegistrationConstants
       DEF SendTicketToUser, tableVars, botVars, requestVars, txVars, historyVars, startStep,
       TypeOK, RequestTypes, RowTypes, TxTypes, StartRecord, WriterFacts, FormsOfSite
  <2>2. AddedOnce'
    BY <1>20, RegistrationConstants
       DEF SendTicketToUser, tableVars, botVars, requestVars, txVars, historyVars, startStep,
       TypeOK, RequestTypes, RowTypes, TxTypes, StartRecord, WriterFacts, AddedOnce
  <2>3. QED
    BY <2>1, <2>2
<1>21. ASSUME NEW r \in Requests, NEW why \in Causes, SendFails(r, why)
      PROVE  FormsOfSite' /\ AddedOnce'
  <2>1. FormsOfSite'
    BY <1>21, RegistrationConstants
       DEF SendFails, tableVars, botVars, requestVars, txVars, historyVars, startStep,
       TypeOK, RequestTypes, RowTypes, TxTypes, StartRecord, WriterFacts, FormsOfSite
  <2>2. AddedOnce'
    BY <1>21, RegistrationConstants
       DEF SendFails, tableVars, botVars, requestVars, txVars, historyVars, startStep,
       TypeOK, RequestTypes, RowTypes, TxTypes, StartRecord, WriterFacts, AddedOnce
  <2>3. QED
    BY <2>1, <2>2
<1>22. CASE Crash
  <2>1. /\ token' = token /\ rows' = rows
        /\ \A r \in Requests : tx'[r] = "out" /\ (pc[r] = "answered" => pc'[r] = "answered")
    BY <1>22
       DEF Crash, tableVars, botVars, requestVars, txVars, historyVars, startStep, TypeOK, TxTypes,
       RequestTypes
  <2>2. ASSUME NEW s \in Starts PROVE start'[s].token = start[s].token
    <3>1. start[s] \in StartRecord
      BY DEF TypeOK
    <3>2. QED
      BY <1>22, <3>1 DEF Crash, StartRecord
  <2>3. QED
    BY <2>1, <2>2 DEF FormsOfSite, AddedOnce, TypeOK, RowTypes
<1>23. CASE UNCHANGED vars
  <2>1. FormsOfSite'
    BY <1>23, RegistrationConstants
       DEF vars, tableVars, botVars, requestVars, txVars, historyVars, startStep,
       TypeOK, RequestTypes, RowTypes, TxTypes, StartRecord, WriterFacts, FormsOfSite
  <2>2. AddedOnce'
    BY <1>23, RegistrationConstants
       DEF vars, tableVars, botVars, requestVars, txVars, historyVars, startStep,
       TypeOK, RequestTypes, RowTypes, TxTypes, StartRecord, WriterFacts, AddedOnce
  <2>3. QED
    BY <2>1, <2>2
<1>24. ASSUME NEW w \in Writer, WriteFails(w)
      PROVE  FormsOfSite' /\ AddedOnce'
  <2>1. FormsOfSite'
    BY <1>24, RegistrationConstants
       DEF WriteFails, IsWriter, Writer, tableVars, botVars, requestVars, txVars, historyVars, startStep,
       TypeOK, RequestTypes, RowTypes, TxTypes, StartRecord, WriterFacts, FormsOfSite
  <2>2. AddedOnce'
    BY <1>24, RegistrationConstants
       DEF WriteFails, IsWriter, Writer, tableVars, botVars, requestVars, txVars, historyVars, startStep,
       TypeOK, RequestTypes, RowTypes, TxTypes, StartRecord, WriterFacts, AddedOnce
  <2>3. QED
    BY <2>1, <2>2
<1>25. ASSUME NEW s \in Starts, UpsertFails(s)
      PROVE  FormsOfSite' /\ AddedOnce'
  <2>1. FormsOfSite'
    BY <1>25, RegistrationConstants
       DEF UpsertFails, tableVars, botVars, requestVars, txVars, historyVars, startStep,
       TypeOK, RequestTypes, RowTypes, TxTypes, StartRecord, WriterFacts, FormsOfSite
  <2>2. AddedOnce'
    BY <1>25, RegistrationConstants
       DEF UpsertFails, tableVars, botVars, requestVars, txVars, historyVars, startStep,
       TypeOK, RequestTypes, RowTypes, TxTypes, StartRecord, WriterFacts, AddedOnce
  <2>3. QED
    BY <2>1, <2>2
<1>26. ASSUME NEW s \in Starts, DeliveryFails(s)
      PROVE  FormsOfSite' /\ AddedOnce'
  <2>1. FormsOfSite'
    BY <1>26, RegistrationConstants
       DEF DeliveryFails, tableVars, botVars, requestVars, txVars, historyVars, startStep,
       TypeOK, RequestTypes, RowTypes, TxTypes, StartRecord, WriterFacts, FormsOfSite
  <2>2. AddedOnce'
    BY <1>26, RegistrationConstants
       DEF DeliveryFails, tableVars, botVars, requestVars, txVars, historyVars, startStep,
       TypeOK, RequestTypes, RowTypes, TxTypes, StartRecord, WriterFacts, AddedOnce
  <2>3. QED
    BY <2>1, <2>2
<1>27. ASSUME NEW s \in Starts, ConfirmFails(s)
      PROVE  FormsOfSite' /\ AddedOnce'
  <2>1. FormsOfSite'
    BY <1>27, RegistrationConstants
       DEF ConfirmFails, tableVars, botVars, requestVars, txVars, historyVars, startStep,
       TypeOK, RequestTypes, RowTypes, TxTypes, StartRecord, WriterFacts, FormsOfSite
  <2>2. AddedOnce'
    BY <1>27, RegistrationConstants
       DEF ConfirmFails, tableVars, botVars, requestVars, txVars, historyVars, startStep,
       TypeOK, RequestTypes, RowTypes, TxTypes, StartRecord, WriterFacts, AddedOnce
  <2>3. QED
    BY <2>1, <2>2
<1>. QED
  BY <1>1, <1>2, <1>3, <1>4, <1>5, <1>6, <1>7, <1>8, <1>9, <1>10, <1>11, <1>12, <1>13, <1>14, <1>15,
     <1>16, <1>17, <1>18, <1>19, <1>20, <1>21, <1>22, <1>23, <1>24, <1>25, <1>26, <1>27
  DEF Next, HandleStart, Writer

\* Nothing an organizer added waits that did not wait before.
WaitsLess ==
    \A o \in Requests :
        pc[o] = "answered" =>
            /\ pc'[o] = "answered"
            /\ KindOf[o] = "organizer" /\ o \in rows' \ linked' => o \in rows \ linked

Past == {"insert", "complete", "reply", "done"}

\* Every step of the event makes it wait less.
LEMMA WaitsStep ==
    TypeOK /\ WriterFacts /\ FormsOfSite /\ AddedOnce /\ [Next]_vars => WaitsLess
<1> SUFFICES ASSUME TypeOK, WriterFacts, FormsOfSite, AddedOnce, [Next]_vars PROVE WaitsLess
  OBVIOUS
<1>1. ASSUME NEW w \in Writer, Create(w) PROVE WaitsLess
  <2> SUFFICES ASSUME NEW o \in Requests, pc[o] = "answered"
               PROVE  /\ pc'[o] = "answered"
                      /\ KindOf[o] = "organizer" /\ o \in rows' \ linked' => o \in rows \ linked
    BY DEF WaitsLess
  <2>1. pc'[o] = "answered"
    BY <1>1 DEF Create, Leave, TypeOK, RequestTypes
  <2>2. ASSUME KindOf[o] = "organizer", o = RowOf(w) PROVE FALSE
    <3>1. CASE w \in Requests
      BY <1>1, <2>2, <3>1 DEF Create, RowOf, AddedOnce
    <3>2. CASE w \notin Requests
      BY <1>1, <2>2, <3>2, RegistrationConstants
         DEF Create, RowOf, Writer, WriterFacts, FormsOfSite
    <3>3. QED
      BY <3>1, <3>2
  <2>3. rows' = rows \cup {RowOf(w)} /\ linked \subseteq linked'
    BY <1>1 DEF Create
  <2>4. QED
    BY <2>1, <2>2, <2>3
<1>2. CASE \A w \in Writer : ~ Create(w)
  <2>1. \A o \in Requests : pc[o] = "answered" => pc'[o] = "answered"
    <3>1. ASSUME NEW r \in Requests, Register(r) \/ LookUp(r)
          PROVE  \A o \in Requests : pc[o] = "answered" => pc'[o] = "answered"
      BY <3>1 DEF Register, LookUp, TypeOK, RequestTypes
    <3>2. ASSUME NEW w \in Writer, RollBack(w)
          PROVE  \A o \in Requests : pc[o] = "answered" => pc'[o] = "answered"
      BY <3>2 DEF RollBack, Leave, TypeOK, RequestTypes
    <3>3. CASE Crash
      BY <3>3 DEF Crash
    <3>6. ASSUME NEW w \in Writer, WriteFails(w)
          PROVE  \A o \in Requests : pc[o] = "answered" => pc'[o] = "answered"
      BY <3>6 DEF WriteFails, IsWriter, TypeOK, RequestTypes
    <3>4. CASE /\ \A r \in Requests : ~ Register(r) /\ ~ LookUp(r)
               /\ \A w \in Writer : ~ RollBack(w) /\ ~ WriteFails(w)
               /\ ~ Crash
      <4>1. pc' = pc
        BY <1>2, <3>4
           DEF Next, HandleStart, TypeOK, RequestTypes, Leave, Writer, vars, Register, LookUp,
           Expire, PassDeadline, OpenTransaction, LockEvent, Decide, RollBack, Begin, UpsertBotUser,
           FindWaiting, ReadToken, Complete, Reply, Claim, ConfirmPayment, RejectPayment,
           CancelRegistration, SendTicketToUser, SendFails, Crash, WriteFails, UpsertFails,
           DeliveryFails, ConfirmFails, tableVars, botVars, requestVars,
           txVars, historyVars, startStep
      <4>2. QED
        BY <4>1
    <3>5. QED
      BY <3>1, <3>2, <3>3, <3>4, <3>6
  <2>2. rows' \ linked' \subseteq rows \ linked
    BY <1>2
       DEF Next, HandleStart, TypeOK, RequestTypes, Leave, Writer, vars, Register, LookUp, Expire,
       PassDeadline, OpenTransaction, LockEvent, Decide, RollBack, Begin, UpsertBotUser,
       FindWaiting, ReadToken, Complete, Reply, Claim, ConfirmPayment, RejectPayment,
       CancelRegistration, SendTicketToUser, SendFails, Crash, WriteFails, UpsertFails,
       DeliveryFails, ConfirmFails, tableVars, botVars, requestVars,
       txVars, historyVars, startStep
  <2>3. QED
    BY <2>1, <2>2 DEF WaitsLess
<1>3. QED
  BY <1>1, <1>2

\* Steps that move no /start on to its claims, and those past their claims.
LEMMA OwedKeeps ==
    ASSUME TypeOK, OwedFacts, WaitsLess,
           \A s \in Starts :
               /\ start'[s].owed = start[s].owed /\ start'[s].who = start[s].who
               /\ \/ start'[s].pc = start[s].pc /\ start'[s].todo = start[s].todo
                     /\ start'[s].cut = start[s].cut
                  \/ start'[s].pc \notin Past \cup {"claim"}
                  \/ start[s].pc \in Past /\ start'[s].pc \in Past
                     /\ start'[s].cut = start[s].cut
    PROVE  OwedFacts'
<1> SUFFICES ASSUME NEW s \in Starts
             PROVE  /\ \A o \in start'[s].owed : /\ KindOf[o] = "organizer"
                                                 /\ PersonOf[o] = start'[s].who
                                                 /\ pc'[o] = "answered"
                    /\ start'[s].pc = "claim" /\ ~ start'[s].cut
                           => start'[s].owed \cap (rows' \ linked') \subseteq start'[s].todo
                    /\ start'[s].pc \in Past /\ ~ start'[s].cut
                           => start'[s].owed \cap rows' \subseteq linked'
  BY DEF OwedFacts, Past
<1>1. start[s].owed \subseteq Requests
  BY DEF TypeOK, StartRecord
<1>2. \A o \in start[s].owed :
          KindOf[o] = "organizer" /\ PersonOf[o] = start[s].who /\ pc[o] = "answered"
  BY DEF OwedFacts
<1>3. start[s].owed \cap (rows' \ linked') \subseteq rows \ linked
  BY <1>1, <1>2 DEF WaitsLess
<1>4. start'[s].pc = "claim" /\ ~ start'[s].cut
          => start'[s].owed \cap (rows' \ linked') \subseteq start'[s].todo
  BY <1>3 DEF OwedFacts, Past
<1>5. start'[s].pc \in Past /\ ~ start'[s].cut => start'[s].owed \cap rows' \subseteq linked'
  BY <1>3 DEF OwedFacts, Past
<1>6. QED
  BY <1>1, <1>2, <1>4, <1>5 DEF WaitsLess

\* A /start leaves nothing behind that waited when it came: every step keeps it.
LEMMA OwedStep ==
    TypeOK /\ WriterFacts /\ FormsOfSite /\ AddedOnce /\ OwedFacts /\ [Next]_vars => OwedFacts'
<1> SUFFICES ASSUME TypeOK, WriterFacts, FormsOfSite, AddedOnce, OwedFacts, [Next]_vars
             PROVE  OwedFacts'
  OBVIOUS
<1> USE DEF Past
<1>0. WaitsLess
  BY WaitsStep
<1>1. ASSUME NEW r \in Requests, Register(r)
      PROVE  OwedFacts'
  <2>1. start' = start
    BY <1>1 DEF Register, tableVars, botVars, requestVars, txVars, historyVars, startStep
  <2>2. QED
    BY <1>0, <2>1, OwedKeeps
<1>2. ASSUME NEW r \in Requests, LookUp(r)
      PROVE  OwedFacts'
  <2>1. start' = start
    BY <1>2 DEF LookUp, tableVars, botVars, requestVars, txVars, historyVars, startStep
  <2>2. QED
    BY <1>0, <2>1, OwedKeeps
<1>3. ASSUME NEW r \in Requests, Expire(r)
      PROVE  OwedFacts'
  <2>1. start' = start
    BY <1>3 DEF Expire, tableVars, botVars, requestVars, txVars, historyVars, startStep
  <2>2. QED
    BY <1>0, <2>1, OwedKeeps
<1>4. CASE PassDeadline
  <2>1. start' = start
    BY <1>4 DEF PassDeadline, tableVars, botVars, requestVars, txVars, historyVars, startStep
  <2>2. QED
    BY <1>0, <2>1, OwedKeeps
<1>5. ASSUME NEW w \in Writer, OpenTransaction(w)
      PROVE  OwedFacts'
  <2>1. start' = start
    BY <1>5
       DEF OpenTransaction, IsWriter, Writer, tableVars, botVars, requestVars, txVars, historyVars,
       startStep
  <2>2. QED
    BY <1>0, <2>1, OwedKeeps
<1>6. ASSUME NEW w \in Writer, LockEvent(w)
      PROVE  OwedFacts'
  <2>1. start' = start
    BY <1>6 DEF LockEvent, Writer, tableVars, botVars, requestVars, txVars, historyVars, startStep
  <2>2. QED
    BY <1>0, <2>1, OwedKeeps
<1>7. ASSUME NEW w \in Writer, Decide(w)
      PROVE  OwedFacts'
  <2>1. start' = start
    BY <1>7 DEF Decide, Writer, tableVars, botVars, requestVars, txVars, historyVars, startStep
  <2>2. QED
    BY <1>0, <2>1, OwedKeeps
<1>8. ASSUME NEW w \in Writer, Create(w)
      PROVE  OwedFacts'
  <2>1. ASSUME NEW q \in Starts
        PROVE  /\ start'[q].owed = start[q].owed /\ start'[q].who = start[q].who
               /\ \/ start'[q].pc = start[q].pc /\ start'[q].todo = start[q].todo
                     /\ start'[q].cut = start[q].cut
                  \/ start'[q].pc \notin Past \cup {"claim"}
                  \/ start[q].pc \in Past /\ start'[q].pc \in Past
                     /\ start'[q].cut = start[q].cut
    <3>1. start[q] \in StartRecord
      BY DEF TypeOK
    <3>2. QED
      BY <1>8, <3>1
         DEF Create, Leave, RowOf, Writer, WriterFacts, TypeOK, StartRecord, Running, tableVars,
         botVars, requestVars, txVars, historyVars, startStep
  <2>2. QED
    BY <1>0, <2>1, OwedKeeps
<1>9. ASSUME NEW w \in Writer, RollBack(w)
      PROVE  OwedFacts'
  <2>1. ASSUME NEW q \in Starts
        PROVE  /\ start'[q].owed = start[q].owed /\ start'[q].who = start[q].who
               /\ \/ start'[q].pc = start[q].pc /\ start'[q].todo = start[q].todo
                     /\ start'[q].cut = start[q].cut
                  \/ start'[q].pc \notin Past \cup {"claim"}
                  \/ start[q].pc \in Past /\ start'[q].pc \in Past
                     /\ start'[q].cut = start[q].cut
    <3>1. start[q] \in StartRecord
      BY DEF TypeOK
    <3>2. QED
      BY <1>9, <3>1
         DEF RollBack, Leave, Writer, WriterFacts, TypeOK, StartRecord, Running, tableVars, botVars,
         requestVars, txVars, historyVars, startStep
  <2>2. QED
    BY <1>0, <2>1, OwedKeeps
<1>10. ASSUME NEW s \in Starts, NEW p \in People, NEW t \in Requests \cup {None}, Begin(s, p, t)
      PROVE  OwedFacts'
  <2>1. \A q \in Starts : q # s => start'[q] = start[q]
    BY <1>10 DEF Begin, TypeOK
  <2>2. start'[s].pc = "upsert" /\ start'[s].who = p /\ start'[s].owed = Waiting(p)
    BY <1>10 DEF Begin, NewStart, TypeOK, StartRecord
  <2>3. rows' = rows /\ linked' = linked /\ pc' = pc
    BY <1>10 DEF Begin, tableVars, botVars, requestVars, txVars, historyVars, startStep
  <2>4. \A o \in Waiting(p) :
            KindOf[o] = "organizer" /\ PersonOf[o] = p /\ pc[o] = "answered"
    BY DEF Waiting, AddedOnce
  <2>5. QED
    BY <2>1, <2>2, <2>3, <2>4 DEF OwedFacts
<1>11. ASSUME NEW s \in Starts, UpsertBotUser(s)
      PROVE  OwedFacts'
  <2>1. ASSUME NEW q \in Starts
        PROVE  /\ start'[q].owed = start[q].owed /\ start'[q].who = start[q].who
               /\ \/ start'[q].pc = start[q].pc /\ start'[q].todo = start[q].todo
                     /\ start'[q].cut = start[q].cut
                  \/ start'[q].pc \notin Past \cup {"claim"}
                  \/ start[q].pc \in Past /\ start'[q].pc \in Past
                     /\ start'[q].cut = start[q].cut
    <3>1. start[q] \in StartRecord
      BY DEF TypeOK
    <3>2. QED
      BY <1>11, <3>1
         DEF UpsertBotUser, WriterFacts, TypeOK, StartRecord, Running, tableVars, botVars,
         requestVars, txVars, historyVars, startStep
  <2>2. QED
    BY <1>0, <2>1, OwedKeeps
<1>12. ASSUME NEW s \in Starts, FindWaiting(s)
      PROVE  OwedFacts'
  <2>1. \A q \in Starts : q # s => start'[q] = start[q]
    BY <1>12 DEF FindWaiting, TypeOK
  <2>2. /\ start'[s].pc = "claim" /\ start'[s].who = start[s].who
        /\ start'[s].owed = start[s].owed /\ start'[s].todo = Waiting(start[s].who)
    BY <1>12 DEF FindWaiting, TypeOK, StartRecord
  <2>3. rows' = rows /\ linked' = linked /\ pc' = pc
    BY <1>12 DEF FindWaiting, tableVars, botVars, requestVars, txVars, historyVars, startStep
  <2>4. start[s].owed \cap (rows \ linked) \subseteq Waiting(start[s].who)
    BY DEF Waiting, OwedFacts
  <2>5. QED
    BY <2>1, <2>2, <2>3, <2>4 DEF OwedFacts
<1>13. ASSUME NEW s \in Starts, ReadToken(s)
      PROVE  OwedFacts'
  <2>1. \A q \in Starts : q # s => start'[q] = start[q]
    BY <1>13 DEF ReadToken, TypeOK
  <2>2. /\ start[s].pc = "claim" /\ start[s].todo = {} /\ start'[s].pc \in Past
        /\ start'[s].who = start[s].who /\ start'[s].owed = start[s].owed
        /\ start'[s].cut = start[s].cut
    BY <1>13 DEF ReadToken, TypeOK, StartRecord
  <2>3. rows' = rows /\ linked' = linked /\ pc' = pc
    BY <1>13 DEF ReadToken, tableVars, botVars, requestVars, txVars, historyVars, startStep
  <2>4. start[s].cut \/ start[s].owed \cap rows \subseteq linked
    BY <2>2 DEF OwedFacts
  <2>5. QED
    BY <2>1, <2>2, <2>3, <2>4 DEF OwedFacts
<1>14. ASSUME NEW s \in Starts, Complete(s)
      PROVE  OwedFacts'
  <2>1. ASSUME NEW q \in Starts
        PROVE  /\ start'[q].owed = start[q].owed /\ start'[q].who = start[q].who
               /\ \/ start'[q].pc = start[q].pc /\ start'[q].todo = start[q].todo
                     /\ start'[q].cut = start[q].cut
                  \/ start'[q].pc \notin Past \cup {"claim"}
                  \/ start[q].pc \in Past /\ start'[q].pc \in Past
                     /\ start'[q].cut = start[q].cut
    <3>1. start[q] \in StartRecord
      BY DEF TypeOK
    <3>2. QED
      BY <1>14, <3>1
         DEF Complete, WriterFacts, TypeOK, StartRecord, Running, tableVars, botVars, requestVars,
         txVars, historyVars, startStep
  <2>2. QED
    BY <1>0, <2>1, OwedKeeps
<1>15. ASSUME NEW s \in Starts, Reply(s)
      PROVE  OwedFacts'
  <2>1. ASSUME NEW q \in Starts
        PROVE  /\ start'[q].owed = start[q].owed /\ start'[q].who = start[q].who
               /\ \/ start'[q].pc = start[q].pc /\ start'[q].todo = start[q].todo
                     /\ start'[q].cut = start[q].cut
                  \/ start'[q].pc \notin Past \cup {"claim"}
                  \/ start[q].pc \in Past /\ start'[q].pc \in Past
                     /\ start'[q].cut = start[q].cut
    <3>1. start[q] \in StartRecord
      BY DEF TypeOK
    <3>2. QED
      BY <1>15, <3>1
         DEF Reply, WriterFacts, TypeOK, StartRecord, Running, tableVars, botVars, requestVars,
         txVars, historyVars, startStep
  <2>2. QED
    BY <1>0, <2>1, OwedKeeps
<1>16. ASSUME NEW s \in Starts, NEW o \in Requests, Claim(s, o)
      PROVE  OwedFacts'
  <2>1. \A q \in Starts : q # s => start'[q] = start[q]
    BY <1>16 DEF Claim, TypeOK
  <2>2. /\ start[s].pc = "claim" /\ start'[s].pc = "claim" /\ start'[s].who = start[s].who
        /\ start'[s].owed = start[s].owed /\ start'[s].todo = start[s].todo \ {o}
        /\ start'[s].cut = start[s].cut
    BY <1>16 DEF Claim, TypeOK, StartRecord
  <2>3. rows' = rows /\ pc' = pc /\ linked \subseteq linked' /\ (o \in rows => o \in linked')
    BY <1>16 DEF Claim, tableVars, botVars, requestVars, txVars, historyVars, startStep
  <2>4. start[s].cut \/ start[s].owed \cap (rows' \ linked') \subseteq start'[s].todo
    BY <2>2, <2>3 DEF OwedFacts
  <2>5. QED
    BY <2>1, <2>2, <2>3, <2>4 DEF OwedFacts
<1>17. ASSUME NEW o \in Requests, ConfirmPayment(o)
      PROVE  OwedFacts'
  <2>1. start' = start
    BY <1>17 DEF ConfirmPayment, tableVars, botVars, requestVars, txVars, historyVars, startStep
  <2>2. QED
    BY <1>0, <2>1, OwedKeeps
<1>18. ASSUME NEW o \in Requests, RejectPayment(o)
      PROVE  OwedFacts'
  <2>1. start' = start
    BY <1>18 DEF RejectPayment, tableVars, botVars, requestVars, txVars, historyVars, startStep
  <2>2. QED
    BY <1>0, <2>1, OwedKeeps
<1>19. ASSUME NEW o \in Requests, CancelRegistration(o)
      PROVE  OwedFacts'
  <2>1. start' = start
    BY <1>19 DEF CancelRegistration, tableVars, botVars, requestVars, txVars, historyVars, startStep
  <2>2. QED
    BY <1>0, <2>1, OwedKeeps
<1>20. ASSUME NEW r \in Requests, NEW why \in Causes, SendTicketToUser(r, why)
      PROVE  OwedFacts'
  <2>1. start' = start
    BY <1>20 DEF SendTicketToUser, tableVars, botVars, requestVars, txVars, historyVars, startStep
  <2>2. QED
    BY <1>0, <2>1, OwedKeeps
<1>21. ASSUME NEW r \in Requests, NEW why \in Causes, SendFails(r, why)
      PROVE  OwedFacts'
  <2>1. start' = start
    BY <1>21 DEF SendFails, tableVars, botVars, requestVars, txVars, historyVars, startStep
  <2>2. QED
    BY <1>0, <2>1, OwedKeeps
<1>22. CASE Crash
  <2>1. ASSUME NEW q \in Starts
        PROVE  /\ start'[q].owed = start[q].owed /\ start'[q].who = start[q].who
               /\ \/ start'[q].pc = start[q].pc /\ start'[q].todo = start[q].todo
                     /\ start'[q].cut = start[q].cut
                  \/ start'[q].pc \notin Past \cup {"claim"}
                  \/ start[q].pc \in Past /\ start'[q].pc \in Past
                     /\ start'[q].cut = start[q].cut
    <3>1. start[q] \in StartRecord
      BY DEF TypeOK
    <3>2. QED
      BY <1>22, <3>1
         DEF Crash, WriterFacts, TypeOK, StartRecord, Running, tableVars, botVars, requestVars,
         txVars, historyVars, startStep
  <2>2. QED
    BY <1>0, <2>1, OwedKeeps
<1>23. CASE UNCHANGED vars
  <2>1. start' = start
    BY <1>23 DEF vars, tableVars, botVars, requestVars, txVars, historyVars, startStep
  <2>2. QED
    BY <1>0, <2>1, OwedKeeps
<1>24. ASSUME NEW w \in Writer, WriteFails(w)
      PROVE  OwedFacts'
  <2>1. ASSUME NEW q \in Starts
        PROVE  /\ start'[q].owed = start[q].owed /\ start'[q].who = start[q].who
               /\ \/ start'[q].pc = start[q].pc /\ start'[q].todo = start[q].todo
                     /\ start'[q].cut = start[q].cut
                  \/ start'[q].pc \notin Past \cup {"claim"}
                  \/ start[q].pc \in Past /\ start'[q].pc \in Past
                     /\ start'[q].cut = start[q].cut
    <3>1. start[q] \in StartRecord
      BY DEF TypeOK
    <3>2. QED
      BY <1>24, <3>1, RegistrationConstants DEF WriteFails, IsWriter, Writer, TypeOK, StartRecord
  <2>2. QED
    BY <1>0, <2>1, OwedKeeps
<1>25. ASSUME NEW s \in Starts, UpsertFails(s)
      PROVE  OwedFacts'
  <2>1. ASSUME NEW q \in Starts
        PROVE  /\ start'[q].owed = start[q].owed /\ start'[q].who = start[q].who
               /\ \/ start'[q].pc = start[q].pc /\ start'[q].todo = start[q].todo
                     /\ start'[q].cut = start[q].cut
                  \/ start'[q].pc \notin Past \cup {"claim"}
                  \/ start[q].pc \in Past /\ start'[q].pc \in Past
                     /\ start'[q].cut = start[q].cut
    <3>1. start[q] \in StartRecord
      BY DEF TypeOK
    <3>2. QED
      BY <1>25, <3>1, RegistrationConstants DEF UpsertFails, TypeOK, StartRecord
  <2>2. QED
    BY <1>0, <2>1, OwedKeeps
<1>26. ASSUME NEW s \in Starts, DeliveryFails(s)
      PROVE  OwedFacts'
  <2>1. \A q \in Starts : q # s => start'[q] = start[q]
    BY <1>26 DEF DeliveryFails, TypeOK
  <2>2. start'[s].cut /\ start'[s].who = start[s].who /\ start'[s].owed = start[s].owed
    BY <1>26 DEF DeliveryFails, TypeOK, StartRecord
  <2>3. rows' = rows /\ pc' = pc /\ linked \subseteq linked'
    BY <1>26 DEF DeliveryFails, tableVars, botVars, requestVars, txVars, historyVars, startStep
  <2>4. QED
    BY <2>1, <2>2, <2>3 DEF OwedFacts
<1>27. ASSUME NEW s \in Starts, ConfirmFails(s)
      PROVE  OwedFacts'
  <2>1. ASSUME NEW q \in Starts
        PROVE  /\ start'[q].owed = start[q].owed /\ start'[q].who = start[q].who
               /\ \/ start'[q].pc = start[q].pc /\ start'[q].todo = start[q].todo
                     /\ start'[q].cut = start[q].cut
                  \/ start'[q].pc \notin Past \cup {"claim"}
                  \/ start[q].pc \in Past /\ start'[q].pc \in Past
                     /\ start'[q].cut = start[q].cut
    <3>1. start[q] \in StartRecord
      BY DEF TypeOK
    <3>2. QED
      BY <1>27, <3>1, RegistrationConstants DEF ConfirmFails, TypeOK, StartRecord
  <2>2. QED
    BY <1>0, <2>1, OwedKeeps
<1>. QED
  BY <1>1, <1>2, <1>3, <1>4, <1>5, <1>6, <1>7, <1>8, <1>9, <1>10, <1>11, <1>12, <1>13, <1>14, <1>15,
     <1>16, <1>17, <1>18, <1>19, <1>20, <1>21, <1>22, <1>23, <1>24, <1>25, <1>26, <1>27
  DEF Next, HandleStart, Writer

\* A row has finitely many tickets.
LEMMA StartsFinite ==
    ASSUME TypeOK, NEW r \in Requests
    PROVE  IsFiniteSet(StartsIn(tickets[r])) /\ Cardinality(StartsIn(tickets[r])) \in Nat
<1>1. tickets[r] \in Seq(Causes)
  BY DEF TypeOK, TicketTypes
<1>2. StartsIn(tickets[r]) \in SUBSET (1 .. Len(tickets[r])) /\ Len(tickets[r]) \in Nat
  BY <1>1 DEF StartsIn
<1>3. IsFiniteSet(1 .. Len(tickets[r]))
  BY <1>2, FS_Interval
<1>4. QED
  BY <1>2, <1>3, FS_Subset, FS_CardinalityType

\* A ticket for another reason is no ticket that waited.
LEMMA OtherSend ==
    ASSUME TypeOK, sending' = sending \/ \E q, c : c # "start" /\ Send(q, c)
    PROVE  \A r \in Requests : sending'[<<r, "start">>] = sending[<<r, "start">>]
<1> SUFFICES ASSUME NEW q, NEW c, c # "start", Send(q, c), NEW r \in Requests
             PROVE  sending'[<<r, "start">>] = sending[<<r, "start">>]
  OBVIOUS
<1>1. <<r, "start">> # <<q, c>> /\ <<r, "start">> \in Requests \X Causes
  BY DEF Causes
<1>2. QED
  BY <1>1 DEF Send, TypeOK, TicketTypes

\* Steps that deliver no waiting ticket.
LEMMA DeliveredKeeps ==
    ASSUME TypeOK, DeliveredFacts, WaitingTicketsOnce, WaitsLess, tickets' = tickets,
           \A r \in Requests :
               sending'[<<r, "start">>] \in Nat /\ sending'[<<r, "start">>] <= sending[<<r, "start">>]
    PROVE  DeliveredFacts' /\ WaitingTicketsOnce'
<1>1. ASSUME NEW r \in Requests
      PROVE  Delivered(r)' <= 1 /\ (Delivered(r)' > 0 => Delivered(r) > 0)
  <2> DEFINE n == Cardinality(StartsIn(tickets[r]))
  <2>1. n \in Nat /\ Cardinality(StartsIn(tickets'[r])) = n
    BY StartsFinite
  <2>2. sending[<<r, "start">>] \in Nat
    BY DEF TypeOK, TicketTypes, Causes
  <2>3. Delivered(r)' = n + sending'[<<r, "start">>] /\ Delivered(r) = n + sending[<<r, "start">>]
    BY <2>1 DEF Delivered, StartsIn
  <2>4. Delivered(r) <= 1
    BY DEF WaitingTicketsOnce
  <2> HIDE DEF n
  <2>5. QED
    BY <2>1, <2>2, <2>3, <2>4
<1>2. DeliveredFacts'
  BY <1>1 DEF DeliveredFacts, WaitsLess
<1>3. WaitingTicketsOnce'
  BY <1>1 DEF WaitingTicketsOnce
<1>4. QED
  BY <1>2, <1>3

\* A waiting ticket is delivered once: every step keeps it.
LEMMA DeliveredStep ==
    TypeOK /\ WriterFacts /\ StartConfirmed /\ FormsOfSite /\ AddedOnce /\ DeliveredFacts
    /\ WaitingTicketsOnce /\ [Next]_vars => DeliveredFacts' /\ WaitingTicketsOnce'
<1> SUFFICES ASSUME TypeOK, WriterFacts, StartConfirmed, FormsOfSite, AddedOnce,
                    DeliveredFacts, WaitingTicketsOnce, [Next]_vars
             PROVE  DeliveredFacts' /\ WaitingTicketsOnce'
  OBVIOUS
<1>0. WaitsLess
  BY WaitsStep
<1>1. ASSUME NEW r \in Requests, Register(r)
      PROVE  DeliveredFacts' /\ WaitingTicketsOnce'
  <2>1. tickets' = tickets /\ sending' = sending
    BY <1>1 DEF Register, tableVars, botVars, requestVars, txVars, historyVars, startStep
  <2>2. \A q \in Requests : sending[<<q, "start">>] \in Nat
    BY DEF TypeOK, TicketTypes, Causes
  <2>3. QED
    BY <1>0, <2>1, <2>2, DeliveredKeeps
<1>2. ASSUME NEW r \in Requests, LookUp(r)
      PROVE  DeliveredFacts' /\ WaitingTicketsOnce'
  <2>1. tickets' = tickets /\ sending' = sending
    BY <1>2 DEF LookUp, tableVars, botVars, requestVars, txVars, historyVars, startStep
  <2>2. \A q \in Requests : sending[<<q, "start">>] \in Nat
    BY DEF TypeOK, TicketTypes, Causes
  <2>3. QED
    BY <1>0, <2>1, <2>2, DeliveredKeeps
<1>3. ASSUME NEW r \in Requests, Expire(r)
      PROVE  DeliveredFacts' /\ WaitingTicketsOnce'
  <2>1. tickets' = tickets /\ sending' = sending
    BY <1>3 DEF Expire, tableVars, botVars, requestVars, txVars, historyVars, startStep
  <2>2. \A q \in Requests : sending[<<q, "start">>] \in Nat
    BY DEF TypeOK, TicketTypes, Causes
  <2>3. QED
    BY <1>0, <2>1, <2>2, DeliveredKeeps
<1>4. CASE PassDeadline
  <2>1. tickets' = tickets /\ sending' = sending
    BY <1>4 DEF PassDeadline, tableVars, botVars, requestVars, txVars, historyVars, startStep
  <2>2. \A q \in Requests : sending[<<q, "start">>] \in Nat
    BY DEF TypeOK, TicketTypes, Causes
  <2>3. QED
    BY <1>0, <2>1, <2>2, DeliveredKeeps
<1>5. ASSUME NEW w \in Writer, OpenTransaction(w)
      PROVE  DeliveredFacts' /\ WaitingTicketsOnce'
  <2>1. tickets' = tickets /\ sending' = sending
    BY <1>5
       DEF OpenTransaction, IsWriter, Writer, tableVars, botVars, requestVars, txVars, historyVars,
       startStep
  <2>2. \A q \in Requests : sending[<<q, "start">>] \in Nat
    BY DEF TypeOK, TicketTypes, Causes
  <2>3. QED
    BY <1>0, <2>1, <2>2, DeliveredKeeps
<1>6. ASSUME NEW w \in Writer, LockEvent(w)
      PROVE  DeliveredFacts' /\ WaitingTicketsOnce'
  <2>1. tickets' = tickets /\ sending' = sending
    BY <1>6 DEF LockEvent, Writer, tableVars, botVars, requestVars, txVars, historyVars, startStep
  <2>2. \A q \in Requests : sending[<<q, "start">>] \in Nat
    BY DEF TypeOK, TicketTypes, Causes
  <2>3. QED
    BY <1>0, <2>1, <2>2, DeliveredKeeps
<1>7. ASSUME NEW w \in Writer, Decide(w)
      PROVE  DeliveredFacts' /\ WaitingTicketsOnce'
  <2>1. tickets' = tickets /\ sending' = sending
    BY <1>7 DEF Decide, Writer, tableVars, botVars, requestVars, txVars, historyVars, startStep
  <2>2. \A q \in Requests : sending[<<q, "start">>] \in Nat
    BY DEF TypeOK, TicketTypes, Causes
  <2>3. QED
    BY <1>0, <2>1, <2>2, DeliveredKeeps
<1>8. ASSUME NEW w \in Writer, Create(w)
      PROVE  DeliveredFacts' /\ WaitingTicketsOnce'
  <2>1. tickets' = tickets
    BY <1>8
       DEF Create, Leave, RowOf, Writer, tableVars, botVars, requestVars, txVars, historyVars,
       startStep
  <2>2. sending' = sending \/ \E q, c : c # "start" /\ Send(q, c)
    BY <1>8
       DEF Create, Leave, RowOf, Writer, tableVars, botVars, requestVars, txVars, historyVars,
       startStep
  <2>3. \A r \in Requests : sending'[<<r, "start">>] = sending[<<r, "start">>]
    BY <2>2, OtherSend
  <2>4. \A r \in Requests : sending[<<r, "start">>] \in Nat
    BY DEF TypeOK, TicketTypes, Causes
  <2>5. QED
    BY <1>0, <2>1, <2>3, <2>4, DeliveredKeeps
<1>9. ASSUME NEW w \in Writer, RollBack(w)
      PROVE  DeliveredFacts' /\ WaitingTicketsOnce'
  <2>1. tickets' = tickets /\ sending' = sending
    BY <1>9
       DEF RollBack, Leave, Writer, tableVars, botVars, requestVars, txVars, historyVars, startStep
  <2>2. \A q \in Requests : sending[<<q, "start">>] \in Nat
    BY DEF TypeOK, TicketTypes, Causes
  <2>3. QED
    BY <1>0, <2>1, <2>2, DeliveredKeeps
<1>10. ASSUME NEW s \in Starts, NEW p \in People, NEW t \in Requests \cup {None}, Begin(s, p, t)
      PROVE  DeliveredFacts' /\ WaitingTicketsOnce'
  <2>1. tickets' = tickets /\ sending' = sending
    BY <1>10 DEF Begin, NewStart, tableVars, botVars, requestVars, txVars, historyVars, startStep
  <2>2. \A q \in Requests : sending[<<q, "start">>] \in Nat
    BY DEF TypeOK, TicketTypes, Causes
  <2>3. QED
    BY <1>0, <2>1, <2>2, DeliveredKeeps
<1>11. ASSUME NEW s \in Starts, UpsertBotUser(s)
      PROVE  DeliveredFacts' /\ WaitingTicketsOnce'
  <2>1. tickets' = tickets /\ sending' = sending
    BY <1>11 DEF UpsertBotUser, tableVars, botVars, requestVars, txVars, historyVars, startStep
  <2>2. \A q \in Requests : sending[<<q, "start">>] \in Nat
    BY DEF TypeOK, TicketTypes, Causes
  <2>3. QED
    BY <1>0, <2>1, <2>2, DeliveredKeeps
<1>12. ASSUME NEW s \in Starts, FindWaiting(s)
      PROVE  DeliveredFacts' /\ WaitingTicketsOnce'
  <2>1. tickets' = tickets /\ sending' = sending
    BY <1>12 DEF FindWaiting, tableVars, botVars, requestVars, txVars, historyVars, startStep
  <2>2. \A q \in Requests : sending[<<q, "start">>] \in Nat
    BY DEF TypeOK, TicketTypes, Causes
  <2>3. QED
    BY <1>0, <2>1, <2>2, DeliveredKeeps
<1>13. ASSUME NEW s \in Starts, ReadToken(s)
      PROVE  DeliveredFacts' /\ WaitingTicketsOnce'
  <2>1. tickets' = tickets /\ sending' = sending
    BY <1>13 DEF ReadToken, tableVars, botVars, requestVars, txVars, historyVars, startStep
  <2>2. \A q \in Requests : sending[<<q, "start">>] \in Nat
    BY DEF TypeOK, TicketTypes, Causes
  <2>3. QED
    BY <1>0, <2>1, <2>2, DeliveredKeeps
<1>14. ASSUME NEW s \in Starts, Complete(s)
      PROVE  DeliveredFacts' /\ WaitingTicketsOnce'
  <2>1. tickets' = tickets /\ sending' = sending
    BY <1>14 DEF Complete, tableVars, botVars, requestVars, txVars, historyVars, startStep
  <2>2. \A q \in Requests : sending[<<q, "start">>] \in Nat
    BY DEF TypeOK, TicketTypes, Causes
  <2>3. QED
    BY <1>0, <2>1, <2>2, DeliveredKeeps
<1>15. ASSUME NEW s \in Starts, Reply(s)
      PROVE  DeliveredFacts' /\ WaitingTicketsOnce'
  <2>1. tickets' = tickets
    BY <1>15 DEF Reply, tableVars, botVars, requestVars, txVars, historyVars, startStep
  <2>2. sending' = sending \/ \E q, c : c # "start" /\ Send(q, c)
    BY <1>15 DEF Reply, tableVars, botVars, requestVars, txVars, historyVars, startStep
  <2>3. \A r \in Requests : sending'[<<r, "start">>] = sending[<<r, "start">>]
    BY <2>2, OtherSend
  <2>4. \A r \in Requests : sending[<<r, "start">>] \in Nat
    BY DEF TypeOK, TicketTypes, Causes
  <2>5. QED
    BY <1>0, <2>1, <2>3, <2>4, DeliveredKeeps
<1>16. ASSUME NEW s \in Starts, NEW o \in Requests, Claim(s, o)
      PROVE  DeliveredFacts' /\ WaitingTicketsOnce'
  <2>1. KindOf[o] = "organizer" /\ rows' = rows /\ pc' = pc /\ tickets' = tickets
    BY <1>16
       DEF Claim, StartConfirmed, IgnoresLimits, tableVars, botVars, requestVars, txVars,
       historyVars, startStep
  <2>2. CASE o \in rows \ linked
    <3>1. linked' = linked \cup {o} /\ Send(o, "start")
      BY <1>16, <2>2 DEF Claim
    <3>2. pc[o] = "answered"
      BY <2>1, <2>2 DEF AddedOnce
    <3>3. \A r \in Requests \ {o} : sending'[<<r, "start">>] = sending[<<r, "start">>]
      BY <3>1 DEF Send, TypeOK, TicketTypes, Causes
    <3>4. sending'[<<o, "start">>] = sending[<<o, "start">>] + 1
      BY <3>1 DEF Send, TypeOK, TicketTypes, Causes
    <3>5. \A r \in Requests : /\ Cardinality(StartsIn(tickets[r])) \in Nat
                             /\ sending[<<r, "start">>] \in Nat
      BY StartsFinite DEF TypeOK, TicketTypes, Causes
    <3>6. Delivered(o) = 0
      <4>1. ~ (Delivered(o) > 0)
        BY <2>2 DEF DeliveredFacts
      <4>2. QED
        BY <3>5, <4>1 DEF Delivered
    <3>7. Delivered(o)' = 1
      <4>1. Delivered(o)' = Cardinality(StartsIn(tickets[o])) + (sending[<<o, "start">>] + 1)
        BY <2>1, <3>4 DEF Delivered, StartsIn
      <4>2. QED
        BY <3>5, <3>6, <4>1 DEF Delivered
    <3>8. \A r \in Requests \ {o} : Delivered(r)' = Delivered(r)
      BY <2>1, <3>3 DEF Delivered, StartsIn
    <3>9. DeliveredFacts'
      BY <2>1, <3>1, <3>2, <3>7, <3>8 DEF DeliveredFacts
    <3>10. WaitingTicketsOnce'
      BY <3>7, <3>8 DEF WaitingTicketsOnce
    <3>11. QED
      BY <3>9, <3>10
  <2>3. CASE o \notin rows \ linked
    <3>1. sending' = sending
      BY <1>16, <2>3 DEF Claim
    <3>2. \A r \in Requests : sending[<<r, "start">>] \in Nat
      BY DEF TypeOK, TicketTypes, Causes
    <3>3. QED
      BY <1>0, <2>1, <3>1, <3>2, DeliveredKeeps
  <2>4. QED
    BY <2>2, <2>3
<1>17. ASSUME NEW o \in Requests, ConfirmPayment(o)
      PROVE  DeliveredFacts' /\ WaitingTicketsOnce'
  <2>1. tickets' = tickets
    BY <1>17 DEF ConfirmPayment, tableVars, botVars, requestVars, txVars, historyVars, startStep
  <2>2. sending' = sending \/ \E q, c : c # "start" /\ Send(q, c)
    BY <1>17 DEF ConfirmPayment, tableVars, botVars, requestVars, txVars, historyVars, startStep
  <2>3. \A r \in Requests : sending'[<<r, "start">>] = sending[<<r, "start">>]
    BY <2>2, OtherSend
  <2>4. \A r \in Requests : sending[<<r, "start">>] \in Nat
    BY DEF TypeOK, TicketTypes, Causes
  <2>5. QED
    BY <1>0, <2>1, <2>3, <2>4, DeliveredKeeps
<1>18. ASSUME NEW o \in Requests, RejectPayment(o)
      PROVE  DeliveredFacts' /\ WaitingTicketsOnce'
  <2>1. tickets' = tickets /\ sending' = sending
    BY <1>18 DEF RejectPayment, tableVars, botVars, requestVars, txVars, historyVars, startStep
  <2>2. \A q \in Requests : sending[<<q, "start">>] \in Nat
    BY DEF TypeOK, TicketTypes, Causes
  <2>3. QED
    BY <1>0, <2>1, <2>2, DeliveredKeeps
<1>19. ASSUME NEW o \in Requests, CancelRegistration(o)
      PROVE  DeliveredFacts' /\ WaitingTicketsOnce'
  <2>1. tickets' = tickets /\ sending' = sending
    BY <1>19 DEF CancelRegistration, tableVars, botVars, requestVars, txVars, historyVars, startStep
  <2>2. \A q \in Requests : sending[<<q, "start">>] \in Nat
    BY DEF TypeOK, TicketTypes, Causes
  <2>3. QED
    BY <1>0, <2>1, <2>2, DeliveredKeeps
<1>20. ASSUME NEW r \in Requests, NEW why \in Causes, SendTicketToUser(r, why)
      PROVE  DeliveredFacts' /\ WaitingTicketsOnce'
  <2> DEFINE n(q) == Cardinality(StartsIn(tickets[q]))
  <2>1. /\ rows' = rows /\ linked' = linked /\ pc' = pc /\ sending[<<r, why>>] > 0
        /\ sending' = [sending EXCEPT ![<<r, why>>] = @ - 1]
        /\ tickets' = [tickets EXCEPT ![r] = Append(@, why)]
    BY <1>20 DEF SendTicketToUser, tableVars, botVars, requestVars, txVars, historyVars, startStep
  <2>2. ASSUME NEW q \in Requests PROVE Delivered(q)' = Delivered(q)
    <3>1. sending[<<q, "start">>] \in Nat /\ n(q) \in Nat
      BY StartsFinite DEF TypeOK, TicketTypes, Causes
    <3>2. tickets[q] \in Seq(Causes)
      BY DEF TypeOK, TicketTypes
    <3>3. CASE q # r
      <4>1. sending'[<<q, "start">>] = sending[<<q, "start">>] /\ tickets'[q] = tickets[q]
        BY <2>1, <3>3 DEF TypeOK, TicketTypes, Causes
      <4>2. QED
        BY <4>1 DEF Delivered, StartsIn
    <3>4. CASE q = r /\ why # "start"
      <4>1. sending'[<<q, "start">>] = sending[<<q, "start">>]
        BY <2>1, <3>4 DEF TypeOK, TicketTypes, Causes
      <4>2. tickets'[q] = Append(tickets[q], why)
        BY <2>1, <3>4 DEF TypeOK, TicketTypes
      <4>3. StartsIn(tickets'[q]) = StartsIn(tickets[q])
        BY <3>2, <3>4, <4>2 DEF StartsIn
      <4>4. Cardinality(StartsIn(tickets'[q])) = n(q)
        BY <4>3
      <4>5. QED
        BY <4>1, <4>4 DEF Delivered, StartsIn
    <3>5. CASE q = r /\ why = "start"
      <4>1. sending'[<<q, "start">>] = sending[<<q, "start">>] - 1
        BY <2>1, <3>5 DEF TypeOK, TicketTypes, Causes
      <4>2. tickets'[q] = Append(tickets[q], "start")
        BY <2>1, <3>5 DEF TypeOK, TicketTypes
      <4> DEFINE next == Len(tickets[q]) + 1
      <4>3. StartsIn(tickets'[q]) = StartsIn(tickets[q]) \cup {next} /\ next \notin StartsIn(tickets[q])
        BY <3>2, <4>2 DEF StartsIn
      <4>4. IsFiniteSet(StartsIn(tickets[q]))
        BY StartsFinite
      <4> HIDE DEF next
      <4>5. Cardinality(StartsIn(tickets[q]) \cup {next}) = n(q) + 1
        BY <4>3, <4>4, FS_AddElement
      <4>6. Cardinality(StartsIn(tickets'[q])) = n(q) + 1
        BY <4>3, <4>5
      <4> HIDE DEF n
      <4>7. Delivered(q) = n(q) + sending[<<q, "start">>]
        BY DEF Delivered, n
      <4>8. Delivered(q)' = Cardinality(StartsIn(tickets'[q])) + sending'[<<q, "start">>]
        BY DEF Delivered, StartsIn
      <4>9. QED
        BY <3>1, <4>1, <4>6, <4>7, <4>8
    <3>6. QED
      BY <3>3, <3>4, <3>5
  <2>3. QED
    BY <2>1, <2>2 DEF DeliveredFacts, WaitingTicketsOnce
<1>21. ASSUME NEW r \in Requests, NEW why \in Causes, SendFails(r, why)
      PROVE  DeliveredFacts' /\ WaitingTicketsOnce'
  <2>1. /\ tickets' = tickets /\ sending[<<r, why>>] > 0
        /\ sending' = [sending EXCEPT ![<<r, why>>] = @ - 1]
    BY <1>21 DEF SendFails, tableVars, botVars, requestVars, txVars, historyVars, startStep
  <2>2. ASSUME NEW q \in Requests
        PROVE  /\ sending'[<<q, "start">>] \in Nat
               /\ sending'[<<q, "start">>] <= sending[<<q, "start">>]
    <3>1. sending[<<q, "start">>] \in Nat /\ <<q, "start">> \in Requests \X Causes
      BY DEF TypeOK, TicketTypes, Causes
    <3>2. CASE <<q, "start">> = <<r, why>>
      <4>1. sending'[<<q, "start">>] = sending[<<q, "start">>] - 1 /\ sending[<<q, "start">>] > 0
        BY <2>1, <3>1, <3>2 DEF TypeOK, TicketTypes
      <4>2. QED
        BY <3>1, <4>1
    <3>3. CASE <<q, "start">> # <<r, why>>
      <4>1. sending'[<<q, "start">>] = sending[<<q, "start">>]
        BY <2>1, <3>1, <3>3 DEF TypeOK, TicketTypes
      <4>2. QED
        BY <3>1, <4>1
    <3>4. QED
      BY <3>2, <3>3
  <2>3. QED
    BY <1>0, <2>1, <2>2, DeliveredKeeps
<1>22. CASE Crash
  <2>1. tickets' = tickets /\ sending' = [c \in Requests \X Causes |-> 0]
    BY <1>22 DEF Crash, tableVars, botVars, requestVars, txVars, historyVars, startStep
  <2>2. ASSUME NEW q \in Requests
        PROVE  /\ sending'[<<q, "start">>] \in Nat
               /\ sending'[<<q, "start">>] <= sending[<<q, "start">>]
    <3>1. sending[<<q, "start">>] \in Nat /\ <<q, "start">> \in Requests \X Causes
      BY DEF TypeOK, TicketTypes, Causes
    <3>2. sending'[<<q, "start">>] = 0
      BY <2>1, <3>1, Zenon
    <3>3. QED
      BY <3>1, <3>2
  <2>3. QED
    BY <1>0, <2>1, <2>2, DeliveredKeeps
<1>23. CASE UNCHANGED vars
  <2>1. tickets' = tickets /\ sending' = sending
    BY <1>23 DEF vars, tableVars, botVars, requestVars, txVars, historyVars, startStep
  <2>2. \A q \in Requests : sending[<<q, "start">>] \in Nat
    BY DEF TypeOK, TicketTypes, Causes
  <2>3. QED
    BY <1>0, <2>1, <2>2, DeliveredKeeps
<1>24. ASSUME NEW w \in Writer, WriteFails(w)
      PROVE  DeliveredFacts' /\ WaitingTicketsOnce'
  <2>1. tickets' = tickets /\ sending' = sending
    BY <1>24 DEF WriteFails, tableVars, botVars, requestVars, txVars, historyVars, startStep
  <2>2. \A q \in Requests : sending[<<q, "start">>] \in Nat
    BY DEF TypeOK, TicketTypes, Causes
  <2>3. QED
    BY <1>0, <2>1, <2>2, DeliveredKeeps
<1>25. ASSUME NEW s \in Starts, UpsertFails(s)
      PROVE  DeliveredFacts' /\ WaitingTicketsOnce'
  <2>1. tickets' = tickets /\ sending' = sending
    BY <1>25 DEF UpsertFails, tableVars, botVars, requestVars, txVars, historyVars, startStep
  <2>2. \A q \in Requests : sending[<<q, "start">>] \in Nat
    BY DEF TypeOK, TicketTypes, Causes
  <2>3. QED
    BY <1>0, <2>1, <2>2, DeliveredKeeps
<1>26. ASSUME NEW s \in Starts, DeliveryFails(s)
      PROVE  DeliveredFacts' /\ WaitingTicketsOnce'
  <2>1. tickets' = tickets /\ sending' = sending
    BY <1>26 DEF DeliveryFails, tableVars, botVars, requestVars, txVars, historyVars, startStep
  <2>2. \A q \in Requests : sending[<<q, "start">>] \in Nat
    BY DEF TypeOK, TicketTypes, Causes
  <2>3. QED
    BY <1>0, <2>1, <2>2, DeliveredKeeps
<1>27. ASSUME NEW s \in Starts, ConfirmFails(s)
      PROVE  DeliveredFacts' /\ WaitingTicketsOnce'
  <2>1. tickets' = tickets /\ sending' = sending
    BY <1>27 DEF ConfirmFails, tableVars, botVars, requestVars, txVars, historyVars, startStep
  <2>2. \A q \in Requests : sending[<<q, "start">>] \in Nat
    BY DEF TypeOK, TicketTypes, Causes
  <2>3. QED
    BY <1>0, <2>1, <2>2, DeliveredKeeps
<1>. QED
  BY <1>1, <1>2, <1>3, <1>4, <1>5, <1>6, <1>7, <1>8, <1>9, <1>10, <1>11, <1>12, <1>13, <1>14, <1>15,
     <1>16, <1>17, <1>18, <1>19, <1>20, <1>21, <1>22, <1>23, <1>24, <1>25, <1>26, <1>27
  DEF Next, HandleStart, Writer

(***************************************************************************)
(* The theorems                                                            *)
(***************************************************************************)
\* The empty event: nobody is in a transaction, and there is nothing to confirm.
LEMMA InitFacts == Init => LockFacts /\ TicketFacts /\ TokenFacts /\ WaitingFacts
<1> SUFFICES ASSUME Init PROVE LockFacts /\ TicketFacts /\ TokenFacts /\ WaitingFacts
  OBVIOUS
<1>1. rows = {} /\ \A w \in Writer : tx[w] = "out"
  BY DEF Init, Writer
<1>2. LockFacts
  BY <1>1 DEF LockFacts, LockHeldOnce, DecisionHolds, OneRowPerPerson, Writer
<1>3. \A s \in Starts : start[s].todo = {} /\ start[s].created = FALSE /\ start[s].pc = "unsent"
  BY DEF Init, NewStart
<1>4. \A r \in Requests : tickets[r] = <<>> /\ token[r] = "none"
  BY DEF Init
<1>5. \A r \in Requests, why \in Causes : sending[<<r, why>>] = 0
  <2>1. sending = [c \in Requests \X Causes |-> 0]
    BY DEF Init
  <2>2. ASSUME NEW r \in Requests, NEW why \in Causes PROVE sending[<<r, why>>] = 0
    <3>1. <<r, why>> \in Requests \X Causes
      OBVIOUS
    <3>2. QED
      BY <2>1, <3>1, Zenon
  <2>3. QED
    BY <2>2
<1>6. TicketFacts
  BY <1>1, <1>3, <1>4, <1>5
     DEF TicketFacts, RowsConfirmed, SendingConfirmed, StartConfirmed, TicketsConfirmed
<1>7. TokenFacts
  BY <1>1, <1>3, <1>4
     DEF TokenFacts, RowsRegistered, TxRegistered, StartRegistered, CompletedMeansRegistered, Writer
<1>8. FormsOfSite /\ AddedOnce /\ OwedFacts
  BY <1>1, <1>4 DEF Init, NewStart, FormsOfSite, AddedOnce, OwedFacts, Writer
<1>9. \A r \in Requests : Delivered(r) = 0
  <2>1. StartsIn(<<>>) = {}
    BY DEF StartsIn
  <2>2. \A r \in Requests : Cardinality(StartsIn(tickets[r])) = 0
    BY <1>4, <2>1, FS_EmptySet
  <2>3. ASSUME NEW r \in Requests PROVE Delivered(r) = 0
    <3>1. sending[<<r, "start">>] = 0
      BY <1>5 DEF Causes
    <3>2. QED
      BY <2>2, <3>1 DEF Delivered
  <2>4. QED
    BY <2>3
<1>10. WaitingFacts
  BY <1>8, <1>9 DEF WaitingFacts, DeliveredFacts, WaitingTicketsOnce
<1>11. QED
  BY <1>2, <1>6, <1>7, <1>10

\* The inductive invariant of the model.
THEOREM RegistrationInvariant == Spec => []IInv
<1>1. Init => IInv
  BY InitTypes, InitFacts DEF IInv, LockFacts
<1>2. IInv /\ [Next]_vars => IInv'
  <2> SUFFICES ASSUME IInv, [Next]_vars PROVE IInv'
    OBVIOUS
  <2>1. TypeOK /\ WriterFacts /\ LockFacts /\ TicketFacts /\ TokenFacts /\ WaitingFacts
    BY DEF IInv, LockFacts
  <2>2. TypeOK' /\ WriterFacts'
    BY <2>1, TypeStep
  <2>3. LockFacts'
    BY <2>1, LockStep
  <2>4. TicketFacts' /\ TokenFacts'
    BY <2>1, TicketStep, TokenStep
  <2>5. WaitingFacts'
    BY <2>1, AddedStep, OwedStep, DeliveredStep DEF WaitingFacts, TicketFacts
  <2>6. QED
    BY <2>2, <2>3, <2>4, <2>5 DEF IInv, LockFacts
<1>3. QED
  BY <1>1, <1>2, PTL DEF Spec

\* The rows, forms, transactions, sends and /starts are of the kinds the tables and handlers
\* give them, whatever the people, requests and capacity.
THEOREM RegistrationTypes == Spec => []TypeOK
<1>1. IInv => TypeOK
  BY DEF IInv
<1>2. QED
  BY <1>1, RegistrationInvariant, PTL

\* One registration a person, though no unique index says so: the event row's lock does.
THEOREM OneRegistration == Spec => []OneRowPerPerson
<1>1. IInv => OneRowPerPerson
  BY DEF IInv
<1>2. QED
  BY <1>1, RegistrationInvariant, PTL

\* A ticket, which says the payment is confirmed, is sent only for a registration whose payment
\* somebody confirmed or that needs no confirmation.
THEOREM TicketsAreConfirmed == Spec => []TicketsConfirmed
<1>1. IInv => TicketsConfirmed
  BY DEF IInv, TicketFacts
<1>2. QED
  BY <1>1, RegistrationInvariant, PTL

\* A form the site shows as registered is of a person who has been registered.
THEOREM FormsAreRegistered == Spec => []CompletedMeansRegistered
<1>1. IInv => CompletedMeansRegistered
  BY DEF IInv, TokenFacts
<1>2. QED
  BY <1>1, RegistrationInvariant, PTL

\* Claimed first, then sent: whatever /starts, crashes and redeliveries come together, a waiting
\* registration gets one ticket from them.
THEOREM DeliveredOnce == Spec => []WaitingTicketsOnce
<1>1. IInv => WaitingTicketsOnce
  BY DEF IInv, WaitingFacts
<1>2. QED
  BY <1>1, RegistrationInvariant, PTL

\* A /start that ran to its end has linked whatever waited for the person when it came, unless a
\* database error, which the handler catches, ended its delivery.
THEOREM StartsClaim == Spec => []StartsClaimWaiting
<1>1. IInv => StartsClaimWaiting
  BY DEF IInv, WaitingFacts, OwedFacts, StartsClaimWaiting
<1>2. QED
  BY <1>1, RegistrationInvariant, PTL

\* A step adds at most the row of the transaction that decided to create it.
LEMMA AddedRow ==
    ASSUME [Next]_vars, NEW r \in rows' \ rows
    PROVE  \E w \in Writer : tx[w] = "create" /\ r = RowOf(w) /\ rows' = rows \cup {r}
<1>1. ASSUME NEW w \in Writer, Create(w)
      PROVE  tx[w] = "create" /\ r = RowOf(w) /\ rows' = rows \cup {r}
  BY <1>1 DEF Create
<1>2. CASE \A w \in Writer : ~ Create(w)
  <2>1. rows' \subseteq rows
    BY <1>2 DEF Next, vars, Register, LookUp, Expire, PassDeadline, OpenTransaction, LockEvent,
       Decide, RollBack, Begin, HandleStart, UpsertBotUser, FindWaiting, Claim, ReadToken,
       Complete, Reply, ConfirmPayment, RejectPayment, CancelRegistration, SendTicketToUser,
       SendFails, Crash, WriteFails, UpsertFails, DeliveryFails, ConfirmFails, Writer, tableVars
  <2>2. QED
    BY <2>1
<1>3. QED
  BY <1>1, <1>2

\* No request but an organizer's adds a registration beyond the places of the event.
THEOREM LimitsKept == Spec => WithinLimits
<1>1. ASSUME IInv, [Next]_vars, NEW r \in rows' \ rows
      PROVE  IgnoresLimits(r) \/ Cardinality(rows') <= Capacity
  <2>1. PICK w \in Writer : tx[w] = "create" /\ r = RowOf(w) /\ rows' = rows \cup {r}
    BY <1>1, AddedRow
  <2>2. IgnoresLimits(r) \/ Cardinality(rows) < Capacity
    BY <1>1, <2>1 DEF IInv, DecisionHolds, Writer
  <2>3. IsFiniteSet(rows) /\ Cardinality(rows) \in Nat
    BY <1>1, RowsAreFinite DEF IInv
  <2>4. Cardinality(rows') = Cardinality(rows) + 1
    BY <1>1, <2>1, <2>3, FS_AddElement
  <2>5. QED
    BY <2>2, <2>3, <2>4, RegistrationConstants
<1>2. IInv /\ [Next]_vars
        => [\A r \in rows' \ rows : IgnoresLimits(r) \/ Cardinality(rows') <= Capacity]_vars
  BY <1>1
<1>3. QED
  BY <1>2, RegistrationInvariant, PTL DEF Spec, WithinLimits
=============================================================================

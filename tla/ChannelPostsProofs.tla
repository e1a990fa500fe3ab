------------------------- MODULE ChannelPostsProofs -------------------------
(***************************************************************************)
(* Proofs about the posts for the channel (ChannelPosts), for any finite   *)
(* set of posts and any bounds on edits and failures.                      *)
(***************************************************************************)
EXTENDS ChannelPosts, FiniteSetTheorems, SequenceTheorems, TLAPS


\* A hand is busy with a post, as Busy says of one.
BusyWith(r, p) == r.post = p /\ r.pc \in {"load", "send", "fail"}

\* There are three hands, so those busy with a post can be counted.
LEMMA BusyCounted ==
  ASSUME NEW p \in Posts
  PROVE  IsFiniteSet(Busy(p)) /\ Cardinality(Busy(p)) \in Nat
<1>1. IsFiniteSet(Hands)
  <2>1. Hands = (({} \cup {"tick"}) \cup {"panel"}) \cup {"chat"}
    BY DEF Hands
  <2>2. QED
    BY <2>1, FS_EmptySet, FS_AddElement
<1>2. Busy(p) \in SUBSET Hands
  BY DEF Busy
<1>3. QED
  BY <1>1, <1>2, FS_Subset, FS_CardinalityType

\* What one hand's step does to the number of those busy with a post.
LEMMA BusyStep ==
  ASSUME TypeOK, NEW h \in Hands, NEW r \in HandStates, Go(h, r), NEW p \in Posts
  PROVE  /\ Cardinality(Busy(p)) \in Nat /\ Cardinality(Busy(p)') \in Nat
         /\ BusyWith(r, p) /\ ~ BusyWith(hand[h], p) =>
              Cardinality(Busy(p)') = Cardinality(Busy(p)) + 1
         /\ ~ BusyWith(r, p) /\ BusyWith(hand[h], p) =>
              Cardinality(Busy(p)') = Cardinality(Busy(p)) - 1
         /\ (BusyWith(r, p) <=> BusyWith(hand[h], p)) => Busy(p)' = Busy(p)
<1>1. hand' = [hand EXCEPT ![h] = r]
  BY DEF Go
<1>2. hand'[h] = r /\ \A g \in Hands \ {h} : hand'[g] = hand[g]
  BY <1>1 DEF TypeOK
<1>3. IsFiniteSet(Busy(p)) /\ Cardinality(Busy(p)) \in Nat
  BY BusyCounted
<1>4. CASE BusyWith(r, p) /\ ~ BusyWith(hand[h], p)
  <2>1. Busy(p)' = Busy(p) \cup {h} /\ h \notin Busy(p)
    BY <1>2, <1>4 DEF Busy, BusyWith
  <2>2. Cardinality(Busy(p) \cup {h}) = Cardinality(Busy(p)) + 1 /\ IsFiniteSet(Busy(p) \cup {h})
    BY <1>3, <2>1, FS_AddElement
  <2>3. QED
    BY <1>3, <1>4, <2>1, <2>2
<1>5. CASE ~ BusyWith(r, p) /\ BusyWith(hand[h], p)
  <2>1. Busy(p)' = Busy(p) \ {h} /\ h \in Busy(p)
    BY <1>2, <1>5 DEF Busy, BusyWith
  <2>2. Cardinality(Busy(p) \ {h}) = Cardinality(Busy(p)) - 1 /\ IsFiniteSet(Busy(p) \ {h})
    BY <1>3, <2>1, FS_RemoveElement
  <2>3. QED
    BY <1>3, <1>5, <2>1, <2>2, FS_CardinalityType
<1>6. CASE BusyWith(r, p) <=> BusyWith(hand[h], p)
  <2>1. Busy(p)' = Busy(p)
    BY <1>2, <1>6 DEF Busy, BusyWith
  <2>2. QED
    BY <1>3, <1>6, <2>1
<1>7. QED
  BY <1>4, <1>5, <1>6

\* The copies of a post can be counted.
LEMMA CopiesCounted ==
  ASSUME TypeOK, NEW p \in Posts
  PROVE  /\ IsFiniteSet({i \in DOMAIN channel : channel[i].post = p})
         /\ Copies(p) \in Nat
<1>1. DOMAIN channel = 1 .. Len(channel) /\ Len(channel) \in Nat
  BY DEF TypeOK
<1>2. IsFiniteSet(DOMAIN channel)
  BY <1>1, FS_Interval
<1>3. {i \in DOMAIN channel : channel[i].post = p} \in SUBSET DOMAIN channel
  OBVIOUS
<1>4. QED
  BY <1>2, <1>3, FS_Subset, FS_CardinalityType DEF Copies

\* A message sent is one more copy of its post, and of no other.
LEMMA CopiesStep ==
  ASSUME TypeOK, NEW q \in Posts, NEW x \in 0 .. MaxEdits,
         channel' = Append(channel, [post |-> q, text |-> x]), NEW p \in Posts
  PROVE  Copies(p) \in Nat /\ Copies(p)' = IF p = q THEN Copies(p) + 1 ELSE Copies(p)
<1> DEFINE n == Len(channel) + 1
           I == {i \in DOMAIN channel : channel[i].post = p}
           J == {i \in DOMAIN channel' : channel'[i].post = p}
<1>1. /\ DOMAIN channel = 1 .. Len(channel) /\ Len(channel) \in Nat
      /\ DOMAIN channel' = 1 .. n
      /\ \A i \in 1 .. Len(channel) : channel'[i] = channel[i]
      /\ channel'[n] = [post |-> q, text |-> x]
  BY DEF TypeOK
<1>2. IsFiniteSet(I) /\ n \notin I
  BY <1>1, CopiesCounted
<1>3. CASE p = q
  <2>1. J = I \cup {n}
    BY <1>1, <1>3
  <2>2. Cardinality(J) = Cardinality(I) + 1
    BY <1>2, <2>1, FS_AddElement
  <2>3. QED
    BY <1>3, <2>2, CopiesCounted DEF Copies
<1>4. CASE p # q
  <2>1. J = I
    BY <1>1, <1>4
  <2>2. QED
    BY <1>4, <2>1, CopiesCounted DEF Copies
<1>5. QED
  BY <1>3, <1>4

\* An edit of a message is no copy.
LEMMA EditIsNoCopy ==
  ASSUME TypeOK, NEW m \in 1 .. Len(channel), NEW x \in 0 .. MaxEdits,
         channel' = [channel EXCEPT ![m].text = x]
  PROVE  /\ channel' \in Seq(Messages) /\ Len(channel') = Len(channel)
         /\ \A q \in Posts : Copies(q)' = Copies(q)
<1>1. channel \in Seq(Messages) /\ Len(channel) \in Nat /\ DOMAIN channel = 1 .. Len(channel)
  BY DEF TypeOK
<1>2. channel[m] \in Messages
  BY <1>1, ElementOfSeq
<1>3. PICK y \in Messages : y = [channel[m] EXCEPT !.text = x] /\ y.post = channel[m].post
  BY <1>2 DEF Messages
<1>4. channel' = [channel EXCEPT ![m] = y]
  BY <1>3
<1>5. /\ channel' \in Seq(Messages) /\ Len(channel') = Len(channel)
      /\ \A i \in 1 .. Len(channel) : channel'[i] = IF i = m THEN y ELSE channel[i]
  BY <1>1, <1>4, ExceptSeq
<1>6. DOMAIN channel' = 1 .. Len(channel)
  BY <1>5
<1>7. ASSUME NEW q \in Posts
      PROVE  Copies(q)' = Copies(q)
  <2>1. {i \in DOMAIN channel' : channel'[i].post = q} = {i \in DOMAIN channel : channel[i].post = q}
    BY <1>1, <1>3, <1>5, <1>6
  <2>2. QED
    BY <2>1 DEF Copies
<1>8. QED
  BY <1>5, <1>7

\* What a bound counts goes up by one; no step takes a lost answer or a restart back.
LEMMA Spent ==
  ASSUME TypeOK
  PROVE  /\ Spend("edits", MaxEdits) =>
              /\ spent' \in Counters /\ spent'.lost = spent.lost /\ spent'.crashes = spent.crashes
              /\ spent.edits + 1 \in 0 .. MaxEdits
         /\ Spend("refusals", MaxRefusals) =>
              spent' \in Counters /\ spent'.lost = spent.lost /\ spent'.crashes = spent.crashes
         /\ Spend("lost", MaxLost) =>
              spent' \in Counters /\ spent'.lost = spent.lost + 1 /\ spent'.crashes = spent.crashes
         /\ Spend("crashes", MaxCrashes) =>
              spent' \in Counters /\ spent'.lost = spent.lost /\ spent'.crashes = spent.crashes + 1
<1>1. spent \in Counters
  BY DEF TypeOK
<1>2. MaxEdits \in Nat /\ MaxRefusals \in Nat /\ MaxLost \in Nat /\ MaxCrashes \in Nat
  BY ChannelConstants
<1>3. ASSUME Spend("edits", MaxEdits)
      PROVE  /\ spent' \in Counters /\ spent'.lost = spent.lost /\ spent'.crashes = spent.crashes
             /\ spent.edits + 1 \in 0 .. MaxEdits
  BY <1>1, <1>2, <1>3 DEF Spend, Counters
<1>4. ASSUME Spend("refusals", MaxRefusals)
      PROVE  spent' \in Counters /\ spent'.lost = spent.lost /\ spent'.crashes = spent.crashes
  BY <1>1, <1>2, <1>4 DEF Spend, Counters
<1>5. ASSUME Spend("lost", MaxLost)
      PROVE  spent' \in Counters /\ spent'.lost = spent.lost + 1 /\ spent'.crashes = spent.crashes
  BY <1>1, <1>2, <1>5 DEF Spend, Counters
<1>6. ASSUME Spend("crashes", MaxCrashes)
      PROVE  spent' \in Counters /\ spent'.lost = spent.lost /\ spent'.crashes = spent.crashes + 1
  BY <1>1, <1>2, <1>6 DEF Spend, Counters
<1>7. QED
  BY <1>3, <1>4, <1>5, <1>6

\* The fields of a hand.
LEMMA HandFields ==
  ASSUME TypeOK, NEW h \in Hands
  PROVE  /\ hand[h] \in HandStates /\ hand[h].drops \in BOOLEAN
         /\ hand[h].text \in 0 .. MaxEdits /\ hand[h].read \in Rows
         /\ hand[h].pc # "rest" => hand[h].post \in Posts
         /\ hand[h].pc = "editChannel" => hand[h].read.msg \in 1 .. Len(channel)
         /\ hand[h].pc = "store" => hand[h].msg \in 1 .. Len(channel)
BY DEF TypeOK, HandStates

\* What the variables are, taken one by one.
LEMMA Typed ==
  ASSUME TypeOK
  PROVE  /\ \A q \in Posts : row[q] \in Rows /\ (row[q].msg # None => row[q].msg \in 1 .. Len(channel))
         /\ row = [q \in Posts |-> row[q]] /\ hand = [g \in Hands |-> hand[g]]
         /\ channel \in Seq(Messages) /\ Len(channel) \in Nat
         /\ todo \subseteq Posts /\ removed \subseteq Posts /\ revived \in Nat
         /\ spent \in Counters /\ spent.lost \in Nat /\ spent.crashes \in Nat
<1>1. MaxLost \in Nat /\ MaxCrashes \in Nat
  BY ChannelConstants
<1>2. spent.lost \in Nat /\ spent.crashes \in Nat
  BY <1>1 DEF TypeOK, Counters
<1>3. QED
  BY <1>2 DEF TypeOK

\* The write of one row.
LEMMA RowStep ==
  ASSUME TypeOK, NEW p \in Posts, NEW r \in Rows, row' = [row EXCEPT ![p] = r]
  PROVE  row' \in [Posts -> Rows] /\ row'[p] = r /\ \A q \in Posts \ {p} : row'[q] = row[q]
BY DEF TypeOK

\* A hand that rests.
LEMMA RestingState == Resting \in HandStates /\ Resting.pc = "rest"
<1>1. 0 \in 0 .. MaxEdits /\ FALSE \in BOOLEAN
  BY ChannelConstants
<1>2. NoRow \in Rows
  BY <1>1 DEF NoRow, Rows, Statuses
<1>3. QED
  BY <1>1, <1>2 DEF Resting, HandStates

\* A hand that begins to publish.
LEMMA PublishingState ==
  ASSUME NEW p \in Posts, NEW d \in BOOLEAN
  PROVE  LET r == [Resting EXCEPT !.pc = "claim", !.post = p, !.drops = d]
         IN  r \in HandStates /\ r.pc = "claim" /\ r.post = p
<1>1. [[[Resting EXCEPT !.pc = "claim"] EXCEPT !.post = p] EXCEPT !.drops = d] \in HandStates
  BY RestingState DEF HandStates
<1>2. [[[Resting EXCEPT !.pc = "claim"] EXCEPT !.post = p] EXCEPT !.drops = d]
        = [Resting EXCEPT !.pc = "claim", !.post = p, !.drops = d]
  BY DEF Resting
<1>3. QED
  BY <1>1, <1>2 DEF Resting

\* A step in which hand h becomes r and the row of p becomes x, and the types allow it.
Fits(h, p, r, x) ==
  /\ Go(h, r) /\ row' = [row EXCEPT ![p] = x]
  /\ channel' \in Seq(Messages) /\ Len(channel') \in Nat /\ Len(channel') >= Len(channel)
  /\ x.msg # None => x.msg \in 1 .. Len(channel')
  /\ r.pc # "rest" => r.post \in Posts
  /\ r.pc = "editChannel" => r.read.msg \in 1 .. Len(channel')
  /\ r.pc = "store" => r.msg \in 1 .. Len(channel')
  /\ todo' \subseteq Posts /\ removed' \subseteq Posts /\ revived' \in Nat /\ spent' \in Counters

\* In such a step a claimed post stays in somebody's hands: the hand that has one keeps it, or its
\* row says more, or something else, than that it is claimed.
Holds(h, p, r, x) ==
  /\ spent'.crashes = spent.crashes
  /\ x.status = "PUBLISHED" /\ x.msg = None =>
       \/ row[p].status = "PUBLISHED" /\ row[p].msg = None
       \/ r.post = p /\ r.pc = "load"
  /\ hand[h].pc \in {"load", "send", "store", "fail"} =>
       \/ r.post = hand[h].post /\ r.pc \in {"load", "send", "store", "fail"}
       \/ hand[h].post = p /\ ~ (x.status = "PUBLISHED" /\ x.msg = None)

\* In such a step nothing is sent, a hand gets busy only by a claim, and a claim is given back
\* only by the hand that is busy with it, or by a write that is counted.
Counts(h, p, r, x) ==
  /\ \A q \in Posts : Copies(q)' = Copies(q)
  /\ spent'.lost = spent.lost /\ revived' >= revived
  /\ r.pc \in {"load", "send", "fail"} =>
       \/ r.post = hand[h].post /\ hand[h].pc \in {"load", "send", "fail"}
       \/ r.post = p /\ row[p].status \notin {"PUBLISHED", "deleted"} /\ x.status = "PUBLISHED"
  /\ row[p].status \in {"PUBLISHED", "deleted"} /\ x.status \notin {"PUBLISHED", "deleted"} =>
       \/ revived' > revived
       \/ BusyWith(hand[h], p) /\ ~ BusyWith(r, p)

\* What is gone stays gone, and nothing else is taken off the queue.
Apart(p, x) == removed' = removed /\ (row[p].status = "deleted" => x.status = "deleted")

\* What such a step leaves of the types.
LEMMA TypeKept ==
  ASSUME TypeOK, NEW h \in Hands, NEW p \in Posts, NEW r \in HandStates, NEW x \in Rows,
         Fits(h, p, r, x)
  PROVE  TypeOK'
<1>1. row' \in [Posts -> Rows] /\ row'[p] = x /\ \A q \in Posts \ {p} : row'[q] = row[q]
  BY RowStep DEF Fits
<1>2. hand' \in [Hands -> HandStates] /\ hand'[h] = r /\ \A g \in Hands \ {h} : hand'[g] = hand[g]
  BY DEF Fits, Go, TypeOK
<1>3. \A n : n \in 1 .. Len(channel) => n \in 1 .. Len(channel')
  BY DEF TypeOK, Fits
<1>4. \A q \in Posts : row'[q].msg # None => row'[q].msg \in 1 .. Len(channel')
  BY <1>1, <1>3, Typed DEF Fits
<1>5. \A g \in Hands :
        /\ hand'[g].pc # "rest" => hand'[g].post \in Posts
        /\ hand'[g].pc = "editChannel" => hand'[g].read.msg \in 1 .. Len(channel')
        /\ hand'[g].pc = "store" => hand'[g].msg \in 1 .. Len(channel')
  BY <1>2, <1>3, HandFields DEF Fits
<1>6. QED
  BY <1>1, <1>2, <1>4, <1>5 DEF TypeOK, Fits

\* A claimed post stays in somebody's hands.
LEMMA SentKept ==
  ASSUME TypeOK, ClaimedIsSent, NEW h \in Hands, NEW p \in Posts, NEW r \in HandStates, NEW x \in Rows,
         Fits(h, p, r, x), Holds(h, p, r, x)
  PROVE  ClaimedIsSent'
<1> SUFFICES ASSUME spent.crashes = 0,
                    NEW q \in Posts, row'[q].status = "PUBLISHED", row'[q].msg = None
             PROVE  \E g \in Hands :
                      hand'[g].post = q /\ hand'[g].pc \in {"load", "send", "store", "fail"}
  BY DEF ClaimedIsSent, Holds
<1>1. row'[p] = x /\ \A o \in Posts \ {p} : row'[o] = row[o]
  BY RowStep DEF Fits
<1>2. hand'[h] = r /\ \A g \in Hands \ {h} : hand'[g] = hand[g]
  BY DEF Fits, Go, TypeOK
<1>3. CASE r.post = q /\ r.pc = "load"
  BY <1>2, <1>3
<1>4. CASE ~ (r.post = q /\ r.pc = "load")
  <2>1. row[q].status = "PUBLISHED" /\ row[q].msg = None
    BY <1>1, <1>4 DEF Holds
  <2>2. PICK g \in Hands : hand[g].post = q /\ hand[g].pc \in {"load", "send", "store", "fail"}
    BY <2>1 DEF ClaimedIsSent
  <2>3. hand'[g].post = q /\ hand'[g].pc \in {"load", "send", "store", "fail"}
    BY <1>1, <1>2, <2>2 DEF Holds
  <2>4. QED
    BY <2>3
<1>5. QED
  BY <1>3, <1>4

\* Where nothing is sent the copies still go back to claims.
LEMMA CountKept ==
  ASSUME TypeOK, CopiesClaimed, NEW h \in Hands, NEW p \in Posts, NEW r \in HandStates, NEW x \in Rows,
         Fits(h, p, r, x), Counts(h, p, r, x)
  PROVE  CopiesClaimed'
<1> SUFFICES ASSUME NEW q \in Posts
             PROVE  Copies(q)' + Cardinality(Busy(q)') <= Claimed(q)' + spent'.lost + revived'
  BY DEF CopiesClaimed
<1>1. /\ Cardinality(Busy(q)) \in Nat /\ Cardinality(Busy(q)') \in Nat
      /\ BusyWith(r, q) /\ ~ BusyWith(hand[h], q) => Cardinality(Busy(q)') = Cardinality(Busy(q)) + 1
      /\ ~ BusyWith(r, q) /\ BusyWith(hand[h], q) => Cardinality(Busy(q)') = Cardinality(Busy(q)) - 1
      /\ (BusyWith(r, q) <=> BusyWith(hand[h], q)) => Cardinality(Busy(q)') = Cardinality(Busy(q))
  BY BusyStep DEF Fits
<1>2. Copies(q)' = Copies(q) /\ Copies(q) \in Nat
  BY CopiesCounted DEF Counts
<1>3. Copies(q) + Cardinality(Busy(q)) <= Claimed(q) + spent.lost + revived
  BY DEF CopiesClaimed
<1>4. row'[p] = x /\ \A o \in Posts \ {p} : row'[o] = row[o]
  BY RowStep DEF Fits
<1>5. /\ Claimed(q)' \in {0, 1} /\ Claimed(q) \in {0, 1}
      /\ q # p => Claimed(q)' = Claimed(q)
      /\ q = p => Claimed(q)' = (IF x.status \in {"PUBLISHED", "deleted"} THEN 1 ELSE 0)
  BY <1>4 DEF Claimed
<1>6. /\ spent'.lost = spent.lost /\ spent.lost \in Nat
      /\ revived \in Nat /\ revived' \in Nat /\ revived' >= revived
  BY Typed DEF Fits, Counts
<1>7. BusyWith(r, q) /\ ~ BusyWith(hand[h], q) =>
        q = p /\ row[p].status \notin {"PUBLISHED", "deleted"} /\ x.status = "PUBLISHED"
  BY DEF Counts, BusyWith
<1>8. row[p].status \in {"PUBLISHED", "deleted"} /\ x.status \notin {"PUBLISHED", "deleted"} =>
        revived' > revived \/ (BusyWith(hand[h], p) /\ ~ BusyWith(r, p))
  BY DEF Counts, BusyWith
<1>9. CASE q = p
  BY <1>1, <1>2, <1>3, <1>5, <1>6, <1>7, <1>8, <1>9 DEF Claimed
<1>10. CASE q # p
  BY <1>1, <1>2, <1>3, <1>5, <1>6, <1>7, <1>10
<1>11. QED
  BY <1>9, <1>10

\* And what is off the queue stays off it.
LEMMA ApartKept ==
  ASSUME TypeOK, RemovedApart, NEW h \in Hands, NEW p \in Posts, NEW r \in HandStates, NEW x \in Rows,
         Fits(h, p, r, x), Counts(h, p, r, x), Apart(p, x)
  PROVE  RemovedApart'
<1>1. row'[p] = x /\ \A o \in Posts \ {p} : row'[o] = row[o]
  BY RowStep DEF Fits
<1>2. \A q \in removed : q \in Posts /\ row[q].status = "deleted" /\ row'[q].status = "deleted"
  BY <1>1, Typed DEF RemovedApart, Apart
<1>3. ASSUME spent'.lost = 0, revived' = 0, NEW q \in removed
      PROVE  Copies(q)' = 0 /\ Busy(q)' = {}
  <2>1. spent.lost = 0 /\ revived = 0
    BY <1>3, Typed DEF Counts
  <2>2. Copies(q) = 0 /\ Busy(q) = {}
    BY <2>1 DEF RemovedApart
  <2>3. ~ BusyWith(hand[h], q)
    BY <2>2 DEF Busy, BusyWith
  <2>4. ~ BusyWith(r, q)
    BY <1>2, <2>3 DEF Counts, BusyWith
  <2>5. Busy(q)' = Busy(q)
    BY <1>2, <2>3, <2>4, BusyStep DEF Fits
  <2>6. QED
    BY <1>2, <2>2, <2>5 DEF Counts
<1>4. QED
  BY <1>2, <1>3 DEF RemovedApart, Apart

\* Together: a step of one hand on one row keeps the invariant.
LEMMA HandStep ==
  ASSUME IInv, NEW h \in Hands, NEW p \in Posts, NEW r \in HandStates, NEW x \in Rows,
         Fits(h, p, r, x), Holds(h, p, r, x), Counts(h, p, r, x), Apart(p, x)
  PROVE  IInv'
BY TypeKept, SentKept, CountKept, ApartKept DEF IInv

\* A channel left alone.
LEMMA SameChannel ==
  ASSUME TypeOK, channel' = channel
  PROVE  /\ channel' \in Seq(Messages) /\ Len(channel') \in Nat /\ Len(channel') = Len(channel)
         /\ \A q \in Posts : Copies(q)' = Copies(q)
BY Typed DEF Copies

\* Every await of a call, every tick and every restart keeps the invariant.
LEMMA InvStep == IInv /\ [Next]_vars => IInv'
<1> SUFFICES ASSUME IInv, [Next]_vars PROVE IInv'
  OBVIOUS
<1>0. IInv /\ TypeOK /\ ClaimedIsSent /\ CopiesClaimed /\ RemovedApart
  BY DEF IInv
<1>1. ASSUME NEW h \in People, NEW p \in Posts, NEW status \in {"PENDING", "SCHEDULED"},
             NEW at \in {"later", "due"}, NEW now \in BOOLEAN,
             Compose(h, p, status, at, now)
      PROVE  IInv'
  <2>hand. h \in Hands
    BY DEF People, Hands
  <2>1. PICK r \in HandStates : Go(h, r) /\ (r = hand[h] \/ (r.pc = "claim" /\ r.post = p))
    <3>1. CASE now
      BY <1>1, <3>1, PublishingState DEF Compose, Publishing
    <3>2. CASE ~ now
      <4>1. hand' = [hand EXCEPT ![h] = hand[h]]
        BY <1>1, <1>0, <3>2 DEF Compose, TypeOK
      <4>2. Go(h, hand[h]) /\ hand[h] \in HandStates
        BY <1>0, <2>hand, <4>1, HandFields DEF Go
      <4>3. QED
        BY <4>2
    <3>3. QED
      BY <3>1, <3>2
  <2>2. PICK x \in Rows : row' = [row EXCEPT ![p] = x] /\ x.status = status /\ x.msg = None
    <3> DEFINE y == [[NoRow EXCEPT !.status = status] EXCEPT !.at = at]
    <3>1. y \in Rows /\ y.status = status /\ y.msg = None
      <4>1. NoRow \in Rows /\ NoRow.msg = None
        BY RestingState DEF Resting, HandStates, NoRow
      <4>2. QED
        BY <4>1 DEF Rows, Statuses
    <3>2. y = [NoRow EXCEPT !.status = status, !.at = at]
      BY DEF NoRow
    <3> HIDE DEF y
    <3>3. QED
      BY <1>1, <3>1, <3>2 DEF Compose
  <2>3. row[p].status = "none" /\ hand[h].pc = "rest"
    BY <1>1 DEF Compose, CanCall
  <2>4. /\ channel' \in Seq(Messages) /\ Len(channel') \in Nat /\ Len(channel') = Len(channel)
        /\ \A q \in Posts : Copies(q)' = Copies(q)
    BY <1>1, <1>0, SameChannel DEF Compose
  <2>5. Fits(h, p, r, x)
    <3>1. channel' \in Seq(Messages) /\ Len(channel') \in Nat /\ Len(channel') >= Len(channel)
      BY <1>0, <2>4, Typed
    <3>2. x.msg # None => x.msg \in 1 .. Len(channel')
      BY <1>0, <2>hand, <2>2, <2>3, <2>4, Typed
    <3>3. /\ r.pc # "rest" => r.post \in Posts
          /\ r.pc = "editChannel" => r.read.msg \in 1 .. Len(channel')
          /\ r.pc = "store" => r.msg \in 1 .. Len(channel')
      BY <1>0, <2>1, <2>hand, <2>2, <2>3, <2>4, Typed, HandFields
    <3>4. todo' \subseteq Posts /\ removed' \subseteq Posts /\ revived' \in Nat /\ spent' \in Counters
      BY <1>1, <1>0, <2>3, Typed DEF Compose, historyVars
    <3>5. Go(h, r) /\ row' = [row EXCEPT ![p] = x]
      BY <2>1, <2>2
    <3>6. QED
      BY <3>1, <3>2, <3>3, <3>4, <3>5 DEF Fits
  <2>6. Holds(h, p, r, x)
    BY <1>1, <2>1, <2>hand, <2>2, <2>3 DEF Compose, Holds, historyVars
  <2>7. Counts(h, p, r, x)
    BY <1>1, <1>0, <2>1, <2>hand, <2>2, <2>3, <2>4, Typed DEF Compose, Counts, BusyWith, historyVars
  <2>8. Apart(p, x)
    BY <1>1, <2>hand, <2>2, <2>3 DEF Compose, Apart, historyVars
  <2>9. QED
    BY <1>0, <2>hand, <2>5, <2>6, <2>7, <2>8, HandStep
<1>2. ASSUME NEW h \in People, NEW p \in Posts, PublishNow(h, p)
      PROVE  IInv'
  <2>hand. h \in Hands
    BY DEF People, Hands
  <2>1. PICK r \in HandStates : Go(h, r) /\ r.pc = "claim" /\ r.post = p
    BY <1>2, PublishingState DEF PublishNow, Publishing
  <2>2. PICK x \in Rows : x = row[p] /\ row' = [row EXCEPT ![p] = x]
    <3>1. row' = row /\ row[p] \in Rows
      BY <1>2, <1>0, Typed DEF PublishNow
    <3>2. row' = [row EXCEPT ![p] = row[p]]
      BY <3>1, <1>0 DEF TypeOK
    <3>3. QED
      BY <3>1, <3>2
  <2>3. hand[h].pc = "rest"
    BY <1>2 DEF PublishNow, CanCall
  <2>4. /\ channel' \in Seq(Messages) /\ Len(channel') \in Nat /\ Len(channel') = Len(channel)
        /\ \A q \in Posts : Copies(q)' = Copies(q)
    BY <1>2, <1>0, SameChannel DEF PublishNow
  <2>5. Fits(h, p, r, x)
    <3>1. channel' \in Seq(Messages) /\ Len(channel') \in Nat /\ Len(channel') >= Len(channel)
      BY <1>0, <2>4, Typed
    <3>2. x.msg # None => x.msg \in 1 .. Len(channel')
      BY <1>0, <2>hand, <2>2, <2>3, <2>4, Typed
    <3>3. /\ r.pc # "rest" => r.post \in Posts
          /\ r.pc = "editChannel" => r.read.msg \in 1 .. Len(channel')
          /\ r.pc = "store" => r.msg \in 1 .. Len(channel')
      BY <1>0, <2>1, <2>hand, <2>2, <2>3, <2>4, Typed, HandFields
    <3>4. todo' \subseteq Posts /\ removed' \subseteq Posts /\ revived' \in Nat /\ spent' \in Counters
      BY <1>2, <1>0, <2>3, Typed DEF PublishNow, historyVars
    <3>5. Go(h, r) /\ row' = [row EXCEPT ![p] = x]
      BY <2>1, <2>2
    <3>6. QED
      BY <3>1, <3>2, <3>3, <3>4, <3>5 DEF Fits
  <2>6. Holds(h, p, r, x)
    BY <1>2, <2>1, <2>hand, <2>2, <2>3 DEF PublishNow, Holds, historyVars
  <2>7. Counts(h, p, r, x)
    BY <1>2, <1>0, <2>1, <2>hand, <2>2, <2>3, <2>4, Typed DEF PublishNow, Counts, BusyWith, historyVars
  <2>8. Apart(p, x)
    BY <1>2, <2>hand, <2>2, <2>3 DEF PublishNow, Apart, historyVars
  <2>9. QED
    BY <1>0, <2>hand, <2>5, <2>6, <2>7, <2>8, HandStep
<1>3. ASSUME NEW h \in People, NEW p \in Posts, Remove(h, p)
      PROVE  IInv'
  <2>hand. h \in Hands
    BY DEF People, Hands
  <2>1. PICK r \in HandStates : r = hand[h] /\ Go(h, r)
    <3>1. hand' = [hand EXCEPT ![h] = hand[h]]
      BY <1>3, <1>0 DEF Remove, TypeOK
    <3>2. QED
      BY <1>0, <2>hand, <3>1, HandFields DEF Go
  <2>2. PICK x \in Rows : row' = [row EXCEPT ![p] = x] /\ x.status = "deleted" /\ x.msg = row[p].msg
    <3>1. row[p] \in Rows
      BY <1>0, Typed
    <3> DEFINE y == [row[p] EXCEPT !.status = "deleted"]
    <3>2. y \in Rows /\ y.status = "deleted" /\ y.msg = row[p].msg
      BY <3>1 DEF Rows, Statuses
    <3>3. row' = [row EXCEPT ![p] = y]
      BY <1>3 DEF Remove
    <3> HIDE DEF y
    <3>4. QED
      BY <3>2, <3>3
  <2>3. row[p].status \notin {"none", "deleted", "PUBLISHED"}
    BY <1>3 DEF Remove, Exists
  <2>4. /\ channel' \in Seq(Messages) /\ Len(channel') \in Nat /\ Len(channel') = Len(channel)
        /\ \A q \in Posts : Copies(q)' = Copies(q)
    BY <1>3, <1>0, SameChannel DEF Remove
  <2>5. Fits(h, p, r, x)
    <3>1. channel' \in Seq(Messages) /\ Len(channel') \in Nat /\ Len(channel') >= Len(channel)
      BY <1>0, <2>4, Typed
    <3>2. x.msg # None => x.msg \in 1 .. Len(channel')
      BY <1>0, <2>2, <2>hand, <2>3, <2>4, Typed
    <3>3. /\ r.pc # "rest" => r.post \in Posts
          /\ r.pc = "editChannel" => r.read.msg \in 1 .. Len(channel')
          /\ r.pc = "store" => r.msg \in 1 .. Len(channel')
      BY <1>0, <2>1, <2>2, <2>hand, <2>3, <2>4, Typed, HandFields
    <3>4. todo' \subseteq Posts /\ removed' \subseteq Posts /\ revived' \in Nat /\ spent' \in Counters
      BY <1>3, <1>0, <2>hand, <2>3, Typed DEF Remove
    <3>5. Go(h, r) /\ row' = [row EXCEPT ![p] = x]
      BY <2>1, <2>2
    <3>6. QED
      BY <3>1, <3>2, <3>3, <3>4, <3>5 DEF Fits
  <2>6. Holds(h, p, r, x)
    BY <1>3, <2>1, <2>2, <2>3 DEF Remove, Holds
  <2>7. Counts(h, p, r, x)
    BY <1>3, <1>0, <2>1, <2>2, <2>3, <2>4, Typed DEF Remove, Counts, BusyWith
  <2>8. RemovedApart'
    <3>1. \A q \in Posts : Copies(q)' = Copies(q) /\ Busy(q)' = Busy(q)
      BY <1>3, <2>4 DEF Remove, Busy
    <3>2. row'[p].status = "deleted" /\ \A q \in Posts \ {p} : row'[q] = row[q]
      BY <1>0, <2>2, RowStep
    <3>3. removed' = removed \cup {p} /\ spent' = spent /\ revived' = revived
      BY <1>3 DEF Remove
    <3>4. ASSUME spent.lost = 0, revived = 0
          PROVE  Copies(p) = 0 /\ Busy(p) = {}
      <4>1. Copies(p) \in Nat /\ Cardinality(Busy(p)) \in Nat /\ IsFiniteSet(Busy(p))
        BY <1>0, CopiesCounted, BusyCounted
      <4>2. Copies(p) = 0 /\ Cardinality(Busy(p)) = 0
        BY <1>0, <2>3, <3>4, <4>1 DEF CopiesClaimed, Claimed
      <4>3. QED
        BY <4>1, <4>2, FS_EmptySet
    <3>5. QED
      BY <1>0, <3>1, <3>2, <3>3, <3>4, Typed DEF RemovedApart
  <2>9. QED
    BY <1>0, <2>hand, <2>5, <2>6, <2>7, <2>8, TypeKept, SentKept, CountKept DEF IInv
<1>4. ASSUME NEW h \in People, NEW p \in Posts, NEW moves \in BOOLEAN, ReadToEdit(h, p, moves)
      PROVE  IInv'
  <2>hand. h \in Hands
    BY DEF People, Hands
  <2> DEFINE c == IF row[p].status = "PUBLISHED" THEN "editChannel" ELSE "save"
  <2>1. PICK r \in HandStates : Go(h, r) /\ r.post = p /\ r.read = row[p] /\ r.pc = c
    <3>1. /\ spent.edits + 1 \in 0 .. MaxEdits /\ row[p] \in Rows /\ FALSE \in BOOLEAN
          /\ c \in {"editChannel", "save"}
      BY <1>4, <1>0, Spent, Typed DEF ReadToEdit
    <3> DEFINE y == [[[[[Resting EXCEPT !.pc = c] EXCEPT !.post = p] EXCEPT !.read = row[p]]
                       EXCEPT !.moves = moves] EXCEPT !.text = spent.edits + 1]
    <3>2. Go(h, [Resting EXCEPT !.pc = c, !.post = p, !.read = row[p], !.moves = moves,
                                !.text = spent.edits + 1])
      BY <1>4 DEF ReadToEdit
    <3> HIDE DEF c
    <3>3. y \in HandStates /\ y.post = p /\ y.read = row[p] /\ y.pc = c
      BY <3>1, RestingState DEF HandStates
    <3>4. y = [Resting EXCEPT !.pc = c, !.post = p, !.read = row[p], !.moves = moves,
                              !.text = spent.edits + 1]
      BY DEF Resting
    <3> HIDE DEF y
    <3>5. QED
      BY <3>2, <3>3, <3>4
  <2>2. PICK x \in Rows : x = row[p] /\ row' = [row EXCEPT ![p] = x]
    <3>1. row' = row /\ row[p] \in Rows
      BY <1>4, <1>0, Typed DEF ReadToEdit
    <3>2. row' = [row EXCEPT ![p] = row[p]]
      BY <3>1, <1>0 DEF TypeOK
    <3>3. QED
      BY <3>1, <3>2
  <2>3. /\ hand[h].pc = "rest" /\ (row[p].status = "PUBLISHED" => row[p].msg # None)
        /\ spent' \in Counters /\ spent'.lost = spent.lost /\ spent'.crashes = spent.crashes
    BY <1>4, <1>0, Spent DEF ReadToEdit, CanCall
  <2>4. /\ channel' \in Seq(Messages) /\ Len(channel') \in Nat /\ Len(channel') = Len(channel)
        /\ \A q \in Posts : Copies(q)' = Copies(q)
    BY <1>4, <1>0, SameChannel DEF ReadToEdit
  <2>5. Fits(h, p, r, x)
    <3>1. channel' \in Seq(Messages) /\ Len(channel') \in Nat /\ Len(channel') >= Len(channel)
      BY <1>0, <2>4, Typed
    <3>2. x.msg # None => x.msg \in 1 .. Len(channel')
      BY <1>0, <2>hand, <2>2, <2>3, <2>4, Typed
    <3>3. /\ r.pc # "rest" => r.post \in Posts
          /\ r.pc = "editChannel" => r.read.msg \in 1 .. Len(channel')
          /\ r.pc = "store" => r.msg \in 1 .. Len(channel')
      BY <1>0, <2>1, <2>hand, <2>2, <2>3, <2>4, Typed, HandFields
    <3>4. todo' \subseteq Posts /\ removed' \subseteq Posts /\ revived' \in Nat /\ spent' \in Counters
      BY <1>4, <1>0, <2>3, Typed DEF ReadToEdit, historyVars
    <3>5. Go(h, r) /\ row' = [row EXCEPT ![p] = x]
      BY <2>1, <2>2
    <3>6. QED
      BY <3>1, <3>2, <3>3, <3>4, <3>5 DEF Fits
  <2>6. Holds(h, p, r, x)
    BY <1>4, <2>1, <2>hand, <2>2, <2>3 DEF ReadToEdit, Holds, historyVars
  <2>7. Counts(h, p, r, x)
    BY <1>4, <1>0, <2>1, <2>hand, <2>2, <2>3, <2>4, Typed DEF ReadToEdit, Counts, BusyWith, historyVars
  <2>8. Apart(p, x)
    BY <1>4, <2>hand, <2>2, <2>3 DEF ReadToEdit, Apart, historyVars
  <2>9. QED
    BY <1>0, <2>hand, <2>5, <2>6, <2>7, <2>8, HandStep
<1>5. ASSUME NEW p \in Posts, TimePasses(p)
      PROVE  IInv'
  <2>hand. PICK h \in Hands : TRUE
    BY DEF Hands
  <2>1. PICK r \in HandStates : r = hand[h] /\ Go(h, r)
    <3>1. hand' = [hand EXCEPT ![h] = hand[h]]
      BY <1>5, <1>0 DEF TimePasses, TypeOK
    <3>2. QED
      BY <1>0, <3>1, HandFields DEF Go
  <2>2. PICK x \in Rows : row' = [row EXCEPT ![p] = x] /\ x.status = row[p].status /\ x.msg = row[p].msg
    <3>1. row[p] \in Rows
      BY <1>0, Typed
    <3> DEFINE y == [row[p] EXCEPT !.at = "due"]
    <3>2. y \in Rows /\ y.status = row[p].status /\ y.msg = row[p].msg
      BY <3>1 DEF Rows
    <3>3. row' = [row EXCEPT ![p] = y]
      BY <1>5 DEF TimePasses
    <3> HIDE DEF y
    <3>4. QED
      BY <3>2, <3>3
  <2>4. /\ channel' \in Seq(Messages) /\ Len(channel') \in Nat /\ Len(channel') = Len(channel)
        /\ \A q \in Posts : Copies(q)' = Copies(q)
    BY <1>5, <1>0, SameChannel DEF TimePasses
  <2>5. Fits(h, p, r, x)
    <3>1. channel' \in Seq(Messages) /\ Len(channel') \in Nat /\ Len(channel') >= Len(channel)
      BY <1>0, <2>4, Typed
    <3>2. x.msg # None => x.msg \in 1 .. Len(channel')
      BY <1>0, <2>2, <2>4, Typed
    <3>3. /\ r.pc # "rest" => r.post \in Posts
          /\ r.pc = "editChannel" => r.read.msg \in 1 .. Len(channel')
          /\ r.pc = "store" => r.msg \in 1 .. Len(channel')
      BY <1>0, <2>1, <2>2, <2>4, Typed, HandFields
    <3>4. todo' \subseteq Posts /\ removed' \subseteq Posts /\ revived' \in Nat /\ spent' \in Counters
      BY <1>5, <1>0, Typed DEF TimePasses, historyVars
    <3>5. Go(h, r) /\ row' = [row EXCEPT ![p] = x]
      BY <2>1, <2>2
    <3>6. QED
      BY <3>1, <3>2, <3>3, <3>4, <3>5 DEF Fits
  <2>6. Holds(h, p, r, x)
    BY <1>5, <2>1, <2>2 DEF TimePasses, Holds, historyVars
  <2>7. Counts(h, p, r, x)
    BY <1>5, <1>0, <2>1, <2>2, <2>4, Typed DEF TimePasses, Counts, BusyWith, historyVars
  <2>8. Apart(p, x)
    BY <1>5, <2>2 DEF TimePasses, Apart, historyVars
  <2>9. QED
    BY <1>0, <2>5, <2>6, <2>7, <2>8, HandStep
<1>6. ASSUME NEW p \in Posts, NextDue(p)
      PROVE  IInv'
  <2>hand. PICK h \in Hands : h = "tick"
    BY DEF Hands
  <2>1. PICK r \in HandStates : Go(h, r) /\ r.pc = "claim" /\ r.post = p
    BY <1>6, <2>hand, PublishingState DEF NextDue, Publishing
  <2>2. PICK x \in Rows : x = row[p] /\ row' = [row EXCEPT ![p] = x]
    <3>1. row' = row /\ row[p] \in Rows
      BY <1>6, <1>0, Typed DEF NextDue
    <3>2. row' = [row EXCEPT ![p] = row[p]]
      BY <3>1, <1>0 DEF TypeOK
    <3>3. QED
      BY <3>1, <3>2
  <2>3. hand[h].pc = "rest"
    BY <1>6, <2>hand DEF NextDue
  <2>4. /\ channel' \in Seq(Messages) /\ Len(channel') \in Nat /\ Len(channel') = Len(channel)
        /\ \A q \in Posts : Copies(q)' = Copies(q)
    BY <1>6, <1>0, SameChannel DEF NextDue
  <2>5. Fits(h, p, r, x)
    <3>1. channel' \in Seq(Messages) /\ Len(channel') \in Nat /\ Len(channel') >= Len(channel)
      BY <1>0, <2>4, Typed
    <3>2. x.msg # None => x.msg \in 1 .. Len(channel')
      BY <1>0, <2>2, <2>3, <2>4, Typed
    <3>3. /\ r.pc # "rest" => r.post \in Posts
          /\ r.pc = "editChannel" => r.read.msg \in 1 .. Len(channel')
          /\ r.pc = "store" => r.msg \in 1 .. Len(channel')
      BY <1>0, <2>1, <2>2, <2>3, <2>4, Typed, HandFields
    <3>4. todo' \subseteq Posts /\ removed' \subseteq Posts /\ revived' \in Nat /\ spent' \in Counters
      BY <1>6, <1>0, <2>3, Typed DEF NextDue, historyVars
    <3>5. Go(h, r) /\ row' = [row EXCEPT ![p] = x]
      BY <2>1, <2>2
    <3>6. QED
      BY <3>1, <3>2, <3>3, <3>4, <3>5 DEF Fits
  <2>6. Holds(h, p, r, x)
    BY <1>6, <2>1, <2>2, <2>3 DEF NextDue, Holds, historyVars
  <2>7. Counts(h, p, r, x)
    BY <1>6, <1>0, <2>1, <2>2, <2>3, <2>4, Typed DEF NextDue, Counts, BusyWith, historyVars
  <2>8. Apart(p, x)
    BY <1>6, <2>2, <2>3 DEF NextDue, Apart, historyVars
  <2>9. QED
    BY <1>0, <2>5, <2>6, <2>7, <2>8, HandStep
<1>7. ASSUME NEW p \in Posts, ReadToApprove(p)
      PROVE  IInv'
  <2>hand. PICK h \in Hands : h = "chat"
    BY DEF Hands
  <2>1. PICK r \in HandStates : Go(h, r) /\ r.pc \in {"claim", "schedule"} /\ r.post = p
    <3>1. CASE row[p].at = "due"
      BY <1>7, <2>hand, <3>1, PublishingState DEF ReadToApprove, Publishing
    <3>2. CASE row[p].at # "due"
      <4> DEFINE y == [[Resting EXCEPT !.pc = "schedule"] EXCEPT !.post = p]
      <4>1. y \in HandStates /\ y.pc = "schedule" /\ y.post = p
        BY RestingState DEF HandStates
      <4>2. y = [Resting EXCEPT !.pc = "schedule", !.post = p]
        BY DEF Resting
      <4> HIDE DEF y
      <4>3. QED
        BY <1>7, <2>hand, <3>2, <4>1, <4>2 DEF ReadToApprove
    <3>3. QED
      BY <3>1, <3>2
  <2>2. PICK x \in Rows : x = row[p] /\ row' = [row EXCEPT ![p] = x]
    <3>1. row' = row /\ row[p] \in Rows
      BY <1>7, <1>0, Typed DEF ReadToApprove
    <3>2. row' = [row EXCEPT ![p] = row[p]]
      BY <3>1, <1>0 DEF TypeOK
    <3>3. QED
      BY <3>1, <3>2
  <2>3. hand[h].pc = "rest"
    BY <1>7, <2>hand DEF ReadToApprove, CanCall
  <2>4. /\ channel' \in Seq(Messages) /\ Len(channel') \in Nat /\ Len(channel') = Len(channel)
        /\ \A q \in Posts : Copies(q)' = Copies(q)
    BY <1>7, <1>0, SameChannel DEF ReadToApprove
  <2>5. Fits(h, p, r, x)
    <3>1. channel' \in Seq(Messages) /\ Len(channel') \in Nat /\ Len(channel') >= Len(channel)
      BY <1>0, <2>4, Typed
    <3>2. x.msg # None => x.msg \in 1 .. Len(channel')
      BY <1>0, <2>2, <2>3, <2>4, Typed
    <3>3. /\ r.pc # "rest" => r.post \in Posts
          /\ r.pc = "editChannel" => r.read.msg \in 1 .. Len(channel')
          /\ r.pc = "store" => r.msg \in 1 .. Len(channel')
      BY <1>0, <2>1, <2>2, <2>3, <2>4, Typed, HandFields
    <3>4. todo' \subseteq Posts /\ removed' \subseteq Posts /\ revived' \in Nat /\ spent' \in Counters
      BY <1>7, <1>0, <2>3, Typed DEF ReadToApprove, historyVars
    <3>5. Go(h, r) /\ row' = [row EXCEPT ![p] = x]
      BY <2>1, <2>2
    <3>6. QED
      BY <3>1, <3>2, <3>3, <3>4, <3>5 DEF Fits
  <2>6. Holds(h, p, r, x)
    BY <1>7, <2>1, <2>2, <2>3 DEF ReadToApprove, Holds, historyVars
  <2>7. Counts(h, p, r, x)
    BY <1>7, <1>0, <2>1, <2>2, <2>3, <2>4, Typed DEF ReadToApprove, Counts, BusyWith, historyVars
  <2>8. Apart(p, x)
    BY <1>7, <2>2, <2>3 DEF ReadToApprove, Apart, historyVars
  <2>9. QED
    BY <1>0, <2>5, <2>6, <2>7, <2>8, HandStep
<1>8. ASSUME NEW p \in Posts, Reject(p)
      PROVE  IInv'
  <2>hand. PICK h \in Hands : TRUE
    BY DEF Hands
  <2>1. PICK r \in HandStates : r = hand[h] /\ Go(h, r)
    <3>1. hand' = [hand EXCEPT ![h] = hand[h]]
      BY <1>8, <1>0 DEF Reject, TypeOK
    <3>2. QED
      BY <1>0, <2>hand, <3>1, HandFields DEF Go
  <2>2. PICK x \in Rows : row' = [row EXCEPT ![p] = x] /\ x.status = "deleted" /\ x.msg = row[p].msg
    <3>1. row[p] \in Rows
      BY <1>0, Typed
    <3> DEFINE y == [row[p] EXCEPT !.status = "deleted"]
    <3>2. y \in Rows /\ y.status = "deleted" /\ y.msg = row[p].msg
      BY <3>1 DEF Rows, Statuses
    <3>3. row' = [row EXCEPT ![p] = y]
      BY <1>8 DEF Reject
    <3> HIDE DEF y
    <3>4. QED
      BY <3>2, <3>3
  <2>3. row[p].status \notin {"none", "deleted", "PUBLISHED"}
    BY <1>8 DEF Reject, Exists
  <2>4. /\ channel' \in Seq(Messages) /\ Len(channel') \in Nat /\ Len(channel') = Len(channel)
        /\ \A q \in Posts : Copies(q)' = Copies(q)
    BY <1>8, <1>0, SameChannel DEF Reject
  <2>5. Fits(h, p, r, x)
    <3>1. channel' \in Seq(Messages) /\ Len(channel') \in Nat /\ Len(channel') >= Len(channel)
      BY <1>0, <2>4, Typed
    <3>2. x.msg # None => x.msg \in 1 .. Len(channel')
      BY <1>0, <2>2, <2>hand, <2>3, <2>4, Typed
    <3>3. /\ r.pc # "rest" => r.post \in Posts
          /\ r.pc = "editChannel" => r.read.msg \in 1 .. Len(channel')
          /\ r.pc = "store" => r.msg \in 1 .. Len(channel')
      BY <1>0, <2>1, <2>2, <2>hand, <2>3, <2>4, Typed, HandFields
    <3>4. todo' \subseteq Posts /\ removed' \subseteq Posts /\ revived' \in Nat /\ spent' \in Counters
      BY <1>8, <1>0, <2>hand, <2>3, Typed DEF Reject
    <3>5. Go(h, r) /\ row' = [row EXCEPT ![p] = x]
      BY <2>1, <2>2
    <3>6. QED
      BY <3>1, <3>2, <3>3, <3>4, <3>5 DEF Fits
  <2>6. Holds(h, p, r, x)
    BY <1>8, <2>1, <2>2, <2>3 DEF Reject, Holds
  <2>7. Counts(h, p, r, x)
    BY <1>8, <1>0, <2>1, <2>2, <2>3, <2>4, Typed DEF Reject, Counts, BusyWith
  <2>8. RemovedApart'
    <3>1. \A q \in Posts : Copies(q)' = Copies(q) /\ Busy(q)' = Busy(q)
      BY <1>8, <2>4 DEF Reject, Busy
    <3>2. row'[p].status = "deleted" /\ \A q \in Posts \ {p} : row'[q] = row[q]
      BY <1>0, <2>2, RowStep
    <3>3. removed' = removed \cup {p} /\ spent' = spent /\ revived' = revived
      BY <1>8 DEF Reject
    <3>4. ASSUME spent.lost = 0, revived = 0
          PROVE  Copies(p) = 0 /\ Busy(p) = {}
      <4>1. Copies(p) \in Nat /\ Cardinality(Busy(p)) \in Nat /\ IsFiniteSet(Busy(p))
        BY <1>0, CopiesCounted, BusyCounted
      <4>2. Copies(p) = 0 /\ Cardinality(Busy(p)) = 0
        BY <1>0, <2>3, <3>4, <4>1 DEF CopiesClaimed, Claimed
      <4>3. QED
        BY <4>1, <4>2, FS_EmptySet
    <3>5. QED
      BY <1>0, <3>1, <3>2, <3>3, <3>4, Typed DEF RemovedApart
  <2>9. QED
    BY <1>0, <2>hand, <2>5, <2>6, <2>7, <2>8, TypeKept, SentKept, CountKept DEF IInv
<1>9. CASE ReadDue
  <2>1. UNCHANGED <<row, channel, hand, removed, revived, spent>> /\ todo' \subseteq Posts
    BY <1>9 DEF ReadDue, historyVars
  <2>2. \A p \in Posts : Busy(p)' = Busy(p) /\ Copies(p)' = Copies(p) /\ Claimed(p)' = Claimed(p)
    BY <2>1 DEF Busy, Copies, Claimed
  <2>3. TypeOK'
    BY <1>0, <2>1 DEF TypeOK
  <2>4. ClaimedIsSent'
    BY <1>0, <2>1 DEF ClaimedIsSent
  <2>5. CopiesClaimed'
    BY <1>0, <2>1, <2>2 DEF CopiesClaimed
  <2>6. RemovedApart'
    BY <1>0, <2>1, <2>2, Typed DEF RemovedApart
  <2>7. QED
    BY <2>3, <2>4, <2>5, <2>6 DEF IInv
<1>10. ASSUME NEW h \in Hands, Claim(h)
      PROVE  IInv'
  <2>0. PICK p \in Posts : p = hand[h].post
    BY <1>10, <1>0, HandFields DEF Claim
  <2>3. hand[h].pc = "claim"
    BY <1>10 DEF Claim
  <2>1. CASE Exists(p) /\ row[p].status # "PUBLISHED"
    <3>1. PICK r \in HandStates : Go(h, r) /\ r.pc = "load" /\ r.post = p
      <4>1. hand[h] \in HandStates
        BY <1>0, HandFields
      <4>2. QED
        BY <1>10, <2>0, <2>1, <4>1 DEF Claim, HandStates
    <3>2. PICK x \in Rows : row' = [row EXCEPT ![p] = x] /\ x.status = "PUBLISHED" /\ x.msg = row[p].msg
      <4>1. row[p] \in Rows
        BY <1>0, Typed
      <4> DEFINE y == [row[p] EXCEPT !.status = "PUBLISHED"]
                 z == [y EXCEPT !.at = "due"]
      <4>2. y \in Rows /\ y.status = "PUBLISHED" /\ y.msg = row[p].msg
        BY <4>1 DEF Rows, Statuses
      <4>3. row' = [row EXCEPT ![p] = z]
        BY <1>10, <1>0, <2>0, <2>1, <4>1 DEF Claim, TypeOK, Rows
      <4> HIDE DEF y
      <4>4. z \in Rows /\ z.status = "PUBLISHED" /\ z.msg = row[p].msg
        BY <4>2 DEF Rows
      <4> HIDE DEF z
      <4>5. QED
        BY <4>3, <4>4
    <3>3. row[p].status \notin {"none", "deleted", "PUBLISHED"}
      BY <2>1 DEF Exists
    <3>4. /\ channel' \in Seq(Messages) /\ Len(channel') \in Nat /\ Len(channel') = Len(channel)
          /\ \A q \in Posts : Copies(q)' = Copies(q)
      BY <1>10, <1>0, SameChannel DEF Claim
    <3>5. Fits(h, p, r, x)
      <4>1. channel' \in Seq(Messages) /\ Len(channel') \in Nat /\ Len(channel') >= Len(channel)
        BY <1>0, <3>4, Typed
      <4>2. x.msg # None => x.msg \in 1 .. Len(channel')
        BY <1>0, <3>2, <2>3, <3>4, Typed
      <4>3. /\ r.pc # "rest" => r.post \in Posts
            /\ r.pc = "editChannel" => r.read.msg \in 1 .. Len(channel')
            /\ r.pc = "store" => r.msg \in 1 .. Len(channel')
        BY <1>0, <3>1, <3>2, <2>3, <3>4, Typed, HandFields
      <4>4. todo' \subseteq Posts /\ removed' \subseteq Posts /\ revived' \in Nat /\ spent' \in Counters
        BY <1>10, <1>0, <2>3, Typed DEF Claim, historyVars
      <4>5. Go(h, r) /\ row' = [row EXCEPT ![p] = x]
        BY <3>1, <3>2
      <4>6. QED
        BY <4>1, <4>2, <4>3, <4>4, <4>5 DEF Fits
    <3>6. Holds(h, p, r, x)
      BY <1>10, <2>3, <3>1, <3>2 DEF Claim, Holds, historyVars
    <3>7. Counts(h, p, r, x)
      BY <1>10, <1>0, <3>1, <3>2, <3>3, <3>4, Typed DEF Claim, Counts, historyVars
    <3>8. Apart(p, x)
      BY <1>10, <3>2, <3>3 DEF Claim, Apart, historyVars
    <3>9. QED
      BY <1>0, <3>5, <3>6, <3>7, <3>8, HandStep
  <2>2. CASE ~ (Exists(p) /\ row[p].status # "PUBLISHED")
    <3>1. PICK r \in HandStates : Go(h, r) /\ r.pc = "rest"
      BY <1>10, <2>0, <2>2, RestingState DEF Claim, Rest
    <3>2. PICK x \in Rows : x = row[p] /\ row' = [row EXCEPT ![p] = x]
      <4>1. row' = row /\ row[p] \in Rows
        BY <1>10, <1>0, <2>0, <2>2, Typed DEF Claim
      <4>2. row' = [row EXCEPT ![p] = row[p]]
        BY <1>0, <4>1 DEF TypeOK
      <4>3. QED
        BY <4>1, <4>2
    <3>4. /\ channel' \in Seq(Messages) /\ Len(channel') \in Nat /\ Len(channel') = Len(channel)
          /\ \A q \in Posts : Copies(q)' = Copies(q)
      BY <1>10, <1>0, SameChannel DEF Claim
    <3>5. Fits(h, p, r, x)
      <4>1. channel' \in Seq(Messages) /\ Len(channel') \in Nat /\ Len(channel') >= Len(channel)
        BY <1>0, <3>4, Typed
      <4>2. x.msg # None => x.msg \in 1 .. Len(channel')
        BY <1>0, <3>2, <2>3, <3>4, Typed
      <4>3. /\ r.pc # "rest" => r.post \in Posts
            /\ r.pc = "editChannel" => r.read.msg \in 1 .. Len(channel')
            /\ r.pc = "store" => r.msg \in 1 .. Len(channel')
        BY <1>0, <3>1, <3>2, <2>3, <3>4, Typed, HandFields
      <4>4. todo' \subseteq Posts /\ removed' \subseteq Posts /\ revived' \in Nat /\ spent' \in Counters
        BY <1>10, <1>0, <2>3, Typed DEF Claim, historyVars
      <4>5. Go(h, r) /\ row' = [row EXCEPT ![p] = x]
        BY <3>1, <3>2
      <4>6. QED
        BY <4>1, <4>2, <4>3, <4>4, <4>5 DEF Fits
    <3>6. Holds(h, p, r, x)
      BY <1>10, <2>3, <3>1, <3>2 DEF Claim, Holds, historyVars
    <3>7. Counts(h, p, r, x)
      BY <1>10, <1>0, <3>1, <3>2, <3>4, Typed DEF Claim, Counts, historyVars
    <3>8. Apart(p, x)
      BY <1>10, <3>2 DEF Claim, Apart, historyVars
    <3>9. QED
      BY <1>0, <3>5, <3>6, <3>7, <3>8, HandStep
  <2>4. QED
    BY <2>1, <2>2
<1>11. ASSUME NEW h \in Hands, LoadPost(h)
      PROVE  IInv'
  <2>0. PICK p \in Posts : p = hand[h].post
    BY <1>11, <1>0, HandFields DEF LoadPost
  <2>1. PICK r \in HandStates :
          /\ Go(h, r)
          /\ \/ Exists(p) /\ r.pc = "send" /\ r.post = p
             \/ ~ Exists(p) /\ r.pc = "drop" /\ r.post = p
             \/ ~ Exists(p) /\ r.pc = "rest"
    <3>1. hand[h] \in HandStates /\ row[p] \in Rows
      BY <1>0, HandFields, Typed
    <3>2. CASE Exists(p)
      <4> DEFINE y == [hand[h] EXCEPT !.pc = "send"]
                 z == [y EXCEPT !.text = row[p].text]
      <4>1. y \in HandStates /\ y.pc = "send" /\ y.post = p
        BY <2>0, <3>1 DEF HandStates
      <4>2. Go(h, z)
        BY <1>11, <2>0, <3>1, <3>2 DEF LoadPost, HandStates
      <4> HIDE DEF y
      <4>3. z \in HandStates /\ z.pc = "send" /\ z.post = p
        BY <3>1, <4>1 DEF HandStates, Rows
      <4> HIDE DEF z
      <4>4. QED
        BY <3>2, <4>2, <4>3
    <3>3. CASE ~ Exists(p) /\ hand[h].drops
      <4>1. Go(h, [hand[h] EXCEPT !.pc = "drop"])
        BY <1>11, <2>0, <3>3 DEF LoadPost
      <4>2. QED
        BY <2>0, <3>1, <3>3, <4>1 DEF HandStates
    <3>4. CASE ~ Exists(p) /\ ~ hand[h].drops
      <4>1. Go(h, Resting)
        BY <1>11, <2>0, <3>4 DEF LoadPost
      <4>2. QED
        BY <3>4, <4>1, RestingState
    <3>5. QED
      BY <3>2, <3>3, <3>4
  <2>2. PICK x \in Rows : x = row[p] /\ row' = [row EXCEPT ![p] = x]
    <3>1. row' = row /\ row[p] \in Rows
      BY <1>11, <1>0, Typed DEF LoadPost
    <3>2. row' = [row EXCEPT ![p] = row[p]]
      BY <3>1, <1>0 DEF TypeOK
    <3>3. QED
      BY <3>1, <3>2
  <2>3. /\ hand[h].pc = "load" /\ hand[h].post = p
        /\ (Exists(p) <=> row[p].status \notin {"none", "deleted"})
    BY <1>11, <2>0 DEF LoadPost, Exists
  <2>4. /\ channel' \in Seq(Messages) /\ Len(channel') \in Nat /\ Len(channel') = Len(channel)
        /\ \A q \in Posts : Copies(q)' = Copies(q)
    BY <1>11, <1>0, SameChannel DEF LoadPost
  <2>5. Fits(h, p, r, x)
    <3>1. channel' \in Seq(Messages) /\ Len(channel') \in Nat /\ Len(channel') >= Len(channel)
      BY <1>0, <2>4, Typed
    <3>2. x.msg # None => x.msg \in 1 .. Len(channel')
      BY <1>0, <2>2, <2>3, <2>4, Typed
    <3>3. /\ r.pc # "rest" => r.post \in Posts
          /\ r.pc = "editChannel" => r.read.msg \in 1 .. Len(channel')
          /\ r.pc = "store" => r.msg \in 1 .. Len(channel')
      BY <1>0, <2>1, <2>2, <2>3, <2>4, Typed, HandFields
    <3>4. todo' \subseteq Posts /\ removed' \subseteq Posts /\ revived' \in Nat /\ spent' \in Counters
      BY <1>11, <1>0, <2>3, Typed DEF LoadPost, historyVars
    <3>5. Go(h, r) /\ row' = [row EXCEPT ![p] = x]
      BY <2>1, <2>2
    <3>6. QED
      BY <3>1, <3>2, <3>3, <3>4, <3>5 DEF Fits
  <2>6. Holds(h, p, r, x)
    BY <1>11, <2>1, <2>2, <2>3 DEF LoadPost, Holds, historyVars
  <2>7. Counts(h, p, r, x)
    BY <1>11, <1>0, <2>1, <2>2, <2>3, <2>4, Typed DEF LoadPost, Counts, BusyWith, historyVars
  <2>8. Apart(p, x)
    BY <1>11, <2>2, <2>3 DEF LoadPost, Apart, historyVars
  <2>9. QED
    BY <1>0, <2>5, <2>6, <2>7, <2>8, HandStep
<1>12. ASSUME NEW h \in Hands, PostToChannel(h)
      PROVE  IInv'
  <2>0. PICK p \in Posts : p = hand[h].post
    BY <1>12, <1>0, HandFields DEF PostToChannel
  <2>1. PICK r \in HandStates :
          /\ Go(h, r) /\ r.post = p
          /\ \/ r.pc = "store" /\ r.msg = Len(channel) + 1 /\ spent' = spent
             \/ r.pc = "fail" /\ spent'.lost = spent.lost + 1
    <3>1. hand[h] \in HandStates /\ Len(channel) + 1 \in Nat
      BY <1>0, HandFields, Typed
    <3>2. CASE Go(h, [hand[h] EXCEPT !.pc = "store", !.msg = Len(channel) + 1]) /\ UNCHANGED spent
      <4> DEFINE y == [hand[h] EXCEPT !.pc = "store"]
                 z == [y EXCEPT !.msg = Len(channel) + 1]
      <4>1. y \in HandStates /\ y.pc = "store" /\ y.post = p
        BY <2>0, <3>1 DEF HandStates
      <4>2. Go(h, z)
        BY <3>1, <3>2 DEF HandStates
      <4> HIDE DEF y
      <4>3. z \in HandStates /\ z.pc = "store" /\ z.post = p /\ z.msg = Len(channel) + 1
        BY <3>1, <4>1 DEF HandStates
      <4> HIDE DEF z
      <4>4. QED
        BY <3>2, <4>2, <4>3
    <3>3. CASE Spend("lost", MaxLost) /\ Go(h, [hand[h] EXCEPT !.pc = "fail"])
      <4>1. spent'.lost = spent.lost + 1
        BY <1>0, <3>3, Spent
      <4>2. QED
        BY <2>0, <3>1, <3>3, <4>1 DEF HandStates
    <3>4. QED
      BY <1>12, <3>2, <3>3 DEF PostToChannel
  <2>2. PICK x \in Rows : x = row[p] /\ row' = [row EXCEPT ![p] = x]
    <3>1. row' = row /\ row[p] \in Rows
      BY <1>12, <1>0, Typed DEF PostToChannel
    <3>2. row' = [row EXCEPT ![p] = row[p]]
      BY <3>1, <1>0 DEF TypeOK
    <3>3. QED
      BY <3>1, <3>2
  <2>3. /\ hand[h].pc = "send" /\ hand[h].post = p
        /\ spent' \in Counters /\ spent'.lost >= spent.lost /\ spent'.crashes = spent.crashes
    BY <1>12, <1>0, <2>0, Spent, Typed DEF PostToChannel
  <2>4. PICK t \in 0 .. MaxEdits : channel' = Append(channel, [post |-> p, text |-> t])
    BY <1>12, <1>0, <2>0, HandFields DEF PostToChannel
  <2>5. channel' \in Seq(Messages) /\ Len(channel') = Len(channel) + 1
    <3>1. [post |-> p, text |-> t] \in Messages
      BY DEF Messages
    <3>2. QED
      BY <1>0, <2>4, <3>1, Typed, AppendProperties
  <2>6. Fits(h, p, r, x)
    <3>1. channel' \in Seq(Messages) /\ Len(channel') \in Nat /\ Len(channel') >= Len(channel)
      BY <1>0, <2>5, Typed
    <3>2. x.msg # None => x.msg \in 1 .. Len(channel')
      BY <1>0, <2>2, <2>3, <2>5, Typed
    <3>3. /\ r.pc # "rest" => r.post \in Posts
          /\ r.pc = "editChannel" => r.read.msg \in 1 .. Len(channel')
          /\ r.pc = "store" => r.msg \in 1 .. Len(channel')
      BY <1>0, <2>1, <2>2, <2>3, <2>5, Typed, HandFields
    <3>4. todo' \subseteq Posts /\ removed' \subseteq Posts /\ revived' \in Nat /\ spent' \in Counters
      BY <1>12, <1>0, <2>3, Typed DEF PostToChannel, historyVars
    <3>5. Go(h, r) /\ row' = [row EXCEPT ![p] = x]
      BY <2>1, <2>2
    <3>6. QED
      BY <3>1, <3>2, <3>3, <3>4, <3>5 DEF Fits
  <2>7. Holds(h, p, r, x)
    BY <2>1, <2>2, <2>3 DEF Holds
  <2>8. \A q \in Posts : Copies(q) \in Nat /\ Copies(q)' = IF q = p THEN Copies(q) + 1 ELSE Copies(q)
    BY <1>0, <2>4, CopiesStep
  <2>9. \A q \in Posts : Claimed(q)' = Claimed(q) /\ Claimed(q) \in {0, 1}
    BY <1>12 DEF PostToChannel, Claimed
  <2>10. spent'.lost \in Nat /\ spent.lost \in Nat /\ revived' = revived /\ revived \in Nat
    BY <1>12, <1>0, <2>1, Typed DEF PostToChannel, historyVars
  <2>11. CopiesClaimed'
    <3> SUFFICES ASSUME NEW q \in Posts
                 PROVE  Copies(q)' + Cardinality(Busy(q)') <= Claimed(q)' + spent'.lost + revived'
      BY DEF CopiesClaimed
    <3>1. Copies(q) + Cardinality(Busy(q)) <= Claimed(q) + spent.lost + revived
      BY <1>0 DEF CopiesClaimed
    <3>2. Cardinality(Busy(q)) \in Nat /\ Cardinality(Busy(q)') \in Nat
      BY <1>0, <2>1, BusyStep
    <3>3. CASE q # p
      <4>1. ~ BusyWith(r, q) /\ ~ BusyWith(hand[h], q)
        BY <2>1, <2>3, <3>3 DEF BusyWith
      <4>2. Cardinality(Busy(q)') = Cardinality(Busy(q))
        BY <1>0, <2>1, <4>1, BusyStep
      <4>3. QED
        BY <2>3, <2>8, <2>9, <2>10, <3>1, <3>2, <3>3, <4>2
    <3>4. CASE q = p /\ r.pc = "store"
      <4>1. ~ BusyWith(r, q) /\ BusyWith(hand[h], q)
        BY <2>3, <3>4 DEF BusyWith
      <4>2. Cardinality(Busy(q)') = Cardinality(Busy(q)) - 1
        BY <1>0, <2>1, <4>1, BusyStep
      <4>3. QED
        BY <2>3, <2>8, <2>9, <2>10, <3>1, <3>2, <3>4, <4>2
    <3>5. CASE q = p /\ r.pc = "fail"
      <4>1. BusyWith(r, q) /\ BusyWith(hand[h], q)
        BY <2>1, <2>3, <3>5 DEF BusyWith
      <4>2. Cardinality(Busy(q)') = Cardinality(Busy(q))
        BY <1>0, <2>1, <4>1, BusyStep
      <4>3. spent'.lost = spent.lost + 1
        BY <2>1, <3>5
      <4>4. QED
        BY <2>8, <2>9, <2>10, <3>1, <3>2, <3>5, <4>2, <4>3
    <3>6. QED
      BY <2>1, <3>3, <3>4, <3>5
  <2>12. RemovedApart'
    <3>1. row' = row /\ removed' = removed
      BY <1>12 DEF PostToChannel, historyVars
    <3>2. ASSUME spent'.lost = 0, revived' = 0, NEW q \in removed
          PROVE  Copies(q)' = 0 /\ Busy(q)' = {}
      <4>1. spent.lost = 0 /\ revived = 0 /\ q \in Posts
        BY <1>0, <2>3, <2>10, <3>2, Typed
      <4>2. Copies(q) = 0 /\ Busy(q) = {}
        BY <1>0, <3>2, <4>1 DEF RemovedApart
      <4>3. ~ BusyWith(hand[h], q)
        BY <4>2 DEF Busy, BusyWith
      <4>4. q # p /\ ~ BusyWith(r, q)
        BY <2>1, <2>3, <4>3 DEF BusyWith
      <4>5. Busy(q)' = Busy(q)
        BY <1>0, <2>1, <4>1, <4>3, <4>4, BusyStep
      <4>6. QED
        BY <2>8, <4>1, <4>2, <4>4, <4>5
    <3>3. QED
      BY <1>0, <3>1, <3>2 DEF RemovedApart
  <2>13. QED
    BY <1>0, <2>6, <2>7, <2>11, <2>12, TypeKept, SentKept DEF IInv
<1>13. ASSUME NEW h \in Hands, TelegramRefuses(h)
      PROVE  IInv'
  <2>0. PICK p \in Posts : p = hand[h].post
    BY <1>13, <1>0, HandFields DEF TelegramRefuses
  <2>1. PICK r \in HandStates : Go(h, r) /\ r.pc = "fail" /\ r.post = p
    <3>1. hand[h] \in HandStates
      BY <1>0, HandFields
    <3>2. QED
      BY <1>13, <2>0, <3>1 DEF TelegramRefuses, HandStates
  <2>2. PICK x \in Rows : x = row[p] /\ row' = [row EXCEPT ![p] = x]
    <3>1. row' = row /\ row[p] \in Rows
      BY <1>13, <1>0, Typed DEF TelegramRefuses
    <3>2. row' = [row EXCEPT ![p] = row[p]]
      BY <3>1, <1>0 DEF TypeOK
    <3>3. QED
      BY <3>1, <3>2
  <2>3. /\ hand[h].pc = "send" /\ hand[h].post = p
        /\ spent' \in Counters /\ spent'.lost = spent.lost /\ spent'.crashes = spent.crashes
    BY <1>13, <1>0, <2>0, Spent DEF TelegramRefuses
  <2>4. /\ channel' \in Seq(Messages) /\ Len(channel') \in Nat /\ Len(channel') = Len(channel)
        /\ \A q \in Posts : Copies(q)' = Copies(q)
    BY <1>13, <1>0, SameChannel DEF TelegramRefuses
  <2>5. Fits(h, p, r, x)
    <3>1. channel' \in Seq(Messages) /\ Len(channel') \in Nat /\ Len(channel') >= Len(channel)
      BY <1>0, <2>4, Typed
    <3>2. x.msg # None => x.msg \in 1 .. Len(channel')
      BY <1>0, <2>2, <2>3, <2>4, Typed
    <3>3. /\ r.pc # "rest" => r.post \in Posts
          /\ r.pc = "editChannel" => r.read.msg \in 1 .. Len(channel')
          /\ r.pc = "store" => r.msg \in 1 .. Len(channel')
      BY <1>0, <2>1, <2>2, <2>3, <2>4, Typed, HandFields
    <3>4. todo' \subseteq Posts /\ removed' \subseteq Posts /\ revived' \in Nat /\ spent' \in Counters
      BY <1>13, <1>0, <2>3, Typed DEF TelegramRefuses, historyVars
    <3>5. Go(h, r) /\ row' = [row EXCEPT ![p] = x]
      BY <2>1, <2>2
    <3>6. QED
      BY <3>1, <3>2, <3>3, <3>4, <3>5 DEF Fits
  <2>6. Holds(h, p, r, x)
    BY <1>13, <2>1, <2>2, <2>3 DEF TelegramRefuses, Holds, historyVars
  <2>7. Counts(h, p, r, x)
    BY <1>13, <1>0, <2>1, <2>2, <2>3, <2>4, Typed DEF TelegramRefuses, Counts, BusyWith, historyVars
  <2>8. Apart(p, x)
    BY <1>13, <2>2, <2>3 DEF TelegramRefuses, Apart, historyVars
  <2>9. QED
    BY <1>0, <2>5, <2>6, <2>7, <2>8, HandStep
<1>14. ASSUME NEW h \in Hands, StoreMessageId(h)
      PROVE  IInv'
  <2>0. PICK p \in Posts : p = hand[h].post
    BY <1>14, <1>0, HandFields DEF StoreMessageId
  <2>1. PICK r \in HandStates : Go(h, r) /\ r.pc \in {"drop", "rest"} /\ (r.pc # "rest" => r.post = p)
    <3>1. hand[h] \in HandStates
      BY <1>0, HandFields
    <3>2. CASE Go(h, [hand[h] EXCEPT !.pc = "drop"])
      BY <2>0, <3>1, <3>2 DEF HandStates
    <3>3. CASE Go(h, Resting)
      BY <3>3, RestingState
    <3>4. QED
      BY <1>14, <3>2, <3>3 DEF StoreMessageId, Rest
  <2>2. PICK x \in Rows :
          /\ row' = [row EXCEPT ![p] = x] /\ x.status = row[p].status
          /\ \/ Exists(p) /\ x.msg = hand[h].msg
             \/ ~ Exists(p) /\ x = row[p]
    <3>1. row[p] \in Rows /\ hand[h].msg \in Nat
      BY <1>14, <1>0, Typed, HandFields DEF StoreMessageId
    <3>2. CASE Exists(p)
      <4> DEFINE y == [row[p] EXCEPT !.msg = hand[h].msg]
      <4>1. y \in Rows /\ y.status = row[p].status /\ y.msg = hand[h].msg
        BY <3>1 DEF Rows
      <4>2. row' = [row EXCEPT ![p] = y]
        BY <1>14, <2>0, <3>2 DEF StoreMessageId
      <4> HIDE DEF y
      <4>3. QED
        BY <3>2, <4>1, <4>2
    <3>3. CASE ~ Exists(p)
      <4>1. row' = [row EXCEPT ![p] = row[p]]
        BY <1>14, <1>0, <2>0, <3>3 DEF StoreMessageId, TypeOK
      <4>2. QED
        BY <3>1, <3>3, <4>1
    <3>4. QED
      BY <3>2, <3>3
  <2>3. /\ hand[h].pc = "store" /\ hand[h].post = p
        /\ (Exists(p) <=> row[p].status \notin {"none", "deleted"})
        /\ hand[h].msg \in 1 .. Len(channel) /\ hand[h].msg # None
    BY <1>14, <1>0, <2>0, HandFields, ChannelConstants DEF StoreMessageId, Exists
  <2>4. /\ channel' \in Seq(Messages) /\ Len(channel') \in Nat /\ Len(channel') = Len(channel)
        /\ \A q \in Posts : Copies(q)' = Copies(q)
    BY <1>14, <1>0, SameChannel DEF StoreMessageId
  <2>5. Fits(h, p, r, x)
    <3>1. channel' \in Seq(Messages) /\ Len(channel') \in Nat /\ Len(channel') >= Len(channel)
      BY <1>0, <2>4, Typed
    <3>2. x.msg # None => x.msg \in 1 .. Len(channel')
      BY <1>0, <2>2, <2>3, <2>4, Typed
    <3>3. /\ r.pc # "rest" => r.post \in Posts
          /\ r.pc = "editChannel" => r.read.msg \in 1 .. Len(channel')
          /\ r.pc = "store" => r.msg \in 1 .. Len(channel')
      BY <1>0, <2>1, <2>2, <2>3, <2>4, Typed, HandFields
    <3>4. todo' \subseteq Posts /\ removed' \subseteq Posts /\ revived' \in Nat /\ spent' \in Counters
      BY <1>14, <1>0, <2>3, Typed DEF StoreMessageId, historyVars
    <3>5. Go(h, r) /\ row' = [row EXCEPT ![p] = x]
      BY <2>1, <2>2
    <3>6. QED
      BY <3>1, <3>2, <3>3, <3>4, <3>5 DEF Fits
  <2>6. Holds(h, p, r, x)
    BY <1>14, <2>1, <2>2, <2>3 DEF StoreMessageId, Holds, historyVars
  <2>7. Counts(h, p, r, x)
    BY <1>14, <1>0, <2>1, <2>2, <2>3, <2>4, Typed DEF StoreMessageId, Counts, BusyWith, historyVars
  <2>8. Apart(p, x)
    BY <1>14, <2>2, <2>3 DEF StoreMessageId, Apart, historyVars
  <2>9. QED
    BY <1>0, <2>5, <2>6, <2>7, <2>8, HandStep
<1>15. ASSUME NEW h \in Hands, Fail(h)
      PROVE  IInv'
  <2>0. PICK p \in Posts : p = hand[h].post
    BY <1>15, <1>0, HandFields DEF Fail
  <2>1. PICK r \in HandStates : Go(h, r) /\ r.pc \in {"drop", "rest"} /\ (r.pc # "rest" => r.post = p)
    <3>1. hand[h] \in HandStates
      BY <1>0, HandFields
    <3>2. CASE Go(h, [hand[h] EXCEPT !.pc = "drop"])
      BY <2>0, <3>1, <3>2 DEF HandStates
    <3>3. CASE Go(h, Resting)
      BY <3>3, RestingState
    <3>4. QED
      BY <1>15, <3>2, <3>3 DEF Fail, Rest
  <2>2. PICK x \in Rows :
          /\ row' = [row EXCEPT ![p] = x] /\ x.msg = row[p].msg
          /\ \/ Exists(p) /\ x.status = "FAILED"
             \/ ~ Exists(p) /\ x = row[p]
    <3>1. row[p] \in Rows
      BY <1>0, Typed
    <3>2. CASE Exists(p)
      <4> DEFINE y == [row[p] EXCEPT !.status = "FAILED"]
      <4>1. y \in Rows /\ y.status = "FAILED" /\ y.msg = row[p].msg
        BY <3>1 DEF Rows, Statuses
      <4>2. row' = [row EXCEPT ![p] = y]
        BY <1>15, <2>0, <3>2 DEF Fail
      <4> HIDE DEF y
      <4>3. QED
        BY <3>2, <4>1, <4>2
    <3>3. CASE ~ Exists(p)
      <4>1. row' = [row EXCEPT ![p] = row[p]]
        BY <1>15, <1>0, <2>0, <3>3 DEF Fail, TypeOK
      <4>2. QED
        BY <3>1, <3>3, <4>1
    <3>4. QED
      BY <3>2, <3>3
  <2>3. /\ hand[h].pc = "fail" /\ hand[h].post = p
        /\ (Exists(p) <=> row[p].status \notin {"none", "deleted"})
    BY <1>15, <2>0 DEF Fail, Exists
  <2>4. /\ channel' \in Seq(Messages) /\ Len(channel') \in Nat /\ Len(channel') = Len(channel)
        /\ \A q \in Posts : Copies(q)' = Copies(q)
    BY <1>15, <1>0, SameChannel DEF Fail
  <2>5. Fits(h, p, r, x)
    <3>1. channel' \in Seq(Messages) /\ Len(channel') \in Nat /\ Len(channel') >= Len(channel)
      BY <1>0, <2>4, Typed
    <3>2. x.msg # None => x.msg \in 1 .. Len(channel')
      BY <1>0, <2>2, <2>3, <2>4, Typed
    <3>3. /\ r.pc # "rest" => r.post \in Posts
          /\ r.pc = "editChannel" => r.read.msg \in 1 .. Len(channel')
          /\ r.pc = "store" => r.msg \in 1 .. Len(channel')
      BY <1>0, <2>1, <2>2, <2>3, <2>4, Typed, HandFields
    <3>4. todo' \subseteq Posts /\ removed' \subseteq Posts /\ revived' \in Nat /\ spent' \in Counters
      BY <1>15, <1>0, <2>3, Typed DEF Fail, historyVars
    <3>5. Go(h, r) /\ row' = [row EXCEPT ![p] = x]
      BY <2>1, <2>2
    <3>6. QED
      BY <3>1, <3>2, <3>3, <3>4, <3>5 DEF Fits
  <2>6. Holds(h, p, r, x)
    BY <1>15, <2>1, <2>2, <2>3 DEF Fail, Holds, historyVars
  <2>7. Counts(h, p, r, x)
    BY <1>15, <1>0, <2>1, <2>2, <2>3, <2>4, Typed DEF Fail, Counts, BusyWith, historyVars
  <2>8. Apart(p, x)
    BY <1>15, <2>2, <2>3 DEF Fail, Apart, historyVars
  <2>9. QED
    BY <1>0, <2>5, <2>6, <2>7, <2>8, HandStep
<1>16. ASSUME NEW h \in Hands, Drop(h)
      PROVE  IInv'
  <2>0. PICK p \in Posts : p = hand[h].post
    BY <1>16, <1>0, HandFields DEF Drop
  <2>1. PICK r \in HandStates : Go(h, r) /\ r.pc = "rest"
    BY <1>16, RestingState DEF Drop, Rest
  <2>2. PICK x \in Rows : row' = [row EXCEPT ![p] = x] /\ x.status = "deleted" /\ x.msg = row[p].msg
    <3>1. row[p] \in Rows
      BY <1>0, Typed
    <3> DEFINE y == [row[p] EXCEPT !.status = "deleted"]
    <3>2. y \in Rows /\ y.status = "deleted" /\ y.msg = row[p].msg
      BY <3>1 DEF Rows, Statuses
    <3>3. row' = [row EXCEPT ![p] = y]
      BY <1>16, <2>0 DEF Drop
    <3> HIDE DEF y
    <3>4. QED
      BY <3>2, <3>3
  <2>3. hand[h].pc = "drop" /\ hand[h].post = p
    BY <1>16, <2>0 DEF Drop
  <2>4. /\ channel' \in Seq(Messages) /\ Len(channel') \in Nat /\ Len(channel') = Len(channel)
        /\ \A q \in Posts : Copies(q)' = Copies(q)
    BY <1>16, <1>0, SameChannel DEF Drop
  <2>5. Fits(h, p, r, x)
    <3>1. channel' \in Seq(Messages) /\ Len(channel') \in Nat /\ Len(channel') >= Len(channel)
      BY <1>0, <2>4, Typed
    <3>2. x.msg # None => x.msg \in 1 .. Len(channel')
      BY <1>0, <2>2, <2>3, <2>4, Typed
    <3>3. /\ r.pc # "rest" => r.post \in Posts
          /\ r.pc = "editChannel" => r.read.msg \in 1 .. Len(channel')
          /\ r.pc = "store" => r.msg \in 1 .. Len(channel')
      BY <1>0, <2>1, <2>2, <2>3, <2>4, Typed, HandFields
    <3>4. todo' \subseteq Posts /\ removed' \subseteq Posts /\ revived' \in Nat /\ spent' \in Counters
      BY <1>16, <1>0, <2>3, Typed DEF Drop, historyVars
    <3>5. Go(h, r) /\ row' = [row EXCEPT ![p] = x]
      BY <2>1, <2>2
    <3>6. QED
      BY <3>1, <3>2, <3>3, <3>4, <3>5 DEF Fits
  <2>6. Holds(h, p, r, x)
    BY <1>16, <2>1, <2>2, <2>3 DEF Drop, Holds, historyVars
  <2>7. Counts(h, p, r, x)
    BY <1>16, <1>0, <2>1, <2>2, <2>3, <2>4, Typed DEF Drop, Counts, BusyWith, historyVars
  <2>8. Apart(p, x)
    BY <1>16, <2>2, <2>3 DEF Drop, Apart, historyVars
  <2>9. QED
    BY <1>0, <2>5, <2>6, <2>7, <2>8, HandStep
<1>17. ASSUME NEW h \in Hands, Schedule(h)
      PROVE  IInv'
  <2>0. PICK p \in Posts : p = hand[h].post
    BY <1>17, <1>0, HandFields DEF Schedule
  <2>1. PICK r \in HandStates : Go(h, r) /\ r.pc = "rest"
    BY <1>17, RestingState DEF Schedule, Rest
  <2>2. PICK x \in Rows :
          /\ row' = [row EXCEPT ![p] = x] /\ x.msg = row[p].msg
          /\ \/ Exists(p) /\ x.status = "SCHEDULED"
             \/ ~ Exists(p) /\ x = row[p]
    <3>1. row[p] \in Rows
      BY <1>0, Typed
    <3>2. CASE Exists(p)
      <4> DEFINE y == [row[p] EXCEPT !.status = "SCHEDULED"]
      <4>1. y \in Rows /\ y.status = "SCHEDULED" /\ y.msg = row[p].msg
        BY <3>1 DEF Rows, Statuses
      <4>2. row' = [row EXCEPT ![p] = y]
        BY <1>17, <2>0, <3>2 DEF Schedule
      <4> HIDE DEF y
      <4>3. QED
        BY <3>2, <4>1, <4>2
    <3>3. CASE ~ Exists(p)
      <4>1. row' = [row EXCEPT ![p] = row[p]]
        BY <1>17, <1>0, <2>0, <3>3 DEF Schedule, TypeOK
      <4>2. QED
        BY <3>1, <3>3, <4>1
    <3>4. QED
      BY <3>2, <3>3
  <2>3. /\ hand[h].pc = "schedule" /\ hand[h].post = p
        /\ (Exists(p) <=> row[p].status \notin {"none", "deleted"})
        /\ revived' \in Nat /\ revived' >= revived
        /\ row[p].status = "PUBLISHED" /\ x.status = "SCHEDULED" => revived' > revived
    <3>1. row'[p] = x /\ revived \in Nat
      BY <1>0, <2>2, RowStep, Typed
    <3>2. Recall(p) /\ hand[h].pc = "schedule" /\ hand[h].post = p
      BY <1>17, <2>0 DEF Schedule
    <3>3. QED
      BY <3>1, <3>2 DEF Exists, Recall
  <2>4. /\ channel' \in Seq(Messages) /\ Len(channel') \in Nat /\ Len(channel') = Len(channel)
        /\ \A q \in Posts : Copies(q)' = Copies(q)
    BY <1>17, <1>0, SameChannel DEF Schedule
  <2>5. Fits(h, p, r, x)
    <3>1. channel' \in Seq(Messages) /\ Len(channel') \in Nat /\ Len(channel') >= Len(channel)
      BY <1>0, <2>4, Typed
    <3>2. x.msg # None => x.msg \in 1 .. Len(channel')
      BY <1>0, <2>2, <2>3, <2>4, Typed
    <3>3. /\ r.pc # "rest" => r.post \in Posts
          /\ r.pc = "editChannel" => r.read.msg \in 1 .. Len(channel')
          /\ r.pc = "store" => r.msg \in 1 .. Len(channel')
      BY <1>0, <2>1, <2>2, <2>3, <2>4, Typed, HandFields
    <3>4. todo' \subseteq Posts /\ removed' \subseteq Posts /\ revived' \in Nat /\ spent' \in Counters
      BY <1>17, <1>0, <2>3, Typed DEF Schedule
    <3>5. Go(h, r) /\ row' = [row EXCEPT ![p] = x]
      BY <2>1, <2>2
    <3>6. QED
      BY <3>1, <3>2, <3>3, <3>4, <3>5 DEF Fits
  <2>6. Holds(h, p, r, x)
    BY <1>17, <2>1, <2>2, <2>3 DEF Schedule, Holds
  <2>7. Counts(h, p, r, x)
    BY <1>17, <1>0, <2>1, <2>2, <2>3, <2>4, Typed DEF Schedule, Counts, BusyWith
  <2>8. Apart(p, x)
    BY <1>17, <2>2, <2>3 DEF Schedule, Apart
  <2>9. QED
    BY <1>0, <2>5, <2>6, <2>7, <2>8, HandStep
<1>18. ASSUME NEW h \in Hands, EditInChannel(h)
      PROVE  IInv'
  <2>0. PICK p \in Posts : p = hand[h].post
    BY <1>18, <1>0, HandFields DEF EditInChannel
  <2>1. PICK r \in HandStates : Go(h, r) /\ r.pc = "save" /\ r.post = p
    <3>1. hand[h] \in HandStates
      BY <1>0, HandFields
    <3>2. QED
      BY <1>18, <2>0, <3>1 DEF EditInChannel, HandStates
  <2>2. PICK x \in Rows : x = row[p] /\ row' = [row EXCEPT ![p] = x]
    <3>1. row' = row /\ row[p] \in Rows
      BY <1>18, <1>0, Typed DEF EditInChannel
    <3>2. row' = [row EXCEPT ![p] = row[p]]
      BY <3>1, <1>0 DEF TypeOK
    <3>3. QED
      BY <3>1, <3>2
  <2>3. hand[h].pc = "editChannel" /\ hand[h].post = p
    BY <1>18, <2>0 DEF EditInChannel
  <2>4. /\ channel' \in Seq(Messages) /\ Len(channel') \in Nat /\ Len(channel') = Len(channel)
        /\ \A q \in Posts : Copies(q)' = Copies(q)
    <3>1. hand[h].text \in 0 .. MaxEdits /\ hand[h].read.msg \in 1 .. Len(channel)
      BY <1>18, <1>0, HandFields DEF EditInChannel
    <3>2. channel' = [channel EXCEPT ![hand[h].read.msg].text = hand[h].text]
      BY <1>18 DEF EditInChannel
    <3>3. PICK m \in 1 .. Len(channel), n \in 0 .. MaxEdits : m = hand[h].read.msg /\ n = hand[h].text
      BY <3>1
    <3>4. channel' = [channel EXCEPT ![m].text = n]
      BY <3>2, <3>3
    <3>5. QED
      BY <1>0, <3>4, EditIsNoCopy, Typed
  <2>5. Fits(h, p, r, x)
    <3>1. channel' \in Seq(Messages) /\ Len(channel') \in Nat /\ Len(channel') >= Len(channel)
      BY <1>0, <2>4, Typed
    <3>2. x.msg # None => x.msg \in 1 .. Len(channel')
      BY <1>0, <2>2, <2>3, <2>4, Typed
    <3>3. /\ r.pc # "rest" => r.post \in Posts
          /\ r.pc = "editChannel" => r.read.msg \in 1 .. Len(channel')
          /\ r.pc = "store" => r.msg \in 1 .. Len(channel')
      BY <1>0, <2>1, <2>2, <2>3, <2>4, Typed, HandFields
    <3>4. todo' \subseteq Posts /\ removed' \subseteq Posts /\ revived' \in Nat /\ spent' \in Counters
      BY <1>18, <1>0, <2>3, Typed DEF EditInChannel, historyVars
    <3>5. Go(h, r) /\ row' = [row EXCEPT ![p] = x]
      BY <2>1, <2>2
    <3>6. QED
      BY <3>1, <3>2, <3>3, <3>4, <3>5 DEF Fits
  <2>6. Holds(h, p, r, x)
    BY <1>18, <2>1, <2>2, <2>3 DEF EditInChannel, Holds, historyVars
  <2>7. Counts(h, p, r, x)
    BY <1>18, <1>0, <2>1, <2>2, <2>3, <2>4, Typed DEF EditInChannel, Counts, BusyWith, historyVars
  <2>8. Apart(p, x)
    BY <1>18, <2>2, <2>3 DEF EditInChannel, Apart, historyVars
  <2>9. QED
    BY <1>0, <2>5, <2>6, <2>7, <2>8, HandStep
<1>19. ASSUME NEW h \in Hands, RefuseEdit(h)
      PROVE  IInv'
  <2>0. PICK p \in Posts : p = hand[h].post
    BY <1>19, <1>0, HandFields DEF RefuseEdit
  <2>1. PICK r \in HandStates : Go(h, r) /\ r.pc = "rest"
    BY <1>19, RestingState DEF RefuseEdit, Rest
  <2>2. PICK x \in Rows : x = row[p] /\ row' = [row EXCEPT ![p] = x]
    <3>1. row' = row /\ row[p] \in Rows
      BY <1>19, <1>0, Typed DEF RefuseEdit
    <3>2. row' = [row EXCEPT ![p] = row[p]]
      BY <3>1, <1>0 DEF TypeOK
    <3>3. QED
      BY <3>1, <3>2
  <2>3. /\ hand[h].pc = "editChannel" /\ hand[h].post = p
        /\ spent' \in Counters /\ spent'.lost = spent.lost /\ spent'.crashes = spent.crashes
    BY <1>19, <1>0, <2>0, Spent DEF RefuseEdit
  <2>4. /\ channel' \in Seq(Messages) /\ Len(channel') \in Nat /\ Len(channel') = Len(channel)
        /\ \A q \in Posts : Copies(q)' = Copies(q)
    BY <1>19, <1>0, SameChannel DEF RefuseEdit
  <2>5. Fits(h, p, r, x)
    <3>1. channel' \in Seq(Messages) /\ Len(channel') \in Nat /\ Len(channel') >= Len(channel)
      BY <1>0, <2>4, Typed
    <3>2. x.msg # None => x.msg \in 1 .. Len(channel')
      BY <1>0, <2>2, <2>3, <2>4, Typed
    <3>3. /\ r.pc # "rest" => r.post \in Posts
          /\ r.pc = "editChannel" => r.read.msg \in 1 .. Len(channel')
          /\ r.pc = "store" => r.msg \in 1 .. Len(channel')
      BY <1>0, <2>1, <2>2, <2>3, <2>4, Typed, HandFields
    <3>4. todo' \subseteq Posts /\ removed' \subseteq Posts /\ revived' \in Nat /\ spent' \in Counters
      BY <1>19, <1>0, <2>3, Typed DEF RefuseEdit, historyVars
    <3>5. Go(h, r) /\ row' = [row EXCEPT ![p] = x]
      BY <2>1, <2>2
    <3>6. QED
      BY <3>1, <3>2, <3>3, <3>4, <3>5 DEF Fits
  <2>6. Holds(h, p, r, x)
    BY <1>19, <2>1, <2>2, <2>3 DEF RefuseEdit, Holds, historyVars
  <2>7. Counts(h, p, r, x)
    BY <1>19, <1>0, <2>1, <2>2, <2>3, <2>4, Typed DEF RefuseEdit, Counts, BusyWith, historyVars
  <2>8. Apart(p, x)
    BY <1>19, <2>2, <2>3 DEF RefuseEdit, Apart, historyVars
  <2>9. QED
    BY <1>0, <2>5, <2>6, <2>7, <2>8, HandStep
<1>20. ASSUME NEW h \in Hands, SaveEdit(h)
      PROVE  IInv'
  <2>0. PICK p \in Posts : p = hand[h].post
    BY <1>20, <1>0, HandFields DEF SaveEdit
  <2>1. PICK r \in HandStates : Go(h, r) /\ r.pc = "rest"
    BY <1>20, RestingState DEF SaveEdit, Rest
  <2>2. PICK x \in Rows :
          /\ row' = [row EXCEPT ![p] = x] /\ x.msg = row[p].msg
          /\ x.status = row[p].status \/ (Exists(p) /\ x.status = "SCHEDULED")
    <3>1. row[p] \in Rows /\ hand[h].text \in 0 .. MaxEdits
      BY <1>0, Typed, HandFields
    <3>2. CASE ~ Exists(p)
      <4>1. row' = [row EXCEPT ![p] = row[p]]
        BY <1>20, <1>0, <2>0, <3>2 DEF SaveEdit, TypeOK
      <4>2. QED
        BY <3>1, <4>1
    <3> DEFINE y == [row[p] EXCEPT !.text = hand[h].text]
               z == [row[p] EXCEPT !.text = hand[h].text, !.at = "later"]
               w == [z EXCEPT !.status = "SCHEDULED"]
    <3>3. y \in Rows /\ y.status = row[p].status /\ y.msg = row[p].msg
      BY <3>1 DEF Rows
    <3>4. z = [y EXCEPT !.at = "later"]
      BY <3>1 DEF Rows
    <3>5. CASE Exists(p)
      <4>1. \/ row' = [row EXCEPT ![p] = y]
            \/ row' = [row EXCEPT ![p] = z]
            \/ row' = [row EXCEPT ![p] = w]
        BY <1>20, <2>0, <3>5 DEF SaveEdit
      <4> HIDE DEF y
      <4>2. z \in Rows /\ z.status = row[p].status /\ z.msg = row[p].msg
        BY <3>3, <3>4 DEF Rows
      <4> HIDE DEF z
      <4>3. w \in Rows /\ w.status = "SCHEDULED" /\ w.msg = row[p].msg
        BY <4>2 DEF Rows, Statuses
      <4> HIDE DEF w
      <4>4. QED
        BY <3>3, <3>5, <4>1, <4>2, <4>3
    <3>6. QED
      BY <3>2, <3>5
  <2>3. /\ hand[h].pc = "save" /\ hand[h].post = p
        /\ (Exists(p) <=> row[p].status \notin {"none", "deleted"})
        /\ revived' \in Nat /\ revived' >= revived
        /\ row[p].status = "PUBLISHED" /\ x.status = "SCHEDULED" => revived' > revived
    <3>1. row'[p] = x /\ revived \in Nat
      BY <1>0, <2>2, RowStep, Typed
    <3>2. Recall(p) /\ hand[h].pc = "save" /\ hand[h].post = p
      BY <1>20, <2>0 DEF SaveEdit
    <3>3. QED
      BY <3>1, <3>2 DEF Exists, Recall
  <2>4. /\ channel' \in Seq(Messages) /\ Len(channel') \in Nat /\ Len(channel') = Len(channel)
        /\ \A q \in Posts : Copies(q)' = Copies(q)
    BY <1>20, <1>0, SameChannel DEF SaveEdit
  <2>5. Fits(h, p, r, x)
    <3>1. channel' \in Seq(Messages) /\ Len(channel') \in Nat /\ Len(channel') >= Len(channel)
      BY <1>0, <2>4, Typed
    <3>2. x.msg # None => x.msg \in 1 .. Len(channel')
      BY <1>0, <2>2, <2>3, <2>4, Typed
    <3>3. /\ r.pc # "rest" => r.post \in Posts
          /\ r.pc = "editChannel" => r.read.msg \in 1 .. Len(channel')
          /\ r.pc = "store" => r.msg \in 1 .. Len(channel')
      BY <1>0, <2>1, <2>2, <2>3, <2>4, Typed, HandFields
    <3>4. todo' \subseteq Posts /\ removed' \subseteq Posts /\ revived' \in Nat /\ spent' \in Counters
      BY <1>20, <1>0, <2>3, Typed DEF SaveEdit
    <3>5. Go(h, r) /\ row' = [row EXCEPT ![p] = x]
      BY <2>1, <2>2
    <3>6. QED
      BY <3>1, <3>2, <3>3, <3>4, <3>5 DEF Fits
  <2>6. Holds(h, p, r, x)
    BY <1>20, <2>1, <2>2, <2>3 DEF SaveEdit, Holds
  <2>7. Counts(h, p, r, x)
    BY <1>20, <1>0, <2>1, <2>2, <2>3, <2>4, Typed DEF SaveEdit, Counts, BusyWith
  <2>8. Apart(p, x)
    BY <1>20, <2>2, <2>3 DEF SaveEdit, Apart
  <2>9. QED
    BY <1>0, <2>5, <2>6, <2>7, <2>8, HandStep
<1>21. CASE Crash
  <2>1. /\ row' = row /\ channel' = channel /\ removed' = removed /\ revived' = revived /\ todo' = {}
        /\ hand' = [h \in Hands |-> Resting]
    BY <1>21 DEF Crash, historyVars
  <2>2. spent' \in Counters /\ spent'.lost = spent.lost /\ spent'.crashes = spent.crashes + 1
    BY <1>21, <1>0, Spent DEF Crash
  <2>3. TypeOK'
    BY <1>0, <2>1, <2>2, RestingState DEF TypeOK
  <2>4. ClaimedIsSent'
    BY <1>0, <2>2, Typed DEF ClaimedIsSent
  <2>5. \A p \in Posts : Busy(p)' = {} /\ Copies(p)' = Copies(p) /\ Claimed(p)' = Claimed(p)
    BY <2>1, RestingState DEF Busy, Copies, Claimed
  <2>6. CopiesClaimed'
    <3> SUFFICES ASSUME NEW p \in Posts
                 PROVE  Copies(p)' + Cardinality(Busy(p)') <= Claimed(p)' + spent'.lost + revived'
      BY DEF CopiesClaimed
    <3>1. Copies(p) + Cardinality(Busy(p)) <= Claimed(p) + spent.lost + revived
      BY <1>0 DEF CopiesClaimed
    <3>2. /\ Copies(p) \in Nat /\ Cardinality(Busy(p)) \in Nat /\ Claimed(p) \in Nat
          /\ spent.lost \in Nat /\ revived \in Nat
      BY <1>0, CopiesCounted, BusyCounted, Typed DEF Claimed
    <3>3. Cardinality(Busy(p)') = 0
      BY <2>5, FS_EmptySet
    <3>4. QED
      BY <2>1, <2>2, <2>5, <3>1, <3>2, <3>3
  <2>7. RemovedApart'
    BY <1>0, <2>1, <2>2, <2>5, Typed DEF RemovedApart
  <2>8. QED
    BY <2>3, <2>4, <2>6, <2>7 DEF IInv
<1>22. CASE UNCHANGED vars
  <2>1. UNCHANGED <<row, channel, hand, removed, revived, spent>> /\ todo' \subseteq Posts
    BY <1>22, <1>0 DEF vars, historyVars, TypeOK
  <2>2. \A p \in Posts : Busy(p)' = Busy(p) /\ Copies(p)' = Copies(p) /\ Claimed(p)' = Claimed(p)
    BY <2>1 DEF Busy, Copies, Claimed
  <2>3. TypeOK'
    BY <1>0, <2>1 DEF TypeOK
  <2>4. ClaimedIsSent'
    BY <1>0, <2>1 DEF ClaimedIsSent
  <2>5. CopiesClaimed'
    BY <1>0, <2>1, <2>2 DEF CopiesClaimed
  <2>6. RemovedApart'
    BY <1>0, <2>1, <2>2, Typed DEF RemovedApart
  <2>7. QED
    BY <2>3, <2>4, <2>5, <2>6 DEF IInv
<1>23. QED
  BY <1>1, <1>2, <1>3, <1>4, <1>5, <1>6, <1>7, <1>8, <1>9, <1>10, <1>11, <1>12, <1>13, <1>14, <1>15,
     <1>16, <1>17, <1>18, <1>19, <1>20, <1>21, <1>22 DEF Next, Publish

\* The types, that a claimed post is being sent, that every copy goes back to a claim, and that
\* what was taken off the queue stays off it.
THEOREM ChannelInvariant == Spec => []IInv
<1>1. Init => IInv
  <2> SUFFICES ASSUME Init PROVE IInv
    OBVIOUS
  <2>1. TypeOK
    BY ChannelConstants DEF Init, TypeOK, NoRow, Resting, Rows, HandStates, Statuses, Counters, Messages
  <2>2. \A p \in Posts : Copies(p) = 0 /\ Busy(p) = {} /\ Cardinality(Busy(p)) = 0
    <3> SUFFICES ASSUME NEW p \in Posts
                 PROVE  Copies(p) = 0 /\ Busy(p) = {} /\ Cardinality(Busy(p)) = 0
      OBVIOUS
    <3>1. {i \in DOMAIN channel : channel[i].post = p} = {}
      BY DEF Init
    <3>2. Busy(p) = {}
      BY DEF Init, Resting, Busy
    <3>3. QED
      BY <3>1, <3>2, FS_EmptySet DEF Copies
  <2>3. ClaimedIsSent
    BY DEF Init, ClaimedIsSent, NoRow
  <2>4. CopiesClaimed /\ RemovedApart
    BY <2>2 DEF Init, CopiesClaimed, RemovedApart, Claimed, NoRow
  <2>5. QED
    BY <2>1, <2>3, <2>4 DEF IInv
<1>2. QED
  BY <1>1, InvStep, PTL DEF Spec

\* A post is in the channel once: once more only for a send whose answer was lost, or for a write
\* that revived a post published since it was read.
THEOREM CopiesHaveCause == Spec => []RepeatsHaveCause
<1>1. IInv => RepeatsHaveCause
  <2> SUFFICES ASSUME IInv, NEW p \in Posts
               PROVE  Copies(p) <= 1 + spent.lost + revived
    BY DEF RepeatsHaveCause
  <2>1. Copies(p) + Cardinality(Busy(p)) <= Claimed(p) + spent.lost + revived
    BY DEF IInv, CopiesClaimed
  <2>2. Copies(p) \in Nat /\ Cardinality(Busy(p)) \in Nat /\ spent.lost \in Nat /\ revived \in Nat
    BY CopiesCounted, BusyCounted, Typed DEF IInv
  <2>3. Claimed(p) \in {0, 1}
    BY DEF Claimed
  <2>4. QED
    BY <2>1, <2>2, <2>3
<1>2. QED
  BY <1>1, ChannelInvariant, PTL

\* A post rejected or removed is not in the channel and does not get there.
THEOREM RemovedPostsStayOut == Spec => []RemovedStaysOut
<1>1. IInv => RemovedStaysOut
  BY DEF IInv, RemovedApart, RemovedStaysOut
<1>2. QED
  BY <1>1, ChannelInvariant, PTL
=============================================================================

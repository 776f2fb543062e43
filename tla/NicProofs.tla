------------------------------ MODULE NicProofs -----------------------------
(***************************************************************************)
(* Theorems about the parts of Parts that are drivers of the network       *)
(* interface: its two rings, the registers of the PHY, time stamps.  Each  *)
(* holds for all values of the constants of its part.                      *)
(*                                                                         *)
(* An invariant of a part speaks of the variables of that part alone, and  *)
(* a step of another part leaves those as they are: so it is enough to     *)
(* look at the steps of the part.                                          *)
(***************************************************************************)
EXTENDS Parts, Iteration, FiniteSetTheorems, TLAPS

-----------------------------------------------------------------------------
(* The transmit ring and its buffers                                       *)

\* Places of the ring, without remainders.
TxAfter(d, k) == IF d + k < TxNDesc THEN d + k ELSE d + k - TxNDesc
TxAhead(d, e) == IF e >= d THEN e - d ELSE e - d + TxNDesc

\* The descriptors that wait to be sent are the n ones from h on.
TxWaits(descs, h, n) == \A e \in Tx!Desc : descs[e].ready <=> TxAhead(h, e) < n

\* The descriptor that is filled next.
TxFront == IF xmit.pc = "idle" THEN head ELSE xmit.desc

TxOrder ==
    /\ xmit.pc # "idle" => head = TxAfter(xmit.desc, 1) /\ ~ring[xmit.desc].ready
    /\ \E n \in 0 .. TxNDesc : TxWaits(ring, hw, n) /\ TxFront = TxAfter(hw, n)

\* Where the buffers are: in one slot each, queued to be released, or on the way
\* from one to the other.
TxBuffers ==
    /\ \A d, e \in Tx!Desc :
          slot[d].skb = slot[e].skb /\ slot[d].skb # Tx!NoSkb => d = e
    /\ \A d \in Tx!Desc : slot[d].skb # Tx!NoSkb =>
          /\ slot[d].skb \in held
          /\ slot[d].skb \in freed => xmit.pc = "skb" /\ d = xmit.desc
    /\ IF xmit.pc = "idle" THEN xmit.skb = Tx!NoSkb ELSE xmit.skb \in held
    /\ xmit.pc \in {"test", "discard", "skb"} =>
          xmit.skb \notin freed /\ \A d \in Tx!Desc : slot[d].skb # xmit.skb
    /\ xmit.pc = "skb" => slot[xmit.desc].skb = Tx!NoSkb \/ slot[xmit.desc].skb \in freed
    /\ xmit.pc \in {"id", "fire"} => xmit.skb \in freed \/ slot[xmit.desc].skb = xmit.skb
    /\ Tx!NoLeak

LEMMA TxConstants ==
    /\ TxNDesc \in Nat \ {0} /\ TxIdSpace \in Nat /\ TxMaxRefused \in Nat
    /\ TxIdSpace > TxNDesc * (TxMaxRefused + 1) + 1
    /\ Tx!Skbs = TxPlain \cup TxPtp /\ TxPlain \cap TxPtp = {} /\ Tx!NoSkb \notin Tx!Skbs
BY PartsConstants DEF Tx!ConstantsOK, Tx!Skbs

LEMMA TxIdBound == TxIdSpace > TxNDesc + 1
<1>1. TxNDesc * (TxMaxRefused + 1) >= TxNDesc
  BY TxConstants, Z3
<1>2. TxNDesc * (TxMaxRefused + 1) \in Int
  BY TxConstants, Z3
<1> QED
  BY <1>1, <1>2, TxConstants

LEMMA TxNextDesc ==
    \A d \in Tx!Desc : Tx!NextDesc(d) = TxAfter(d, 1) /\ TxAfter(d, 1) \in Tx!Desc
<1> USE TxConstants
<1> SUFFICES ASSUME NEW d \in Tx!Desc
             PROVE  Tx!NextDesc(d) = TxAfter(d, 1) /\ TxAfter(d, 1) \in Tx!Desc
  OBVIOUS
<1>1. d \in 0 .. TxNDesc - 1 /\ 1 \in 0 .. TxNDesc
  BY DEF Tx!Desc
<1>2. (d + 1) % TxNDesc = TxAfter(d, 1)
  BY <1>1, RingPlus DEF TxAfter
<1> QED
  BY <1>2 DEF TxAfter, Tx!Desc, Tx!NextDesc

\* The descriptor behind those that wait is filled,
LEMMA TxFill ==
    ASSUME NEW before, NEW after, NEW h \in Tx!Desc, NEW n \in 0 .. TxNDesc - 1,
           TxWaits(before, h, n), after[TxAfter(h, n)].ready,
           \A e \in Tx!Desc : e # TxAfter(h, n) => after[e] = before[e]
    PROVE  TxWaits(after, h, n + 1)
<1> USE TxConstants
<1> SUFFICES ASSUME NEW e \in Tx!Desc PROVE after[e].ready <=> TxAhead(h, e) < n + 1
  BY DEF TxWaits
<1>1. TxAhead(h, e) \in Int /\ (e = TxAfter(h, n) <=> TxAhead(h, e) = n)
  BY DEF TxAfter, TxAhead, Tx!Desc
<1>2. CASE e = TxAfter(h, n)
  BY <1>1, <1>2
<1>3. CASE e # TxAfter(h, n)
  <2>1. TxAhead(h, e) < n + 1 <=> TxAhead(h, e) < n
    BY <1>1, <1>3
  <2> QED
    BY <1>3, <2>1 DEF TxWaits
<1> QED
  BY <1>2, <1>3

\* and the first of them is sent.
LEMMA TxDrain ==
    ASSUME NEW before, NEW after, NEW h \in Tx!Desc, NEW n \in 1 .. TxNDesc,
           TxWaits(before, h, n), ~after[h].ready,
           \A e \in Tx!Desc : e # h => after[e] = before[e]
    PROVE  TxWaits(after, TxAfter(h, 1), n - 1) /\ TxAfter(TxAfter(h, 1), n - 1) = TxAfter(h, n)
<1> USE TxConstants
<1>1. ASSUME NEW e \in Tx!Desc PROVE after[e].ready <=> TxAhead(TxAfter(h, 1), e) < n - 1
  <2>1. CASE e = h
    <3>1. TxAhead(TxAfter(h, 1), e) = TxNDesc - 1
      BY <2>1 DEF TxAfter, TxAhead, Tx!Desc
    <3> QED
      BY <2>1, <3>1
  <2>2. CASE e # h
    <3>1. TxAhead(TxAfter(h, 1), e) = TxAhead(h, e) - 1 /\ TxAhead(h, e) \in Int
      BY <2>2 DEF TxAfter, TxAhead, Tx!Desc
    <3>2. TxAhead(TxAfter(h, 1), e) < n - 1 <=> TxAhead(h, e) < n
      BY <3>1
    <3> QED
      BY <2>2, <3>2 DEF TxWaits
  <2> QED
    BY <2>1, <2>2
<1>2. TxAfter(TxAfter(h, 1), n - 1) = TxAfter(h, n)
  BY DEF TxAfter, Tx!Desc
<1> QED
  BY <1>1, <1>2 DEF TxWaits

\* What is in the ring is seen at the NIC's descriptor and at the one that is
\* filled next.
LEMMA TxLook ==
    ASSUME NEW descs, NEW h \in Tx!Desc, NEW n \in 0 .. TxNDesc, TxWaits(descs, h, n)
    PROVE  /\ descs[h].ready <=> n # 0
           /\ descs[TxAfter(h, n)].ready <=> n = TxNDesc
           /\ TxAfter(h, n) \in Tx!Desc
<1> USE TxConstants
<1>1. TxAhead(h, h) = 0 /\ TxAfter(h, n) \in Tx!Desc
      /\ TxAhead(h, TxAfter(h, n)) = IF n = TxNDesc THEN 0 ELSE n
  BY DEF TxAfter, TxAhead, Tx!Desc
<1> QED
  BY <1>1 DEF TxWaits

\* The loop of wrn_tx_interrupt() ends somewhere.
LEMMA TxPassed ==
    ASSUME head \in Tx!Desc, tail \in Tx!Desc
    PROVE  Tx!Passed \in Nat /\ \A k \in Int : Tx!At(k) \in Tx!Desc
<1> USE TxConstants
<1> DEFINE most == (head - tail) % TxNDesc
           Ends == {n \in 0 .. most : n = most \/ ~Tx!Sent(Tx!At(n))}
<1>1. head - tail \in Int /\ head \in Int /\ tail \in Int
  BY DEF Tx!Desc
<1>2. most \in 0 .. TxNDesc - 1
  BY <1>1, Division
<1>3. ASSUME NEW k \in Int PROVE Tx!At(k) \in Tx!Desc
  <2>1. tail + k \in Int
    BY <1>1
  <2>2. (tail + k) % TxNDesc \in 0 .. TxNDesc - 1
    BY <2>1, Division
  <2> QED
    BY <2>2 DEF Tx!At, Tx!Desc
<1> HIDE DEF most
<1>4. PICK n \in Ends : \A m \in Ends : n <= m
  <2>1. most \in Ends /\ Ends \subseteq Nat
    BY <1>2
  <2> HIDE DEF Ends
  <2> QED
    BY <2>1, LeastNumber
<1>5. ASSUME NEW k \in 0 .. n - 1 PROVE Tx!Sent(Tx!At(k))
  BY <1>2, <1>4
<1>6. /\ n \in 0 .. most
      /\ \A k \in 0 .. n - 1 : Tx!Sent(Tx!At(k))
      /\ n = most \/ ~Tx!Sent(Tx!At(n))
  BY <1>4, <1>5
<1>7. Tx!Passed \in 0 .. most
  BY <1>6 DEF Tx!Passed, most
<1> QED
  BY <1>2, <1>3, <1>7

\* How many ids have been given since id was, and for how many frames, at most, the
\* slot d has been as it is; c is the next id.
TxBack(c, id) == IF id < c THEN c - id ELSE c - id + TxIdSpace - 1
TxLastId == TxIdSpace - 1
TxAge(h, d) == IF d < h THEN h - d ELSE h - d + TxNDesc

\* The ids that may be spent for so many frames.
TxMost == [k \in 1 .. TxNDesc + 1 |-> (k - 1) * (TxMaxRefused + 1) + 1]

\* Ids of slots, 0 being none: the older the slot, the older is its id, and none is
\* so old that it is given again.
TxIds(slots1, ages, c, r) ==
    /\ \A d \in Tx!Desc : slots1[d].id # 0 => TxBack(c, slots1[d].id) <= TxMost[ages[d]] + r
    /\ \A d, e \in Tx!Desc :
          slots1[d].id # 0 /\ slots1[e].id # 0 /\ ages[d] < ages[e] =>
              TxBack(c, slots1[d].id) < TxBack(c, slots1[e].id)

\* While wrn_start_xmit() runs, its slot is still that of the former frame.
TxAges ==
    [d \in Tx!Desc |->
        IF xmit.pc \in {"test", "discard", "skb", "id"} /\ d = xmit.desc THEN TxNDesc + 1
                                                                         ELSE TxAge(head, d)]

TxNumbers ==
    /\ TxIds(slot, TxAges, Tx!TakeId, refused)
    /\ xmit.pc # "idle" => xmit.id # 0 /\ TxBack(Tx!TakeId, xmit.id) = 1
    /\ xmit.pc \in {"test", "discard", "skb", "id"} =>
          \A d \in Tx!Desc : slot[d].id # 0 => TxBack(Tx!TakeId, slot[d].id) > 1

LEMMA TxMostStep ==
    /\ TxMost[1] = 1
    /\ \A k \in 1 .. TxNDesc :
          /\ TxMost[k] \in Int
          /\ TxMost[k + 1] = TxMost[k] + TxMaxRefused + 1
          /\ TxMost[k] + TxMaxRefused < TxLastId
<1> USE TxConstants
<1>1. TxMost[1] = 1
  <2>1. 1 \in 1 .. TxNDesc + 1 /\ (1 - 1) * (TxMaxRefused + 1) = 0
    BY Z3
  <2> QED
    BY <2>1 DEF TxMost
<1>2. ASSUME NEW k \in 1 .. TxNDesc
      PROVE  /\ TxMost[k] \in Int
             /\ TxMost[k + 1] = TxMost[k] + TxMaxRefused + 1
             /\ TxMost[k] + TxMaxRefused < TxLastId
  <2>1. PICK m \in Int : m = (k - 1) * (TxMaxRefused + 1)
    BY Z3
  <2>2. PICK top \in Int : top = TxNDesc * (TxMaxRefused + 1)
    BY Z3
  <2>3. m + TxMaxRefused + 1 <= top /\ k * (TxMaxRefused + 1) = m + TxMaxRefused + 1
    BY <2>1, <2>2, Z3
  <2>4. k \in 1 .. TxNDesc + 1 /\ k + 1 \in 1 .. TxNDesc + 1 /\ (k + 1) - 1 = k
    OBVIOUS
  <2>5. TxMost[k] = m + 1 /\ TxMost[k + 1] = m + TxMaxRefused + 1 + 1
    BY <2>1, <2>3, <2>4 DEF TxMost
  <2>6. TxIdSpace > top + 1
    BY <2>2
  <2> QED
    BY <2>3, <2>5, <2>6 DEF TxLastId
<1> QED
  BY <1>1, <1>2

\* The next id, and the one after it.
LEMMA TxTakeId ==
    ASSUME nextId \in 0 .. TxLastId
    PROVE  /\ Tx!TakeId \in 1 .. TxLastId
           /\ (Tx!TakeId + 1) % TxIdSpace = IF Tx!TakeId = TxLastId THEN 0 ELSE Tx!TakeId + 1
<1> USE TxConstants, TxIdBound
<1>1. Tx!TakeId \in 1 .. TxLastId
  BY DEF Tx!TakeId, TxLastId
<1> DEFINE c == Tx!TakeId
<1> HIDE DEF c
<1>2. c \in 0 .. TxIdSpace - 1 /\ 1 \in 0 .. TxIdSpace /\ TxIdSpace \in Nat \ {0}
  BY <1>1 DEF c, TxLastId
<1>3. (c + 1) % TxIdSpace = IF c + 1 < TxIdSpace THEN c + 1 ELSE c + 1 - TxIdSpace
  BY <1>2, RingPlus
<1>4. (c + 1) % TxIdSpace = IF c = TxLastId THEN 0 ELSE c + 1
  BY <1>2, <1>3 DEF TxLastId
<1> QED
  BY <1>1, <1>4 DEF c

\* Every id is one older when an id is given.
LEMMA TxOlder ==
    ASSUME NEW c \in 1 .. TxLastId, NEW e, e = IF c = TxLastId THEN 1 ELSE c + 1
    PROVE  /\ TxBack(e, c) = 1
           /\ \A id \in 1 .. TxLastId :
                 TxBack(c, id) < TxLastId => TxBack(e, id) = TxBack(c, id) + 1
           /\ \A id \in 1 .. TxLastId : TxBack(c, id) \in 1 .. TxLastId
BY TxConstants, TxIdBound DEF TxBack, TxLastId

\* A refused transmission spends an id; one that is accepted makes all slots older.
LEMMA TxSpend ==
    ASSUME NEW slots1, \A d \in Tx!Desc : slots1[d].id \in 0 .. TxLastId,
           NEW ages \in [Tx!Desc -> 1 .. TxNDesc],
           NEW c \in 1 .. TxLastId, NEW e, e = IF c = TxLastId THEN 1 ELSE c + 1,
           NEW r \in 0 .. TxMaxRefused, TxIds(slots1, ages, c, r)
    PROVE  /\ TxIds(slots1, ages, e, r + 1)
           /\ \A older \in [Tx!Desc -> 1 .. TxNDesc + 1] :
                 (\A d \in Tx!Desc : older[d] = ages[d] + 1) => TxIds(slots1, older, e, 0)
           /\ \A d \in Tx!Desc : slots1[d].id # 0 => TxBack(e, slots1[d].id) > 1
<1> USE TxConstants
<1>1. ASSUME NEW d \in Tx!Desc, slots1[d].id # 0
      PROVE  /\ TxBack(c, slots1[d].id) \in 1 .. TxLastId
             /\ TxBack(c, slots1[d].id) <= TxMost[ages[d]] + r
             /\ TxBack(e, slots1[d].id) = TxBack(c, slots1[d].id) + 1
  <2>1. slots1[d].id \in 1 .. TxLastId
    BY <1>1
  <2>2. TxBack(c, slots1[d].id) \in 1 .. TxLastId
          /\ TxBack(c, slots1[d].id) <= TxMost[ages[d]] + r
    BY <1>1, <2>1, TxOlder DEF TxIds
  <2>3. TxMost[ages[d]] \in Int /\ TxMost[ages[d]] + TxMaxRefused < TxLastId
    BY TxMostStep
  <2>4. TxLastId \in Int
    BY DEF TxLastId
  <2>5. TxBack(c, slots1[d].id) < TxLastId
    BY <2>2, <2>3, <2>4
  <2> QED
    BY <2>1, <2>2, <2>5, TxOlder
<1> DEFINE old(d) == TxBack(c, slots1[d].id)
           new(d) == TxBack(e, slots1[d].id)
<1>2. ASSUME NEW d \in Tx!Desc, NEW f \in Tx!Desc, slots1[d].id # 0, slots1[f].id # 0,
             ages[d] < ages[f]
      PROVE  new(d) < new(f)
  <2>1. old(d) < old(f)
    BY <1>2 DEF TxIds
  <2>2. old(d) \in Int /\ old(f) \in Int /\ new(d) = old(d) + 1 /\ new(f) = old(f) + 1
    BY <1>1, <1>2
  <2> HIDE DEF old, new
  <2> QED
    BY <2>1, <2>2
<1>3. ASSUME NEW d \in Tx!Desc, slots1[d].id # 0
      PROVE  /\ new(d) <= TxMost[ages[d]] + (r + 1) /\ new(d) > 1
             /\ new(d) <= TxMost[ages[d] + 1] + 0
  <2>1. old(d) \in Int /\ old(d) >= 1 /\ new(d) = old(d) + 1 /\ old(d) <= TxMost[ages[d]] + r
    BY <1>1, <1>3
  <2>2. ages[d] \in 1 .. TxNDesc
    OBVIOUS
  <2>3. TxMost[ages[d]] \in Int /\ TxMost[ages[d] + 1] = TxMost[ages[d]] + TxMaxRefused + 1
    BY <2>2, TxMostStep
  <2> HIDE DEF old, new
  <2> QED
    BY <2>1, <2>3
<1>4. TxIds(slots1, ages, e, r + 1)
  BY <1>2, <1>3 DEF TxIds
<1>5. ASSUME NEW older \in [Tx!Desc -> 1 .. TxNDesc + 1], \A d \in Tx!Desc :
               older[d] = ages[d] + 1
      PROVE  TxIds(slots1, older, e, 0)
  <2>1. \A d, f \in Tx!Desc : older[d] < older[f] => ages[d] < ages[f]
    <3> SUFFICES ASSUME NEW d \in Tx!Desc, NEW f \in Tx!Desc, older[d] < older[f]
                 PROVE  ages[d] < ages[f]
      OBVIOUS
    <3>1. ages[d] \in Int /\ ages[f] \in Int /\ older[d] = ages[d] + 1 /\ older[f] = ages[f] + 1
      BY <1>5
    <3> QED
      BY <3>1
  <2> QED
    BY <1>2, <1>3, <1>5, <2>1 DEF TxIds
<1> QED
  BY <1>3, <1>4, <1>5

\* The slot of the transmission is given the id of its frame, the youngest one.
LEMMA TxStoreId ==
    ASSUME NEW slots1, NEW slots2, NEW ages, NEW younger \in [Tx!Desc -> 1 .. TxNDesc],
           NEW c, NEW r \in Nat, TxIds(slots1, ages, c, r), NEW k \in Tx!Desc,
           TxBack(c, slots2[k].id) = 1, younger[k] = 1,
           \A d \in Tx!Desc \ {k} :
               slots2[d].id = slots1[d].id /\ younger[d] = ages[d],
           \A d \in Tx!Desc : slots1[d].id # 0 => TxBack(c, slots1[d].id) > 1
    PROVE  TxIds(slots2, younger, c, r)
<1>1. ASSUME NEW d \in Tx!Desc, slots2[d].id # 0
      PROVE  TxBack(c, slots2[d].id) <= TxMost[younger[d]] + r
  <2>1. CASE d = k
    BY <2>1, TxMostStep
  <2>2. CASE d # k
    BY <1>1, <2>2 DEF TxIds
  <2> QED
    BY <2>1, <2>2
<1>2. ASSUME NEW d \in Tx!Desc, NEW e \in Tx!Desc, slots2[d].id # 0, slots2[e].id # 0,
             younger[d] < younger[e]
      PROVE  TxBack(c, slots2[d].id) < TxBack(c, slots2[e].id)
  <2>1. e # k
    <3>1. younger[d] \in 1 .. TxNDesc /\ younger[e] \in 1 .. TxNDesc
      OBVIOUS
    <3> QED
      BY <3>1, <1>2
  <2>2. CASE d = k
    BY <1>2, <2>1, <2>2
  <2>3. CASE d # k
    BY <1>2, <2>1, <2>3 DEF TxIds
  <2> QED
    BY <2>2, <2>3
<1> QED
  BY <1>1, <1>2 DEF TxIds

\* No two slots have the same id.
LEMMA TxIdsDiffer ==
    ASSUME NEW slots1, NEW ages \in [Tx!Desc -> Int], NEW c, NEW r, TxIds(slots1, ages, c, r),
           \A d \in Tx!Desc : slots1[d].id # 0 => TxBack(c, slots1[d].id) \in Int,
           \A d, e \in Tx!Desc : ages[d] = ages[e] => d = e,
           NEW d \in Tx!Desc, NEW e \in Tx!Desc, slots1[d].id = slots1[e].id, slots1[d].id # 0
    PROVE  d = e
<1>1. ages[d] \in Int /\ ages[e] \in Int /\ TxBack(c, slots1[d].id) \in Int
  OBVIOUS
<1>2. ~(ages[d] < ages[e]) /\ ~(ages[e] < ages[d])
  BY <1>1 DEF TxIds
<1> QED
  BY <1>1, <1>2

\* A time stamp waits for its frame in a slot that was sent and is not in use again.
TxAwaits(t, d) ==
    /\ slot[d].skb = t.skb /\ slot[d].id = t.id /\ t.id # 0
    /\ ~ring[d].ready /\ (xmit.pc = "idle" \/ d # xmit.desc)

TxMarks ==
    /\ \A d \in Tx!Desc : ring[d].ready /\ ring[d].skb \in TxPtp =>
          slot[d].skb = ring[d].skb /\ slot[d].id = ring[d].id /\ ring[d].id # 0
    /\ \A t \in stamps : \E d \in Tx!Desc : TxAwaits(t, d)
    /\ xmit.pc \in {"id", "fire"} /\ xmit.skb \in TxPtp => slot[xmit.desc].skb = xmit.skb
    /\ xmit.pc = "fire" => slot[xmit.desc].id = xmit.id

TxInv == Tx!TypeOK /\ TxOrder /\ TxBuffers /\ TxNumbers /\ TxMarks

LEMMA TxAgesDiffer ==
    ASSUME Tx!TypeOK, TxOrder
    PROVE  /\ TxAges \in [Tx!Desc -> 1 .. TxNDesc + 1]
           /\ \A d, e \in Tx!Desc : TxAges[d] = TxAges[e] => d = e
           /\ xmit.pc \in {"idle", "fire"} => TxAges \in [Tx!Desc -> 1 .. TxNDesc]
<1> USE TxConstants
<1>1. ASSUME NEW d \in Tx!Desc PROVE TxAge(head, d) \in 1 .. TxNDesc
  BY DEF Tx!TypeOK, Tx!Desc, TxAge
<1>2. ASSUME NEW d \in Tx!Desc, NEW e \in Tx!Desc, TxAge(head, d) = TxAge(head, e)
      PROVE  d = e
  BY <1>2 DEF Tx!TypeOK, Tx!Desc, TxAge
<1>3. \A d \in Tx!Desc : TxAge(head, d) # TxNDesc + 1
  BY <1>1
<1>4. ASSUME NEW d \in Tx!Desc PROVE TxAges[d] \in 1 .. TxNDesc + 1
  BY <1>1 DEF TxAges
<1> QED
  BY <1>1, <1>2, <1>3, <1>4 DEF TxAges

\* The ids of slots differ, so that the one that matches a time stamp is its own.
LEMMA TxMatch ==
    ASSUME TxInv, NEW t \in stamps, NEW d \in Tx!Desc, TxAwaits(t, d)
    PROVE  Tx!Matching(t.id) = {d} /\ Tx!FirstOf(Tx!Matching(t.id)) = d
<1> USE TxConstants
<1>1. Tx!TypeOK /\ TxOrder /\ TxIds(slot, TxAges, Tx!TakeId, refused)
  BY DEF TxInv, TxNumbers
<1>2. t.skb # Tx!NoSkb
  BY <1>1 DEF Tx!TypeOK
<1>3. \A e \in Tx!Desc : slot[e].id # 0 => TxBack(Tx!TakeId, slot[e].id) \in Int
  <2> SUFFICES ASSUME NEW e \in Tx!Desc, slot[e].id # 0
               PROVE  TxBack(Tx!TakeId, slot[e].id) \in Int
    OBVIOUS
  <2>1. nextId \in 0 .. TxLastId /\ slot[e].id \in 1 .. TxLastId
    BY <1>1, TxIdBound DEF Tx!TypeOK, TxLastId
  <2>2. Tx!TakeId \in 1 .. TxLastId
    BY <2>1, TxTakeId
  <2> QED
    BY <2>1, <2>2 DEF TxBack, TxLastId
<1>4. TxAges \in [Tx!Desc -> Int] /\ \A e, f \in Tx!Desc : TxAges[e] = TxAges[f] => e = f
  BY <1>1, TxAgesDiffer
<1>5. ASSUME NEW e \in Tx!Desc, slot[e].id = t.id PROVE e = d
  BY <1>1, <1>3, <1>4, <1>5, TxIdsDiffer DEF TxAwaits
<1>6. Tx!Matching(t.id) = {d}
  BY <1>2, <1>5 DEF Tx!Matching, TxAwaits
<1>7. d <= d
  BY DEF Tx!Desc
<1> QED
  BY <1>6, <1>7 DEF Tx!FirstOf

\* What the two interrupt handlers do: slots are cleared and their buffers freed,
\* but none with a frame that waits for a time stamp, unless its time stamp goes too.
TxClears(P) ==
    /\ P \subseteq Tx!Desc
    /\ \A d \in P : /\ slot[d].skb # Tx!NoSkb
                    /\ \A t \in stamps' : slot[d].skb # t.skb
                    /\ \/ slot[d].skb \in TxPlain
                       \/ ~ring[d].ready /\ (xmit.pc = "idle" \/ d # xmit.desc)
    /\ slot' = [d \in Tx!Desc |-> IF d \in P THEN [skb |-> Tx!NoSkb, id |-> slot[d].id]
                                             ELSE slot[d]]
    /\ freed' = freed \cup {slot[d].skb : d \in P}
    /\ stamps' \subseteq stamps
    /\ tail' \in Tx!Desc /\ irq' \in {"idle", "ack"}
    /\ UNCHANGED <<ring, head, nextId, hw, tcomp, xmit, held, refused>>

LEMMA TxInterruptClears ==
    ASSUME TxInv, Tx!TxInterrupt
    PROVE  \E P : TxClears(P)
<1> USE TxConstants
<1>t. Tx!TypeOK
  BY DEF TxInv
<1>1. PICK places \in SUBSET Int : places = 0 .. Tx!Passed - 1
  <2>1. Tx!Passed \in Nat
    BY <1>t, TxPassed DEF Tx!TypeOK
  <2> QED
    BY <2>1
<1>2. PICK passed \in SUBSET Tx!Desc : passed = {Tx!At(k) : k \in 0 .. Tx!Passed - 1}
  <2>1. ASSUME NEW k \in 0 .. Tx!Passed - 1 PROVE Tx!At(k) \in Tx!Desc
    <3>1. k \in Int
      BY <1>1
    <3> QED
      BY <3>1, <1>t, TxPassed DEF Tx!TypeOK
  <2>2. {Tx!At(k) : k \in 0 .. Tx!Passed - 1} \subseteq Tx!Desc
    BY <2>1, Zenon
  <2> QED
    BY <2>2, Zenon
<1>3. PICK P : P = {d \in passed : slot[d].skb \in TxPlain}
  OBVIOUS
<1>4. /\ slot' = [d \in Tx!Desc |-> IF d \in P THEN [slot[d] EXCEPT !.skb = Tx!NoSkb]
                                               ELSE slot[d]]
      /\ freed' = freed \cup {slot[d].skb : d \in P}
      /\ tail' = Tx!At(Tx!Passed) /\ irq' = "ack"
      /\ UNCHANGED <<ring, head, nextId, hw, tcomp, stamps, xmit, held, refused>>
  BY <1>2, <1>3 DEF Tx!TxInterrupt
<1>5. ASSUME NEW d \in Tx!Desc
      PROVE  [slot[d] EXCEPT !.skb = Tx!NoSkb] = [skb |-> Tx!NoSkb, id |-> slot[d].id]
  <2>1. slot[d] \in [skb : Tx!Skbs \cup {Tx!NoSkb}, id : 0 .. TxIdSpace - 1]
    BY <1>t DEF Tx!TypeOK
  <2> QED
    BY <2>1
<1>6. slot' = [d \in Tx!Desc |-> IF d \in P THEN [skb |-> Tx!NoSkb, id |-> slot[d].id]
                                            ELSE slot[d]]
  BY <1>4, <1>5
<1>7. tail' \in Tx!Desc
  <2>1. Tx!Passed \in Nat /\ \A k \in Int : Tx!At(k) \in Tx!Desc
    BY <1>t, TxPassed DEF Tx!TypeOK
  <2> QED
    BY <2>1, <1>4
<1>8. \A d \in P : d \in Tx!Desc /\ slot[d].skb \in TxPlain
  BY <1>3
<1>9. \A t \in stamps : t.skb \in TxPtp
  BY <1>t DEF Tx!TypeOK
<1>10. P \subseteq Tx!Desc
       /\ \A d \in P : /\ slot[d].skb # Tx!NoSkb /\ slot[d].skb \in TxPlain
                       /\ \A t \in stamps' : slot[d].skb # t.skb
  BY <1>4, <1>8, <1>9
<1> HIDE <1>2, <1>3, <1>5
<1>11. TxClears(P)
  BY <1>4, <1>6, <1>7, <1>10 DEF TxClears
<1> QED
  BY <1>11

LEMMA TxStampClears ==
    ASSUME TxInv, Tx!StampInterrupt
    PROVE  \E P : TxClears(P)
<1> USE TxConstants
<1>t. Tx!TypeOK /\ TxMarks
  BY DEF TxInv
<1>1. PICK t \in stamps :
          /\ stamps' = stamps \ {t}
          /\ IF Tx!Matching(t.id) = {}
             THEN UNCHANGED <<slot, freed>>
             ELSE LET d == Tx!FirstOf(Tx!Matching(t.id))
                  IN  /\ freed' = freed \cup {slot[d].skb}
                      /\ slot' = [slot EXCEPT ![d].skb = Tx!NoSkb]
  BY DEF Tx!StampInterrupt
<1>2. UNCHANGED <<ring, head, tail, nextId, hw, tcomp, irq, xmit, held, refused>>
  BY DEF Tx!StampInterrupt
<1>3. PICK d \in Tx!Desc : TxAwaits(t, d)
  BY <1>t DEF TxMarks
<1>4. Tx!Matching(t.id) = {d} /\ Tx!FirstOf(Tx!Matching(t.id)) = d
  BY <1>3, TxMatch
<1>5. freed' = freed \cup {slot[d].skb} /\ slot' = [slot EXCEPT ![d].skb = Tx!NoSkb]
  BY <1>1, <1>4
<1>6. slot' = [e \in Tx!Desc |-> IF e \in {d} THEN [skb |-> Tx!NoSkb, id |-> slot[e].id]
                                              ELSE slot[e]]
  <2>1. slot \in [Tx!Desc -> [skb : Tx!Skbs \cup {Tx!NoSkb}, id : 0 .. TxIdSpace - 1]]
    BY <1>t DEF Tx!TypeOK
  <2>2. [slot[d] EXCEPT !.skb = Tx!NoSkb] = [skb |-> Tx!NoSkb, id |-> slot[d].id]
    BY <2>1
  <2>3. slot' = [slot EXCEPT ![d] = [skb |-> Tx!NoSkb, id |-> slot[d].id]]
    BY <1>5, <2>2
  <2> QED
    BY <2>1, <2>3
<1>7. freed' = freed \cup {slot[e].skb : e \in {d}}
  BY <1>5
<1>8. slot[d].skb # Tx!NoSkb
  BY <1>3, <1>t DEF Tx!TypeOK, TxAwaits
<1>9. ASSUME NEW u \in stamps, u # t PROVE slot[d].skb # u.skb
  <2>1. PICK e \in Tx!Desc : TxAwaits(u, e)
    BY <1>t DEF TxMarks
  <2>2. e # d
    <3>1. ASSUME e = d PROVE u = t
      <4>1. u.id = t.id /\ u.skb = t.skb
        BY <2>1, <1>3, <3>1 DEF TxAwaits
      <4>2. u = [id |-> u.id, skb |-> u.skb] /\ t = [id |-> t.id, skb |-> t.skb]
        BY <1>t DEF Tx!TypeOK
      <4> QED
        BY <4>1, <4>2
    <3> QED
      BY <3>1, <1>9
  <2> QED
    BY <2>1, <2>2, <1>8 DEF TxInv, TxBuffers, TxAwaits
<1>10. tail \in Tx!Desc /\ irq \in {"idle", "ack"}
  BY <1>t DEF Tx!TypeOK
<1>11. \A u \in stamps' : slot[d].skb # u.skb
  BY <1>1, <1>9
<1>12. TxClears({d})
  BY <1>1, <1>2, <1>3, <1>6, <1>7, <1>8, <1>10, <1>11 DEF TxClears, TxAwaits
<1> QED
  BY <1>12

LEMMA TxNextTake ==
    ASSUME Tx!TypeOK, nextId' = (Tx!TakeId + 1) % TxIdSpace
    PROVE  /\ Tx!TakeId \in 1 .. TxLastId /\ nextId' \in 0 .. TxLastId
           /\ Tx!TakeId' = IF Tx!TakeId = TxLastId THEN 1 ELSE Tx!TakeId + 1
<1>1. nextId \in 0 .. TxLastId
  BY DEF Tx!TypeOK, TxLastId
<1>2. Tx!TakeId \in 1 .. TxLastId /\ nextId' = IF Tx!TakeId = TxLastId THEN 0 ELSE Tx!TakeId + 1
  BY <1>1, TxTakeId
<1>3. Tx!TakeId' = IF nextId' = 0 THEN 1 ELSE nextId'
  BY DEF Tx!TakeId
<1>4. TxLastId \in Int
  BY TxConstants DEF TxLastId
<1> QED
  BY <1>2, <1>3, <1>4

\* The ids of the slots are what they were.
LEMMA TxSameIds ==
    ASSUME TxNumbers, UNCHANGED <<nextId, refused>>, TxAges' = TxAges,
           \A d \in Tx!Desc : slot'[d].id = slot[d].id
    PROVE  TxIds(slot, TxAges, Tx!TakeId, refused)' /\ Tx!TakeId' = Tx!TakeId
<1>1. Tx!TakeId' = Tx!TakeId
  BY DEF Tx!TakeId
<1> QED
  BY <1>1 DEF TxNumbers, TxIds

LEMMA TxRefuseKeeps ==
    ASSUME TxInv, Tx!Refuse
    PROVE  TxInv'
<1> USE TxConstants
<1>t. Tx!TypeOK /\ TxOrder /\ TxBuffers /\ TxNumbers /\ TxMarks
  BY DEF TxInv
<1>1. /\ xmit.pc = "idle" /\ refused < TxMaxRefused /\ refused' = refused + 1
      /\ nextId' = (Tx!TakeId + 1) % TxIdSpace
      /\ UNCHANGED <<ring, slot, head, tail, hw, tcomp, irq, stamps, xmit, held, freed>>
  BY DEF Tx!Refuse, Tx!Running
<1>2. /\ Tx!TakeId \in 1 .. TxLastId /\ nextId' \in 0 .. TxLastId
      /\ Tx!TakeId' = IF Tx!TakeId = TxLastId THEN 1 ELSE Tx!TakeId + 1
  BY <1>t, <1>1, TxNextTake
<1>3. Tx!TypeOK'
  <2>1. nextId' \in 0 .. TxIdSpace - 1 /\ refused' \in 0 .. TxMaxRefused
    BY <1>1, <1>2, <1>t DEF TxLastId, Tx!TypeOK
  <2> QED
    BY <1>1, <1>t, <2>1 DEF Tx!TypeOK
<1>4. TxOrder'
  BY <1>1, <1>t DEF TxOrder, TxWaits, TxFront
<1>5. TxBuffers'
  BY <1>1, <1>t DEF TxBuffers, Tx!NoLeak
<1>6. TxNumbers'
  <2>1. TxAges' = TxAges
    BY <1>1 DEF TxAges
  <2>2. TxAges \in [Tx!Desc -> 1 .. TxNDesc]
    BY <1>1, <1>t, TxAgesDiffer
  <2>3. \A d \in Tx!Desc : slot[d].id \in 0 .. TxLastId
    BY <1>t DEF Tx!TypeOK, TxLastId
  <2>4. refused \in 0 .. TxMaxRefused /\ TxIds(slot, TxAges, Tx!TakeId, refused)
    BY <1>t DEF Tx!TypeOK, TxNumbers
  <2>5. TxIds(slot, TxAges, Tx!TakeId', refused + 1)
    BY <1>2, <2>2, <2>3, <2>4, TxSpend
  <2>6. TxIds(slot, TxAges, Tx!TakeId, refused)'
    BY <1>1, <2>1, <2>5 DEF TxIds
  <2> QED
    BY <1>1, <2>6 DEF TxNumbers
<1>7. TxMarks'
  BY <1>1, <1>t DEF TxMarks, TxAwaits
<1> QED
  BY <1>3, <1>4, <1>5, <1>6, <1>7 DEF TxInv

LEMMA TxAllocKeeps ==
    ASSUME TxInv, NEW s \in Tx!Skbs, Tx!Alloc(s)
    PROVE  TxInv'
<1> USE TxConstants
<1>t. Tx!TypeOK /\ TxOrder /\ TxBuffers /\ TxNumbers /\ TxMarks
  BY DEF TxInv
<1>1. /\ xmit.pc = "idle" /\ ~ring[head].ready /\ s \notin held
      /\ head' = Tx!NextDesc(head) /\ nextId' = (Tx!TakeId + 1) % TxIdSpace
      /\ xmit' = [pc |-> "test", skb |-> s, desc |-> head, id |-> Tx!TakeId]
      /\ held' = held \cup {s}
      /\ stamps' = {t \in stamps : t.skb # slot[head].skb}
      /\ refused' = 0
      /\ UNCHANGED <<ring, slot, tail, hw, tcomp, irq, freed>>
  BY DEF Tx!Alloc, Tx!Running
<1>2. /\ Tx!TakeId \in 1 .. TxLastId /\ nextId' \in 0 .. TxLastId
      /\ Tx!TakeId' = IF Tx!TakeId = TxLastId THEN 1 ELSE Tx!TakeId + 1
  BY <1>t, <1>1, TxNextTake
<1>3. head \in Tx!Desc /\ head' = TxAfter(head, 1) /\ head' \in Tx!Desc
  BY <1>t, <1>1, TxNextDesc DEF Tx!TypeOK
<1>4. Tx!TypeOK'
  <2>1. nextId' \in 0 .. TxIdSpace - 1 /\ refused' \in 0 .. TxMaxRefused
        /\ Tx!TakeId \in 0 .. TxIdSpace - 1
    BY <1>1, <1>2, <1>t DEF TxLastId
  <2>2. xmit' \in [pc : {"idle", "test", "discard", "skb", "id", "fire"},
                   skb : Tx!Skbs \cup {Tx!NoSkb}, desc : Tx!Desc, id : 0 .. TxIdSpace - 1]
    BY <1>1, <1>3, <2>1
  <2> QED
    BY <1>1, <1>3, <1>t, <2>1, <2>2 DEF Tx!TypeOK
<1>5. TxOrder'
  <2>1. TxFront' = TxFront
    BY <1>1 DEF TxFront
  <2> QED
    BY <1>1, <1>3, <1>t, <2>1 DEF TxOrder, TxWaits
<1>6. TxBuffers'
  <2>1. s \notin freed /\ \A d \in Tx!Desc : slot[d].skb # s
    <3>1. s # Tx!NoSkb /\ freed \subseteq held
      BY <1>t DEF Tx!TypeOK
    <3> QED
      BY <3>1, <1>1, <1>t DEF TxBuffers
  <2>2. xmit'.pc = "test" /\ xmit'.skb = s
    BY <1>1
  <2>3. Tx!NoLeak'
    <3>1. \A q \in held : q \in freed \/ \E d \in Tx!Desc : slot[d].skb = q
      <4>1. xmit.skb = Tx!NoSkb /\ Tx!NoSkb \notin held
        BY <1>1, <1>t DEF TxBuffers, Tx!TypeOK
      <4> QED
        BY <4>1, <1>t DEF TxBuffers, Tx!NoLeak
    <3> QED
      BY <1>1, <2>2, <3>1 DEF Tx!NoLeak
  <2>4. \A d \in Tx!Desc : slot[d].skb # Tx!NoSkb => slot[d].skb \in held
          /\ slot[d].skb \notin freed
    BY <1>1, <1>t DEF TxBuffers
  <2> QED
    BY <1>1, <1>t, <2>1, <2>2, <2>3, <2>4 DEF TxBuffers
<1>7. TxNumbers'
  <2>1. TxAges \in [Tx!Desc -> 1 .. TxNDesc]
    BY <1>1, <1>t, TxAgesDiffer
  <2>3. ASSUME NEW d \in Tx!Desc PROVE TxAges'[d] = TxAges[d] + 1
    <3>1. CASE d = head
      BY <1>1, <1>3, <3>1 DEF TxAges, TxAge, Tx!Desc
    <3>2. CASE d # head
      <4>1. TxAges'[d] = TxAge(TxAfter(head, 1), d) /\ TxAges[d] = TxAge(head, d)
        BY <1>1, <1>3, <3>2 DEF TxAges
      <4> QED
        BY <1>3, <3>2, <4>1 DEF TxAge, TxAfter, Tx!Desc
    <3> QED
      BY <3>1, <3>2
  <2>2. TxAges' \in [Tx!Desc -> 1 .. TxNDesc + 1]
    <3>1. TxAges' = [d \in Tx!Desc |-> TxAges'[d]]
      BY DEF TxAges
    <3>2. \A d \in Tx!Desc : TxAges[d] + 1 \in 1 .. TxNDesc + 1
      BY <2>1
    <3> QED
      BY <2>3, <3>1, <3>2
  <2>4. \A d \in Tx!Desc : slot[d].id \in 0 .. TxLastId
    BY <1>t DEF Tx!TypeOK, TxLastId
  <2>5. refused \in 0 .. TxMaxRefused /\ TxIds(slot, TxAges, Tx!TakeId, refused)
    BY <1>t DEF Tx!TypeOK, TxNumbers
  <2>6. /\ TxIds(slot, TxAges', Tx!TakeId', 0)
        /\ \A d \in Tx!Desc : slot[d].id # 0 => TxBack(Tx!TakeId', slot[d].id) > 1
    BY <1>2, <2>1, <2>2, <2>3, <2>4, <2>5, TxSpend
  <2>7. TxBack(Tx!TakeId', Tx!TakeId) = 1 /\ Tx!TakeId # 0
    BY <1>2, TxOlder
  <2>8. TxIds(slot, TxAges, Tx!TakeId, refused)'
    BY <1>1, <2>6 DEF TxIds
  <2>9. xmit'.id = Tx!TakeId
    BY <1>1
  <2> QED
    BY <1>1, <2>6, <2>7, <2>8, <2>9 DEF TxNumbers
<1>8. TxMarks'
  <2>1. ASSUME NEW t \in stamps' PROVE \E d \in Tx!Desc : TxAwaits(t, d)'
    <3>1. PICK d \in Tx!Desc : TxAwaits(t, d)
      BY <1>1, <1>t DEF TxMarks
    <3>2. d # head
      BY <1>1, <3>1 DEF TxAwaits
    <3>3. TxAwaits(t, d)'
      BY <1>1, <3>1, <3>2 DEF TxAwaits
    <3> QED
      BY <3>3
  <2> QED
    BY <1>1, <1>t, <2>1 DEF TxMarks
<1> QED
  BY <1>4, <1>5, <1>6, <1>7, <1>8 DEF TxInv

LEMMA TxTestKeeps ==
    ASSUME TxInv, Tx!Test
    PROVE  TxInv'
<1> USE TxConstants
<1>t. Tx!TypeOK /\ TxOrder /\ TxBuffers /\ TxNumbers /\ TxMarks
  BY DEF TxInv
<1>0. PICK pc \in {"discard", "skb"} : pc = IF slot[xmit.desc].skb # Tx!NoSkb
        THEN "discard" ELSE "skb"
  OBVIOUS
<1>1. /\ xmit.pc = "test" /\ xmit' = [xmit EXCEPT !.pc = pc]
      /\ UNCHANGED <<ring, slot, head, tail, nextId, hw, tcomp, irq, stamps, held, freed,
           refused>>
  BY <1>0 DEF Tx!Test, Tx!Running
<1>2. /\ xmit' \in [pc : {"idle", "test", "discard", "skb", "id", "fire"},
                    skb : Tx!Skbs \cup {Tx!NoSkb}, desc : Tx!Desc, id : 0 .. TxIdSpace - 1]
      /\ xmit'.pc = pc /\ xmit'.skb = xmit.skb /\ xmit'.desc = xmit.desc /\ xmit'.id = xmit.id
  BY <1>1, <1>t DEF Tx!TypeOK
<1>3. Tx!TypeOK'
  BY <1>1, <1>2, <1>t DEF Tx!TypeOK
<1>4. TxOrder'
  <2>1. TxFront' = TxFront
    BY <1>1, <1>2 DEF TxFront
  <2> QED
    BY <1>1, <1>2, <1>t, <2>1 DEF TxOrder, TxWaits
<1>5. TxBuffers'
  BY <1>0, <1>1, <1>2, <1>t DEF TxBuffers, Tx!NoLeak
<1>6. TxNumbers'
  <2>1. TxAges' = TxAges
    BY <1>1, <1>2 DEF TxAges
  <2>2. TxIds(slot, TxAges, Tx!TakeId, refused)' /\ Tx!TakeId' = Tx!TakeId
    BY <1>1, <1>t, <2>1, TxSameIds
  <2> QED
    BY <1>1, <1>2, <1>t, <2>2 DEF TxNumbers
<1>7. TxMarks'
  BY <1>1, <1>2, <1>t DEF TxMarks, TxAwaits
<1> QED
  BY <1>3, <1>4, <1>5, <1>6, <1>7 DEF TxInv

LEMMA TxDiscardKeeps ==
    ASSUME TxInv, Tx!Discard
    PROVE  TxInv'
<1> USE TxConstants
<1>t. Tx!TypeOK /\ TxOrder /\ TxBuffers /\ TxNumbers /\ TxMarks
  BY DEF TxInv
<1>1. /\ xmit.pc = "discard" /\ xmit' = [xmit EXCEPT !.pc = "skb"]
      /\ freed' = freed \cup ({slot[xmit.desc].skb} \ {Tx!NoSkb})
      /\ UNCHANGED <<ring, slot, head, tail, nextId, hw, tcomp, irq, stamps, held, refused>>
  BY DEF Tx!Discard, Tx!Running
<1>2. /\ xmit' \in [pc : {"idle", "test", "discard", "skb", "id", "fire"},
                    skb : Tx!Skbs \cup {Tx!NoSkb}, desc : Tx!Desc, id : 0 .. TxIdSpace - 1]
      /\ xmit'.pc = "skb" /\ xmit'.skb = xmit.skb /\ xmit'.desc = xmit.desc /\ xmit'.id = xmit.id
  BY <1>1, <1>t DEF Tx!TypeOK
<1>d. xmit.desc \in Tx!Desc
  BY <1>t DEF Tx!TypeOK
<1>3. Tx!TypeOK'
  <2>1. freed' \subseteq held
    BY <1>1, <1>d, <1>t DEF Tx!TypeOK, TxBuffers
  <2> QED
    BY <1>1, <1>2, <1>t, <2>1 DEF Tx!TypeOK
<1>4. TxOrder'
  <2>1. TxFront' = TxFront
    BY <1>1, <1>2 DEF TxFront
  <2> QED
    BY <1>1, <1>2, <1>t, <2>1 DEF TxOrder, TxWaits
<1>5. TxBuffers'
  <2>1. Tx!NoLeak'
    BY <1>1, <1>2, <1>t DEF TxBuffers, Tx!NoLeak
  <2>2. ASSUME NEW d \in Tx!Desc, slot[d].skb # Tx!NoSkb
        PROVE  slot[d].skb \in held /\ (slot[d].skb \in freed' => d = xmit.desc)
    BY <1>1, <1>d, <1>t, <2>2 DEF TxBuffers
  <2>3. xmit.skb \in held /\ xmit.skb \notin freed' /\ \A d \in Tx!Desc : slot[d].skb # xmit.skb
    BY <1>1, <1>d, <1>t DEF TxBuffers
  <2>4. slot[xmit.desc].skb = Tx!NoSkb \/ slot[xmit.desc].skb \in freed'
    BY <1>1
  <2>5. \A d, e \in Tx!Desc : slot[d].skb = slot[e].skb /\ slot[d].skb # Tx!NoSkb => d = e
    BY <1>t DEF TxBuffers
  <2> QED
    BY <1>1, <1>2, <2>1, <2>2, <2>3, <2>4, <2>5 DEF TxBuffers
<1>6. TxNumbers'
  <2>1. TxAges' = TxAges
    BY <1>1, <1>2 DEF TxAges
  <2>2. TxIds(slot, TxAges, Tx!TakeId, refused)' /\ Tx!TakeId' = Tx!TakeId
    BY <1>1, <1>t, <2>1, TxSameIds
  <2> QED
    BY <1>1, <1>2, <1>t, <2>2 DEF TxNumbers
<1>7. TxMarks'
  BY <1>1, <1>2, <1>t DEF TxMarks, TxAwaits
<1> QED
  BY <1>3, <1>4, <1>5, <1>6, <1>7 DEF TxInv

LEMMA TxStoreSkbKeeps ==
    ASSUME TxInv, Tx!StoreSkb
    PROVE  TxInv'
<1> USE TxConstants
<1>t. Tx!TypeOK /\ TxOrder /\ TxBuffers /\ TxNumbers /\ TxMarks
  BY DEF TxInv
<1>1. /\ xmit.pc = "skb" /\ xmit' = [xmit EXCEPT !.pc = "id"]
      /\ slot' = [slot EXCEPT ![xmit.desc].skb = xmit.skb]
      /\ UNCHANGED <<ring, head, tail, nextId, hw, tcomp, irq, stamps, held, freed, refused>>
  BY DEF Tx!StoreSkb, Tx!Running
<1>2. /\ xmit' \in [pc : {"idle", "test", "discard", "skb", "id", "fire"},
                    skb : Tx!Skbs \cup {Tx!NoSkb}, desc : Tx!Desc, id : 0 .. TxIdSpace - 1]
      /\ xmit'.pc = "id" /\ xmit'.skb = xmit.skb /\ xmit'.desc = xmit.desc /\ xmit'.id = xmit.id
  BY <1>1, <1>t DEF Tx!TypeOK
<1>d. xmit.desc \in Tx!Desc
  BY <1>t DEF Tx!TypeOK
<1>e. /\ slot' \in [Tx!Desc -> [skb : Tx!Skbs \cup {Tx!NoSkb}, id : 0 .. TxIdSpace - 1]]
      /\ slot'[xmit.desc].skb = xmit.skb
      /\ \A d \in Tx!Desc : slot'[d].id = slot[d].id
      /\ \A d \in Tx!Desc \ {xmit.desc} : slot'[d] = slot[d]
  <2>1. slot \in [Tx!Desc -> [skb : Tx!Skbs \cup {Tx!NoSkb}, id : 0 .. TxIdSpace - 1]]
        /\ xmit.skb \in Tx!Skbs \cup {Tx!NoSkb}
    BY <1>t DEF Tx!TypeOK
  <2>2. [slot[xmit.desc] EXCEPT !.skb = xmit.skb] = [skb |-> xmit.skb, id |-> slot[xmit.desc].id]
    BY <1>d, <2>1
  <2>3. slot' = [slot EXCEPT ![xmit.desc] = [skb |-> xmit.skb, id |-> slot[xmit.desc].id]]
    BY <1>1, <2>2
  <2> QED
    BY <1>d, <2>1, <2>3
<1>3. Tx!TypeOK'
  BY <1>1, <1>2, <1>e, <1>t DEF Tx!TypeOK
<1>4. TxOrder'
  <2>1. TxFront' = TxFront
    BY <1>1, <1>2 DEF TxFront
  <2> QED
    BY <1>1, <1>2, <1>t, <2>1 DEF TxOrder, TxWaits
<1>5. TxBuffers'
  <2>1. xmit.skb \in held /\ xmit.skb \notin freed /\ \A d \in Tx!Desc : slot[d].skb # xmit.skb
    BY <1>1, <1>t DEF TxBuffers
  <2>2. ASSUME NEW d \in Tx!Desc, NEW e \in Tx!Desc, slot'[d].skb = slot'[e].skb,
               slot'[d].skb # Tx!NoSkb
        PROVE  d = e
    BY <1>e, <1>t, <2>1, <2>2 DEF TxBuffers
  <2>3. ASSUME NEW d \in Tx!Desc, slot'[d].skb # Tx!NoSkb
        PROVE  slot'[d].skb \in held /\ slot'[d].skb \notin freed
    <3>1. CASE d = xmit.desc
      BY <1>e, <2>1, <3>1
    <3>2. CASE d # xmit.desc
      BY <1>e, <1>t, <2>3, <3>2 DEF TxBuffers
    <3> QED
      BY <3>1, <3>2
  <2>4. Tx!NoLeak'
    <3>1. ASSUME NEW q \in held, q \notin freed, xmit.skb # q
          PROVE  \E d \in Tx!Desc : slot'[d].skb = q
      <4>1. PICK d \in Tx!Desc : slot[d].skb = q
        BY <1>t, <3>1 DEF TxBuffers, Tx!NoLeak
      <4>2. q # Tx!NoSkb
        BY <1>t, <3>1 DEF Tx!TypeOK
      <4>3. d # xmit.desc
        BY <1>1, <1>t, <3>1, <4>1, <4>2 DEF TxBuffers
      <4> QED
        BY <1>e, <4>1, <4>3
    <3> QED
      BY <1>1, <1>2, <3>1 DEF Tx!NoLeak
  <2> QED
    BY <1>1, <1>2, <1>e, <2>1, <2>2, <2>3, <2>4 DEF TxBuffers
<1>6. TxNumbers'
  <2>1. TxAges' = TxAges
    BY <1>1, <1>2 DEF TxAges
  <2>2. TxIds(slot, TxAges, Tx!TakeId, refused)' /\ Tx!TakeId' = Tx!TakeId
    BY <1>1, <1>e, <1>t, <2>1, TxSameIds
  <2> QED
    BY <1>1, <1>2, <1>e, <1>t, <2>2 DEF TxNumbers
<1>7. TxMarks'
  <2>1. ASSUME NEW d \in Tx!Desc, ring[d].ready PROVE slot'[d] = slot[d]
    BY <1>1, <1>e, <1>t, <2>1 DEF TxOrder
  <2>2. ASSUME NEW t \in stamps PROVE \E d \in Tx!Desc : TxAwaits(t, d)'
    <3>1. PICK d \in Tx!Desc : TxAwaits(t, d)
      BY <1>t DEF TxMarks
    <3>2. TxAwaits(t, d)'
      BY <1>1, <1>2, <1>e, <3>1 DEF TxAwaits
    <3> QED
      BY <3>2
  <2>3. \A d \in Tx!Desc : ring[d].ready /\ ring[d].skb \in TxPtp =>
           slot[d].skb = ring[d].skb /\ slot[d].id = ring[d].id /\ ring[d].id # 0
    BY <1>t DEF TxMarks
  <2> QED
    BY <1>1, <1>2, <1>e, <2>1, <2>2, <2>3 DEF TxMarks
<1> QED
  BY <1>3, <1>4, <1>5, <1>6, <1>7 DEF TxInv

LEMMA TxStoreIdKeeps ==
    ASSUME TxInv, Tx!StoreId
    PROVE  TxInv'
<1> USE TxConstants
<1>t. Tx!TypeOK /\ TxOrder /\ TxBuffers /\ TxNumbers /\ TxMarks
  BY DEF TxInv
<1>1. /\ xmit.pc = "id" /\ xmit' = [xmit EXCEPT !.pc = "fire"]
      /\ slot' = [slot EXCEPT ![xmit.desc].id = xmit.id]
      /\ UNCHANGED <<ring, head, tail, nextId, hw, tcomp, irq, stamps, held, freed, refused>>
  BY DEF Tx!StoreId, Tx!Running
<1>2. /\ xmit' \in [pc : {"idle", "test", "discard", "skb", "id", "fire"},
                    skb : Tx!Skbs \cup {Tx!NoSkb}, desc : Tx!Desc, id : 0 .. TxIdSpace - 1]
      /\ xmit'.pc = "fire" /\ xmit'.skb = xmit.skb /\ xmit'.desc = xmit.desc /\ xmit'.id = xmit.id
  BY <1>1, <1>t DEF Tx!TypeOK
<1>d. xmit.desc \in Tx!Desc
  BY <1>t DEF Tx!TypeOK
<1>e. /\ slot' \in [Tx!Desc -> [skb : Tx!Skbs \cup {Tx!NoSkb}, id : 0 .. TxIdSpace - 1]]
      /\ slot'[xmit.desc].id = xmit.id
      /\ \A d \in Tx!Desc : slot'[d].skb = slot[d].skb
      /\ \A d \in Tx!Desc \ {xmit.desc} : slot'[d] = slot[d]
  <2>1. slot \in [Tx!Desc -> [skb : Tx!Skbs \cup {Tx!NoSkb}, id : 0 .. TxIdSpace - 1]]
        /\ xmit.id \in 0 .. TxIdSpace - 1
    BY <1>t DEF Tx!TypeOK
  <2>2. [slot[xmit.desc] EXCEPT !.id = xmit.id] = [skb |-> slot[xmit.desc].skb, id |-> xmit.id]
    BY <1>d, <2>1
  <2>3. slot' = [slot EXCEPT ![xmit.desc] = [skb |-> slot[xmit.desc].skb, id |-> xmit.id]]
    BY <1>1, <2>2
  <2> QED
    BY <1>d, <2>1, <2>3
<1>3. Tx!TypeOK'
  BY <1>1, <1>2, <1>e, <1>t DEF Tx!TypeOK
<1>4. TxOrder'
  <2>1. TxFront' = TxFront
    BY <1>1, <1>2 DEF TxFront
  <2> QED
    BY <1>1, <1>2, <1>t, <2>1 DEF TxOrder, TxWaits
<1>5. TxBuffers'
  <2>1. Tx!NoLeak'
    BY <1>1, <1>2, <1>e, <1>t DEF TxBuffers, Tx!NoLeak
  <2> QED
    BY <1>1, <1>2, <1>d, <1>e, <1>t, <2>1 DEF TxBuffers
<1>6. TxNumbers'
  <2>1. ASSUME NEW d \in Tx!Desc PROVE TxAges'[d] = TxAge(head, d)
    BY <1>1, <1>2 DEF TxAges
  <2>2. TxAges' \in [Tx!Desc -> 1 .. TxNDesc]
    <3>1. TxAges' = [d \in Tx!Desc |-> TxAges'[d]]
      BY DEF TxAges
    <3>2. \A d \in Tx!Desc : TxAge(head, d) \in 1 .. TxNDesc
      BY <1>t DEF Tx!TypeOK, Tx!Desc, TxAge
    <3> QED
      BY <2>1, <3>1, <3>2
  <2>3. TxAges'[xmit.desc] = 1
    BY <1>1, <1>d, <1>t, <2>1 DEF TxOrder, TxAge, TxAfter, Tx!Desc
  <2>4. \A d \in Tx!Desc \ {xmit.desc} : TxAges'[d] = TxAges[d]
    BY <1>1, <2>1 DEF TxAges
  <2>5. Tx!TakeId' = Tx!TakeId
    BY <1>1 DEF Tx!TakeId
  <2>6. TxBack(Tx!TakeId, slot'[xmit.desc].id) = 1
    BY <1>1, <1>e, <1>t DEF TxNumbers
  <2>7. refused \in Nat /\ TxIds(slot, TxAges, Tx!TakeId, refused)
        /\ \A d \in Tx!Desc : slot[d].id # 0 => TxBack(Tx!TakeId, slot[d].id) > 1
    BY <1>1, <1>t DEF Tx!TypeOK, TxNumbers
  <2>8. \A d \in Tx!Desc \ {xmit.desc} : slot'[d].id = slot[d].id /\ TxAges'[d] = TxAges[d]
    BY <1>e, <2>4
  <2>9. TxIds(slot', TxAges', Tx!TakeId, refused)
    <3>1. PICK k : k = xmit.desc
      OBVIOUS
    <3>2. PICK slots2 : slots2 = slot'
      OBVIOUS
    <3>3. PICK younger : younger = TxAges'
      OBVIOUS
    <3>4. k \in Tx!Desc /\ younger \in [Tx!Desc -> 1 .. TxNDesc]
      BY <1>d, <2>2, <3>1, <3>3
    <3>5. TxBack(Tx!TakeId, slots2[k].id) = 1 /\ younger[k] = 1
      BY <2>3, <2>6, <3>1, <3>2, <3>3
    <3>6. \A d \in Tx!Desc \ {k} : slots2[d].id = slot[d].id /\ younger[d] = TxAges[d]
      BY <2>8, <3>1, <3>2, <3>3
    <3>7. TxIds(slots2, younger, Tx!TakeId, refused)
      BY <2>7, <3>4, <3>5, <3>6, TxStoreId
    <3> QED
      BY <3>2, <3>3, <3>7
  <2>10. TxIds(slot, TxAges, Tx!TakeId, refused)'
    BY <1>1, <2>5, <2>9 DEF TxIds
  <2> QED
    BY <1>1, <1>2, <1>t, <2>5, <2>10 DEF TxNumbers
<1>7. TxMarks'
  <2>1. ASSUME NEW d \in Tx!Desc, ring[d].ready PROVE slot'[d] = slot[d]
    BY <1>1, <1>e, <1>t, <2>1 DEF TxOrder
  <2>2. ASSUME NEW t \in stamps PROVE \E d \in Tx!Desc : TxAwaits(t, d)'
    <3>1. PICK d \in Tx!Desc : TxAwaits(t, d)
      BY <1>t DEF TxMarks
    <3>2. TxAwaits(t, d)'
      BY <1>1, <1>2, <1>e, <3>1 DEF TxAwaits
    <3> QED
      BY <3>2
  <2>3. \A d \in Tx!Desc : ring[d].ready /\ ring[d].skb \in TxPtp =>
           slot[d].skb = ring[d].skb /\ slot[d].id = ring[d].id /\ ring[d].id # 0
    BY <1>t DEF TxMarks
  <2>4. xmit.skb \in TxPtp => slot[xmit.desc].skb = xmit.skb
    BY <1>1, <1>t DEF TxMarks
  <2> QED
    BY <1>1, <1>2, <1>d, <1>e, <2>1, <2>2, <2>3, <2>4 DEF TxMarks
<1> QED
  BY <1>3, <1>4, <1>5, <1>6, <1>7 DEF TxInv

LEMMA TxFireKeeps ==
    ASSUME TxInv, Tx!Fire
    PROVE  TxInv'
<1> USE TxConstants
<1>t. Tx!TypeOK /\ TxOrder /\ TxBuffers /\ TxNumbers /\ TxMarks
  BY DEF TxInv
<1>1. /\ xmit.pc = "fire" /\ xmit' = [pc |-> "idle", skb |-> Tx!NoSkb, desc |-> 0, id |-> 0]
      /\ ring' = [ring EXCEPT ![xmit.desc] = [ready |-> TRUE, skb |-> xmit.skb, id |-> xmit.id]]
      /\ UNCHANGED <<slot, head, tail, nextId, hw, tcomp, irq, stamps, held, freed, refused>>
  BY DEF Tx!Fire, Tx!Running, Tx!Idle
<1>d. xmit.desc \in Tx!Desc /\ xmit'.pc = "idle" /\ xmit'.skb = Tx!NoSkb
  BY <1>1, <1>t DEF Tx!TypeOK
<1>e. /\ ring' \in [Tx!Desc -> [ready : BOOLEAN, skb : Tx!Skbs \cup {Tx!NoSkb},
           id : 0 .. TxIdSpace - 1]]
      /\ ring'[xmit.desc] = [ready |-> TRUE, skb |-> xmit.skb, id |-> xmit.id]
      /\ \A d \in Tx!Desc \ {xmit.desc} : ring'[d] = ring[d]
  <2>1. [ready |-> TRUE, skb |-> xmit.skb, id |-> xmit.id]
           \in [ready : BOOLEAN, skb : Tx!Skbs \cup {Tx!NoSkb}, id : 0 .. TxIdSpace - 1]
    BY <1>t DEF Tx!TypeOK
  <2>2. ring \in [Tx!Desc -> [ready : BOOLEAN, skb : Tx!Skbs \cup {Tx!NoSkb},
          id : 0 .. TxIdSpace - 1]]
    BY <1>t DEF Tx!TypeOK
  <2> QED
    BY <1>1, <1>d, <2>1, <2>2
<1>3. Tx!TypeOK'
  <2>1. 0 \in Tx!Desc /\ 0 \in 0 .. TxIdSpace - 1
    BY TxIdBound DEF Tx!Desc
  <2>2. xmit' \in [pc : {"idle", "test", "discard", "skb", "id", "fire"},
                   skb : Tx!Skbs \cup {Tx!NoSkb}, desc : Tx!Desc, id : 0 .. TxIdSpace - 1]
    BY <1>1, <2>1
  <2> QED
    BY <1>1, <1>e, <1>t, <2>2 DEF Tx!TypeOK
<1>4. TxOrder'
  <2>1. PICK n \in 0 .. TxNDesc : TxWaits(ring, hw, n) /\ xmit.desc = TxAfter(hw, n)
    BY <1>1, <1>t DEF TxOrder, TxFront
  <2>2. hw \in Tx!Desc
    BY <1>t DEF Tx!TypeOK
  <2>3. n \in 0 .. TxNDesc - 1
    <3>1. ~ring[xmit.desc].ready
      BY <1>1, <1>t DEF TxOrder
    <3>2. n # TxNDesc
      BY <2>1, <2>2, <3>1, TxLook
    <3> QED
      BY <3>2
  <2>4. TxWaits(ring', hw, n + 1)
    <3>1. PICK after : after = ring'
      OBVIOUS
    <3>2. after[TxAfter(hw, n)].ready /\ \A e \in Tx!Desc : e # TxAfter(hw, n) =>
            after[e] = ring[e]
      BY <1>e, <2>1, <3>1
    <3>3. TxWaits(after, hw, n + 1)
      BY <2>1, <2>2, <2>3, <3>2, TxFill
    <3> QED
      BY <3>1, <3>3
  <2>5. TxFront' = TxAfter(hw, n + 1)
    <3>1. head = TxAfter(xmit.desc, 1)
      BY <1>1, <1>t DEF TxOrder
    <3>2. TxAfter(TxAfter(hw, n), 1) = TxAfter(hw, n + 1)
      BY <2>2, <2>3 DEF TxAfter, Tx!Desc
    <3> QED
      BY <1>1, <1>d, <2>1, <3>1, <3>2 DEF TxFront
  <2>6. n + 1 \in 0 .. TxNDesc /\ hw' = hw
    BY <1>1, <2>3
  <2>7. TxWaits(ring, hw, n + 1)' /\ TxFront' = TxAfter(hw', n + 1)
    BY <2>4, <2>5, <2>6 DEF TxWaits
  <2> QED
    BY <1>d, <2>6, <2>7 DEF TxOrder
<1>5. TxBuffers'
  <2>1. Tx!NoLeak'
    <3>1. ASSUME NEW q \in held PROVE q \in freed \/ \E d \in Tx!Desc : slot[d].skb = q
      BY <1>1, <1>d, <1>t DEF TxBuffers, Tx!NoLeak
    <3> QED
      BY <1>1, <3>1 DEF Tx!NoLeak
  <2>2. \A d \in Tx!Desc : slot[d].skb # Tx!NoSkb => slot[d].skb \in held
          /\ slot[d].skb \notin freed
    BY <1>1, <1>t DEF TxBuffers
  <2> QED
    BY <1>1, <1>d, <1>t, <2>1, <2>2 DEF TxBuffers
<1>6. TxNumbers'
  <2>1. TxAges' = TxAges
    BY <1>1, <1>d DEF TxAges
  <2>2. TxIds(slot, TxAges, Tx!TakeId, refused)' /\ Tx!TakeId' = Tx!TakeId
    BY <1>1, <1>t, <2>1, TxSameIds
  <2> QED
    BY <1>d, <2>2 DEF TxNumbers
<1>7. TxMarks'
  <2>1. ASSUME NEW d \in Tx!Desc, ring'[d].ready, ring'[d].skb \in TxPtp
        PROVE  slot[d].skb = ring'[d].skb /\ slot[d].id = ring'[d].id /\ ring'[d].id # 0
    <3>1. CASE d = xmit.desc
      <4>1. xmit.id # 0 /\ slot[xmit.desc].id = xmit.id
        BY <1>1, <1>t DEF TxNumbers, TxMarks
      <4>2. ring'[d].skb = xmit.skb /\ ring'[d].id = xmit.id
        BY <1>e, <3>1
      <4>3. slot[xmit.desc].skb = xmit.skb
        BY <1>1, <1>t, <2>1, <4>2 DEF TxMarks
      <4> QED
        BY <3>1, <4>1, <4>2, <4>3
    <3>2. CASE d # xmit.desc
      BY <1>e, <1>t, <2>1, <3>2 DEF TxMarks
    <3> QED
      BY <3>1, <3>2
  <2>2. ASSUME NEW t \in stamps PROVE \E d \in Tx!Desc : TxAwaits(t, d)'
    <3>1. PICK d \in Tx!Desc : TxAwaits(t, d)
      BY <1>t DEF TxMarks
    <3>2. TxAwaits(t, d)'
      BY <1>1, <1>d, <1>e, <3>1 DEF TxAwaits
    <3> QED
      BY <3>2
  <2> QED
    BY <1>1, <1>d, <2>1, <2>2 DEF TxMarks
<1> QED
  BY <1>3, <1>4, <1>5, <1>6, <1>7 DEF TxInv

LEMMA TxClearsKeeps ==
    ASSUME TxInv, NEW P, TxClears(P)
    PROVE  TxInv'
<1> USE TxConstants
<1>t. Tx!TypeOK /\ TxOrder /\ TxBuffers /\ TxNumbers /\ TxMarks
  BY DEF TxInv
<1>1. /\ P \subseteq Tx!Desc
      /\ slot' = [d \in Tx!Desc |-> IF d \in P THEN [skb |-> Tx!NoSkb, id |-> slot[d].id]
                                               ELSE slot[d]]
      /\ freed' = freed \cup {slot[d].skb : d \in P}
      /\ stamps' \subseteq stamps
      /\ tail' \in Tx!Desc /\ irq' \in {"idle", "ack"}
      /\ UNCHANGED <<ring, head, nextId, hw, tcomp, xmit, held, refused>>
  BY DEF TxClears
<1>2. ASSUME NEW d \in P
      PROVE  /\ slot[d].skb # Tx!NoSkb
             /\ \A t \in stamps' : slot[d].skb # t.skb
             /\ \/ slot[d].skb \in TxPlain
                \/ ~ring[d].ready /\ (xmit.pc = "idle" \/ d # xmit.desc)
  BY DEF TxClears
<1>e. /\ slot' \in [Tx!Desc -> [skb : Tx!Skbs \cup {Tx!NoSkb}, id : 0 .. TxIdSpace - 1]]
      /\ \A d \in Tx!Desc : slot'[d].id = slot[d].id
      /\ \A d \in P : slot'[d].skb = Tx!NoSkb
      /\ \A d \in Tx!Desc \ P : slot'[d] = slot[d]
  <2>1. slot \in [Tx!Desc -> [skb : Tx!Skbs \cup {Tx!NoSkb}, id : 0 .. TxIdSpace - 1]]
    BY <1>t DEF Tx!TypeOK
  <2> QED
    BY <1>1, <2>1
<1>f. \A q : q \in freed' <=> q \in freed \/ \E d \in P : slot[d].skb = q
  BY <1>1
<1>3. Tx!TypeOK'
  <2>1. freed' \subseteq held
    <3>1. ASSUME NEW d \in P PROVE slot[d].skb \in held
      BY <1>1, <1>2, <1>t DEF TxBuffers
    <3> QED
      BY <1>f, <1>t, <3>1 DEF Tx!TypeOK
  <2>2. stamps' \subseteq [id : 0 .. TxIdSpace - 1, skb : TxPtp]
    BY <1>1, <1>t DEF Tx!TypeOK
  <2> QED
    BY <1>1, <1>e, <1>t, <2>1, <2>2 DEF Tx!TypeOK
<1>4. TxOrder'
  BY <1>1, <1>t DEF TxOrder, TxWaits, TxFront
<1>5. TxBuffers'
  <2>1. Tx!NoLeak'
    <3>1. ASSUME NEW q \in held, q \notin freed', xmit.skb # q
          PROVE  \E d \in Tx!Desc : slot'[d].skb = q
      <4>1. PICK d \in Tx!Desc : slot[d].skb = q
        BY <1>f, <1>t, <3>1 DEF TxBuffers, Tx!NoLeak
      <4>2. d \notin P
        BY <1>f, <3>1, <4>1
      <4> QED
        BY <1>e, <4>1, <4>2
    <3> QED
      BY <1>1, <3>1 DEF Tx!NoLeak
  <2>2. ASSUME NEW d \in Tx!Desc, slot'[d].skb # Tx!NoSkb
        PROVE  d \notin P /\ slot'[d].skb = slot[d].skb
    BY <1>e, <2>2
  <2>3. ASSUME NEW d \in Tx!Desc, NEW e \in Tx!Desc, slot'[d].skb = slot'[e].skb,
               slot'[d].skb # Tx!NoSkb
        PROVE  d = e
    BY <1>t, <2>2, <2>3 DEF TxBuffers
  <2>4. ASSUME NEW d \in Tx!Desc, slot'[d].skb # Tx!NoSkb
        PROVE  /\ slot'[d].skb \in held
               /\ slot'[d].skb \in freed' => xmit.pc = "skb" /\ d = xmit.desc
    <3>1. d \notin P /\ slot'[d].skb = slot[d].skb /\ slot[d].skb # Tx!NoSkb
      BY <2>2, <2>4
    <3>2. slot[d].skb \in freed' => slot[d].skb \in freed
      <4>1. \A e \in P : slot[e].skb # slot[d].skb
        BY <1>1, <1>t, <3>1 DEF TxBuffers
      <4> QED
        BY <1>f, <4>1
    <3> QED
      BY <1>t, <3>1, <3>2 DEF TxBuffers
  <2>5. xmit.pc \in {"test", "discard", "skb"} =>
           xmit.skb \notin freed' /\ \A d \in Tx!Desc : slot'[d].skb # xmit.skb
    <3> SUFFICES ASSUME xmit.pc \in {"test", "discard", "skb"}
                 PROVE  xmit.skb \notin freed' /\ \A d \in Tx!Desc : slot'[d].skb # xmit.skb
      OBVIOUS
    <3>1. xmit.skb \notin freed /\ xmit.skb # Tx!NoSkb /\ \A d \in Tx!Desc :
            slot[d].skb # xmit.skb
      BY <1>t DEF TxBuffers, Tx!TypeOK
    <3> QED
      BY <1>1, <1>e, <1>f, <3>1
  <2>d. xmit.desc \in Tx!Desc
    BY <1>t DEF Tx!TypeOK
  <2>6. xmit.pc = "skb" => slot'[xmit.desc].skb = Tx!NoSkb \/ slot'[xmit.desc].skb \in freed'
    BY <1>e, <1>f, <1>t, <2>d DEF TxBuffers
  <2>7. xmit.pc \in {"id", "fire"} => xmit.skb \in freed' \/ slot'[xmit.desc].skb = xmit.skb
    BY <1>e, <1>f, <1>t, <2>d DEF TxBuffers
  <2>8. IF xmit.pc = "idle" THEN xmit.skb = Tx!NoSkb ELSE xmit.skb \in held
    BY <1>t DEF TxBuffers
  <2> HIDE <1>f
  <2> QED
    BY <1>1, <2>1, <2>3, <2>4, <2>5, <2>6, <2>7, <2>8 DEF TxBuffers
<1>6. TxNumbers'
  <2>1. TxAges' = TxAges
    BY <1>1 DEF TxAges
  <2>2. TxIds(slot, TxAges, Tx!TakeId, refused)' /\ Tx!TakeId' = Tx!TakeId
    BY <1>1, <1>e, <1>t, <2>1, TxSameIds
  <2> QED
    BY <1>1, <1>e, <1>t, <2>2 DEF TxNumbers
<1>7. TxMarks'
  <2>1. ASSUME NEW d \in Tx!Desc, ring[d].ready, ring[d].skb \in TxPtp
        PROVE  slot'[d].skb = ring[d].skb /\ slot'[d].id = ring[d].id /\ ring[d].id # 0
    <3>1. slot[d].skb = ring[d].skb /\ slot[d].id = ring[d].id /\ ring[d].id # 0
      BY <1>t, <2>1 DEF TxMarks
    <3>2. d \notin P
      BY <1>2, <2>1, <3>1
    <3> QED
      BY <1>e, <3>1, <3>2
  <2>2. ASSUME NEW t \in stamps' PROVE \E d \in Tx!Desc : TxAwaits(t, d)'
    <3>1. PICK d \in Tx!Desc : TxAwaits(t, d)
      BY <1>1, <1>t DEF TxMarks
    <3>2. d \notin P
      BY <1>2, <3>1 DEF TxAwaits
    <3>3. TxAwaits(t, d)'
      BY <1>1, <1>e, <3>1, <3>2 DEF TxAwaits
    <3> QED
      BY <3>3
  <2>d. xmit.desc \in Tx!Desc
    BY <1>t DEF Tx!TypeOK
  <2>3. ASSUME xmit.pc \in {"id", "fire"}, xmit.skb \in TxPtp
        PROVE  slot'[xmit.desc].skb = xmit.skb
    <3>1. slot[xmit.desc].skb = xmit.skb
      BY <1>t, <2>3 DEF TxMarks
    <3>2. xmit.desc \notin P
      BY <1>2, <2>3, <3>1
    <3> QED
      BY <1>e, <2>d, <3>1, <3>2
  <2>4. xmit.pc = "fire" => slot'[xmit.desc].id = xmit.id
    BY <1>e, <1>t, <2>d DEF TxMarks
  <2> QED
    BY <1>1, <2>1, <2>2, <2>3, <2>4 DEF TxMarks
<1> QED
  BY <1>3, <1>4, <1>5, <1>6, <1>7 DEF TxInv

LEMMA TxSendKeeps ==
    ASSUME TxInv, Tx!Send
    PROVE  TxInv'
<1> USE TxConstants
<1>t. Tx!TypeOK /\ TxOrder /\ TxBuffers /\ TxNumbers /\ TxMarks
  BY DEF TxInv
<1>1. /\ ring[hw].ready /\ ring' = [ring EXCEPT ![hw] = Tx!Empty] /\ tcomp' = TRUE
      /\ hw' = Tx!NextDesc(hw)
      /\ UNCHANGED <<slot, head, tail, nextId, irq, xmit, held, freed, refused>>
  BY DEF Tx!Send
<1>2. \/ stamps' = stamps
      \/ /\ ring[hw].skb \in TxPtp
         /\ stamps' = stamps \cup {[id |-> ring[hw].id, skb |-> ring[hw].skb]}
  BY DEF Tx!Send
<1>3. hw \in Tx!Desc /\ hw' = TxAfter(hw, 1) /\ hw' \in Tx!Desc
  BY <1>1, <1>t, TxNextDesc DEF Tx!TypeOK
<1>r. ring \in [Tx!Desc -> [ready : BOOLEAN, skb : Tx!Skbs \cup {Tx!NoSkb},
        id : 0 .. TxIdSpace - 1]]
  BY <1>t DEF Tx!TypeOK
<1>e. /\ ring' \in [Tx!Desc -> [ready : BOOLEAN, skb : Tx!Skbs \cup {Tx!NoSkb},
           id : 0 .. TxIdSpace - 1]]
      /\ ~ring'[hw].ready
      /\ \A d \in Tx!Desc \ {hw} : ring'[d] = ring[d]
  <2>1. Tx!Empty \in [ready : BOOLEAN, skb : Tx!Skbs \cup {Tx!NoSkb}, id : 0 .. TxIdSpace - 1]
        /\ ~Tx!Empty.ready
    BY TxIdBound DEF Tx!Empty
  <2> QED
    BY <1>1, <1>3, <1>r, <2>1
<1>4. Tx!TypeOK'
  <2>1. stamps' \subseteq [id : 0 .. TxIdSpace - 1, skb : TxPtp]
    <3>1. ring[hw].id \in 0 .. TxIdSpace - 1
      BY <1>3, <1>r
    <3>2. stamps \subseteq [id : 0 .. TxIdSpace - 1, skb : TxPtp]
      BY <1>t DEF Tx!TypeOK
    <3> QED
      BY <1>2, <3>1, <3>2
  <2> QED
    BY <1>1, <1>3, <1>e, <1>t, <2>1 DEF Tx!TypeOK
<1>5. TxOrder'
  <2>1. PICK n \in 0 .. TxNDesc : TxWaits(ring, hw, n) /\ TxFront = TxAfter(hw, n)
    BY <1>t DEF TxOrder
  <2>2. n \in 1 .. TxNDesc
    <3>1. n # 0
      BY <1>1, <1>3, <2>1, TxLook
    <3> QED
      BY <3>1
  <2>3. TxWaits(ring', TxAfter(hw, 1), n - 1)
        /\ TxAfter(TxAfter(hw, 1), n - 1) = TxAfter(hw, n)
    <3>1. PICK after : after = ring'
      OBVIOUS
    <3>2. ~after[hw].ready /\ \A e \in Tx!Desc : e # hw => after[e] = ring[e]
      BY <1>e, <3>1
    <3>3. TxWaits(after, TxAfter(hw, 1), n - 1)
          /\ TxAfter(TxAfter(hw, 1), n - 1) = TxAfter(hw, n)
      BY <1>3, <2>1, <2>2, <3>2, TxDrain
    <3> QED
      BY <3>1, <3>3
  <2>4. n - 1 \in 0 .. TxNDesc /\ TxFront' = TxFront
    BY <1>1, <2>2 DEF TxFront
  <2>5. TxWaits(ring, hw, n - 1)' /\ TxFront' = TxAfter(hw', n - 1)
    BY <1>3, <2>1, <2>3, <2>4 DEF TxWaits
  <2>6. xmit.pc # "idle" => ~ring'[xmit.desc].ready
    <3>1. xmit.desc \in Tx!Desc
      BY <1>t DEF Tx!TypeOK
    <3> QED
      BY <1>e, <1>t, <3>1 DEF TxOrder
  <2>7. xmit.pc # "idle" => head = TxAfter(xmit.desc, 1)
    BY <1>t DEF TxOrder
  <2> QED
    BY <1>1, <2>4, <2>5, <2>6, <2>7 DEF TxOrder
<1>6. TxBuffers'
  BY <1>1, <1>t DEF TxBuffers, Tx!NoLeak
<1>7. TxNumbers'
  <2>1. TxAges' = TxAges
    BY <1>1 DEF TxAges
  <2>2. TxIds(slot, TxAges, Tx!TakeId, refused)' /\ Tx!TakeId' = Tx!TakeId
    BY <1>1, <1>t, <2>1, TxSameIds
  <2> QED
    BY <1>1, <1>t, <2>2 DEF TxNumbers
<1>8. TxMarks'
  <2>1. ASSUME NEW d \in Tx!Desc, ring'[d].ready, ring'[d].skb \in TxPtp
        PROVE  slot[d].skb = ring'[d].skb /\ slot[d].id = ring'[d].id /\ ring'[d].id # 0
    <3>1. d # hw
      BY <1>e, <2>1
    <3> QED
      BY <1>e, <1>t, <2>1, <3>1 DEF TxMarks
  <2>2. ASSUME NEW t \in stamps' PROVE \E d \in Tx!Desc : TxAwaits(t, d)'
    <3>1. CASE t \in stamps
      <4>1. PICK d \in Tx!Desc : TxAwaits(t, d)
        BY <1>t, <3>1 DEF TxMarks
      <4>2. TxAwaits(t, d)'
        BY <1>1, <1>e, <4>1 DEF TxAwaits
      <4> QED
        BY <4>2
    <3>2. CASE t \notin stamps
      <4>1. ring[hw].skb \in TxPtp /\ t.id = ring[hw].id /\ t.skb = ring[hw].skb
        BY <1>2, <2>2, <3>2
      <4>2. slot[hw].skb = t.skb /\ slot[hw].id = t.id /\ t.id # 0
        BY <1>1, <1>3, <1>t, <4>1 DEF TxMarks
      <4>3. xmit.pc = "idle" \/ hw # xmit.desc
        BY <1>1, <1>t DEF TxOrder
      <4>4. PICK d \in Tx!Desc : d = hw
        BY <1>3
      <4>5. slot'[d].skb = t.skb /\ slot'[d].id = t.id /\ t.id # 0
            /\ ~ring'[d].ready /\ (xmit'.pc = "idle" \/ d # xmit'.desc)
        BY <1>1, <1>e, <4>2, <4>3, <4>4
      <4>6. TxAwaits(t, d)'
        BY <4>5 DEF TxAwaits
      <4> QED
        BY <4>6
    <3> QED
      BY <3>1, <3>2
  <2> QED
    BY <1>1, <1>t, <2>1, <2>2 DEF TxMarks
<1> QED
  BY <1>4, <1>5, <1>6, <1>7, <1>8 DEF TxInv

LEMMA TxReleaseKeeps ==
    ASSUME TxInv, Tx!Release
    PROVE  TxInv'
<1> USE TxConstants
<1>t. Tx!TypeOK /\ TxOrder /\ TxBuffers /\ TxNumbers /\ TxMarks
  BY DEF TxInv
<1>1. /\ xmit.pc = "idle" /\ held' = held \ freed /\ freed' = {}
      /\ UNCHANGED <<ring, slot, head, tail, nextId, hw, tcomp, irq, stamps, xmit, refused>>
  BY DEF Tx!Release, Tx!Running
<1>2. Tx!TypeOK'
  BY <1>1, <1>t DEF Tx!TypeOK
<1>3. TxOrder'
  BY <1>1, <1>t DEF TxOrder, TxWaits, TxFront
<1>4. TxBuffers'
  BY <1>1, <1>t DEF TxBuffers, Tx!NoLeak
<1>5. TxNumbers'
  <2>1. TxAges' = TxAges
    BY <1>1 DEF TxAges
  <2>2. TxIds(slot, TxAges, Tx!TakeId, refused)' /\ Tx!TakeId' = Tx!TakeId
    BY <1>1, <1>t, <2>1, TxSameIds
  <2> QED
    BY <1>1, <1>t, <2>2 DEF TxNumbers
<1>6. TxMarks'
  BY <1>1, <1>t DEF TxMarks, TxAwaits
<1> QED
  BY <1>2, <1>3, <1>4, <1>5, <1>6 DEF TxInv

\* Steps that only the interrupt's own state knows of, and none at all.
LEMMA TxRests ==
    ASSUME TxInv, tcomp' \in BOOLEAN, irq' \in {"idle", "ack"},
           UNCHANGED <<ring, slot, head, tail, nextId, hw, stamps, xmit, held, freed, refused>>
    PROVE  TxInv'
<1>t. Tx!TypeOK /\ TxOrder /\ TxBuffers /\ TxNumbers /\ TxMarks
  BY DEF TxInv
<1>1. Tx!TypeOK'
  BY <1>t DEF Tx!TypeOK
<1>2. TxOrder'
  BY <1>t DEF TxOrder, TxWaits, TxFront
<1>3. TxBuffers'
  BY <1>t DEF TxBuffers, Tx!NoLeak
<1>4. TxNumbers'
  <2>1. TxAges' = TxAges
    BY DEF TxAges
  <2>2. TxIds(slot, TxAges, Tx!TakeId, refused)' /\ Tx!TakeId' = Tx!TakeId
    BY <1>t, <2>1, TxSameIds
  <2> QED
    BY <1>t, <2>2 DEF TxNumbers
<1>5. TxMarks'
  BY <1>t DEF TxMarks, TxAwaits
<1> QED
  BY <1>1, <1>2, <1>3, <1>4, <1>5 DEF TxInv

LEMMA TxInit == Init => TxInv
<1> SUFFICES ASSUME Tx!Init PROVE TxInv
  BY DEF Init
<1> USE TxConstants, TxIdBound
<1>1. /\ ring = [d \in Tx!Desc |-> Tx!Empty]
      /\ slot = [d \in Tx!Desc |-> [skb |-> Tx!NoSkb, id |-> 0]]
      /\ head = 0 /\ tail = 0 /\ nextId = 0 /\ hw = 0
      /\ tcomp = FALSE /\ irq = "idle" /\ stamps = {}
      /\ xmit = [pc |-> "idle", skb |-> Tx!NoSkb, desc |-> 0, id |-> 0]
      /\ held = {} /\ freed = {} /\ refused = 0
  BY DEF Tx!Init, Tx!Idle
<1>2. 0 \in Tx!Desc /\ 0 \in 0 .. TxIdSpace - 1 /\ 0 \in 0 .. TxMaxRefused
  BY DEF Tx!Desc
<1>3. xmit.pc = "idle" /\ xmit.skb = Tx!NoSkb /\ \A d \in Tx!Desc : ~ring[d].ready
                       /\ slot[d].skb = Tx!NoSkb /\ slot[d].id = 0
  BY <1>1 DEF Tx!Empty
<1>4. Tx!TypeOK
  <2>1. Tx!Empty \in [ready : BOOLEAN, skb : Tx!Skbs \cup {Tx!NoSkb}, id : 0 .. TxIdSpace - 1]
    BY <1>2 DEF Tx!Empty
  <2>2. ring \in [Tx!Desc -> [ready : BOOLEAN, skb : Tx!Skbs \cup {Tx!NoSkb},
          id : 0 .. TxIdSpace - 1]]
    BY <1>1, <2>1
  <2>3. slot \in [Tx!Desc -> [skb : Tx!Skbs \cup {Tx!NoSkb}, id : 0 .. TxIdSpace - 1]]
    BY <1>1, <1>2
  <2> QED
    BY <1>1, <1>2, <2>2, <2>3 DEF Tx!TypeOK
<1>5. TxOrder
  <2>1. TxWaits(ring, hw, 0) /\ TxFront = TxAfter(hw, 0)
    BY <1>1, <1>3 DEF TxWaits, TxAhead, TxAfter, TxFront, Tx!Desc
  <2>2. 0 \in 0 .. TxNDesc
    OBVIOUS
  <2> QED
    BY <1>3, <2>1, <2>2 DEF TxOrder
<1>6. TxBuffers
  BY <1>1, <1>3 DEF TxBuffers, Tx!NoLeak
<1>7. TxNumbers
  BY <1>3 DEF TxNumbers, TxIds
<1>8. TxMarks
  BY <1>1, <1>3 DEF TxMarks
<1> QED
  BY <1>4, <1>5, <1>6, <1>7, <1>8 DEF TxInv

LEMMA TxNext == TxInv /\ [Next]_vars => TxInv'
<1> SUFFICES ASSUME TxInv, Tx!Next \/ UNCHANGED txVars PROVE TxInv'
  BY DEF Next, vars
<1>t. tcomp \in BOOLEAN /\ irq \in {"idle", "ack"}
  BY DEF TxInv, Tx!TypeOK
<1>1. CASE Tx!Refuse
  BY <1>1, TxRefuseKeeps
<1>2. CASE \E s \in Tx!Skbs : Tx!Alloc(s)
  BY <1>2, TxAllocKeeps
<1>3. CASE Tx!Test
  BY <1>3, TxTestKeeps
<1>4. CASE Tx!Discard
  BY <1>4, TxDiscardKeeps
<1>5. CASE Tx!StoreSkb
  BY <1>5, TxStoreSkbKeeps
<1>6. CASE Tx!StoreId
  BY <1>6, TxStoreIdKeeps
<1>7. CASE Tx!Fire
  BY <1>7, TxFireKeeps
<1>8. CASE Tx!TxInterrupt
  <2>1. PICK P : TxClears(P)
    BY <1>8, TxInterruptClears
  <2> QED
    BY <2>1, TxClearsKeeps
<1>9. CASE Tx!StampInterrupt
  <2>1. PICK P : TxClears(P)
    BY <1>9, TxStampClears
  <2> QED
    BY <2>1, TxClearsKeeps
<1>10. CASE Tx!AckInterrupt
  <2>1. /\ tcomp' \in BOOLEAN /\ irq' \in {"idle", "ack"}
        /\ UNCHANGED <<ring, slot, head, tail, nextId, hw, stamps, xmit, held, freed, refused>>
    BY <1>10 DEF Tx!AckInterrupt
  <2> QED
    BY <2>1, TxRests
<1>11. CASE Tx!Send
  BY <1>11, TxSendKeeps
<1>12. CASE Tx!Release
  BY <1>12, TxReleaseKeeps
<1>13. CASE UNCHANGED txVars
  <2>1. UNCHANGED <<ring, slot, head, tail, nextId, hw, tcomp, irq, stamps, xmit, held, freed,
          refused>>
    BY <1>13 DEF txVars
  <2> QED
    BY <1>t, <2>1, TxRests
<1> QED
  BY <1>1, <1>2, <1>3, <1>4, <1>5, <1>6, <1>7, <1>8, <1>9, <1>10, <1>11, <1>12, <1>13
     DEF Tx!Next, Tx!StartXmit, Tx!ContinueXmit, Tx!Interrupt

LEMMA TxSafe ==
    ASSUME TxInv
    PROVE  Tx!SendOrder /\ Tx!NoUseAfterFree /\ Tx!NoLeak /\ Tx!StampRight
<1> USE TxConstants
<1>t. Tx!TypeOK /\ TxOrder /\ TxBuffers /\ TxNumbers /\ TxMarks
  BY DEF TxInv
<1>1. Tx!SendOrder
  <2>1. PICK n \in 0 .. TxNDesc : TxWaits(ring, hw, n) /\ TxFront = TxAfter(hw, n)
    BY <1>t DEF TxOrder
  <2>2. hw \in 0 .. TxNDesc - 1
    BY <1>t DEF Tx!TypeOK, Tx!Desc
  <2>3. ASSUME NEW k \in 0 .. TxNDesc
        PROVE  (hw + k) % TxNDesc = TxAfter(hw, k)
    <3>1. (hw + k) % TxNDesc = IF hw + k < TxNDesc THEN hw + k ELSE hw + k - TxNDesc
      BY <2>2, RingPlus
    <3> QED
      BY <3>1 DEF TxAfter
  <2>4. \A e : e \in {d \in Tx!Desc : ring[d].ready} <=>
                  e \in {(hw + k) % TxNDesc : k \in 0 .. n - 1}
    <3>1. ASSUME NEW d \in Tx!Desc, ring[d].ready
          PROVE  \E k \in 0 .. n - 1 : d = (hw + k) % TxNDesc
      <4>1. TxAhead(hw, d) \in 0 .. n - 1 /\ TxAhead(hw, d) \in 0 .. TxNDesc
        BY <2>1, <2>2, <3>1 DEF TxWaits, TxAhead, Tx!Desc
      <4>2. d = TxAfter(hw, TxAhead(hw, d))
        BY <2>2 DEF TxAfter, TxAhead, Tx!Desc
      <4> QED
        BY <2>3, <4>1, <4>2
    <3>2. ASSUME NEW k \in 0 .. n - 1
          PROVE  (hw + k) % TxNDesc \in Tx!Desc /\ ring[(hw + k) % TxNDesc].ready
      <4>1. k \in 0 .. TxNDesc /\ k \in 0 .. TxNDesc - 1
        OBVIOUS
      <4>2. TxAfter(hw, k) \in Tx!Desc /\ TxAhead(hw, TxAfter(hw, k)) = k
        BY <2>2, <4>1 DEF TxAfter, TxAhead, Tx!Desc
      <4>3. ring[TxAfter(hw, k)].ready
        BY <2>1, <4>2 DEF TxWaits
      <4> QED
        BY <2>3, <4>1, <4>2, <4>3
    <3> QED
      BY <3>1, <3>2
  <2>5. (hw + n) % TxNDesc = IF xmit.pc = "idle" THEN head ELSE xmit.desc
    BY <2>1, <2>3 DEF TxFront
  <2>6. {d \in Tx!Desc : ring[d].ready} = {(hw + k) % TxNDesc : k \in 0 .. n - 1}
    BY <2>4
  <2> HIDE <2>3, <2>4
  <2> QED
    BY <2>5, <2>6 DEF Tx!SendOrder
<1>2. Tx!NoUseAfterFree /\ Tx!NoLeak
  BY <1>t DEF TxBuffers, Tx!NoUseAfterFree
<1>3. Tx!StampRight
  <2> SUFFICES ASSUME NEW t \in stamps PROVE slot[Tx!FirstOf(Tx!Matching(t.id))].skb = t.skb
    BY DEF Tx!StampRight
  <2>1. PICK d \in Tx!Desc : TxAwaits(t, d)
    BY <1>t DEF TxMarks
  <2> QED
    BY <2>1, TxMatch DEF TxAwaits
<1> QED
  BY <1>1, <1>2, <1>3

\* wrn_start_xmit(), the interrupts and the NIC: frames leave in the order they were
\* accepted, no buffer is used after it was released and none is leaked, and a time
\* stamp reaches the frame it was taken for, for a ring of any size and whatever
\* interrupts come between the steps of a transmission.
THEOREM BuffersAreRight ==
    Spec => [](Tx!SendOrder /\ Tx!NoUseAfterFree /\ Tx!NoLeak /\ Tx!StampRight)
<1>1. TxInv => Tx!SendOrder /\ Tx!NoUseAfterFree /\ Tx!NoLeak /\ Tx!StampRight
  BY TxSafe
<1> QED
  BY <1>1, TxInit, TxNext, PTL DEF Spec

-----------------------------------------------------------------------------
(* The receive ring                                                        *)

\* Places of the ring and numbers of frames, without remainders.
RxAfter(d, k) == IF d + k < RxNDesc THEN d + k ELSE d + k - RxNDesc
RxAhead(d, e) == IF e >= d THEN e - d ELSE e - d + RxNDesc
RxNumber(f, k) == IF f + k < RxFrames THEN f + k ELSE f + k - RxFrames

\* The descriptors from b on hold n frames, the first of which is number f; the NIC
\* goes on behind them.
RxHolds(descs, d, number, b, f, n) ==
    /\ \A e \in Rx!Desc :
          descs[e] = IF RxAhead(b, e) < n THEN RxNumber(f, RxAhead(b, e)) ELSE Rx!NoFrame
    /\ d = RxAfter(b, n)
    /\ number = RxNumber(f, n)

\* A frame that the tasklet has not passed on yet but marked free is not in the
\* ring any more, and the NIC may fill its descriptor again.
RxFirst == IF rx.pc = "pass" THEN RxAfter(nextRx, 1) ELSE nextRx
RxNextNumber == RxNumber(handled, IF rx.pc = "pass" THEN 2 ELSE 1)

RxInv ==
    /\ Rx!TypeOK
    /\ rx.pc \in {"free", "pass"} => rx.skb = RxNumber(handled, 1)
    /\ rx.pc = "free" => rxd[nextRx] = rx.skb
    /\ \E n \in 0 .. RxNDesc : RxHolds(rxd, rxHw, arrived, RxFirst, RxNextNumber, n)

LEMMA RxConstants == RxNDesc \in Nat \ {0} /\ RxFrames \in Nat /\ RxFrames > RxNDesc + 1
BY PartsConstants DEF Rx!ConstantsOK

LEMMA RxStep ==
    /\ \A d \in Rx!Desc : Rx!NextDesc(d) = RxAfter(d, 1) /\ RxAfter(d, 1) \in Rx!Desc
    /\ \A f \in Rx!Number : Rx!NextFrame(f) = RxNumber(f, 1) /\ RxNumber(f, 1) \in Rx!Number
<1> USE RxConstants
<1>1. ASSUME NEW d \in Rx!Desc PROVE Rx!NextDesc(d) = RxAfter(d, 1) /\ RxAfter(d, 1) \in Rx!Desc
  <2>1. d \in 0 .. RxNDesc - 1 /\ 1 \in 0 .. RxNDesc
    BY DEF Rx!Desc
  <2>2. (d + 1) % RxNDesc = RxAfter(d, 1)
    BY <2>1, RingPlus DEF RxAfter
  <2> QED
    BY <2>2 DEF RxAfter, Rx!Desc, Rx!NextDesc
<1>2. ASSUME NEW f \in Rx!Number
      PROVE  Rx!NextFrame(f) = RxNumber(f, 1) /\ RxNumber(f, 1) \in Rx!Number
  <2>1. f \in 0 .. RxFrames - 1 /\ 1 \in 0 .. RxFrames /\ RxFrames \in Nat \ {0}
    BY DEF Rx!Number
  <2>2. (f + 1) % RxFrames = RxNumber(f, 1)
    BY <2>1, RingPlus DEF RxNumber
  <2> QED
    BY <2>2 DEF RxNumber, Rx!Number, Rx!NextFrame
<1> QED
  BY <1>1, <1>2

\* What is in the ring is seen at its first descriptor and at the NIC's.
LEMMA RxLook ==
    ASSUME NEW descs, NEW d, NEW number, NEW b \in Rx!Desc, NEW f \in Rx!Number,
           NEW n \in 0 .. RxNDesc, RxHolds(descs, d, number, b, f, n)
    PROVE  /\ descs[b] = IF n = 0 THEN Rx!NoFrame ELSE f
           /\ descs[d] = IF n < RxNDesc THEN Rx!NoFrame ELSE f
           /\ d \in Rx!Desc /\ f # Rx!NoFrame
<1> USE RxConstants DEF Rx!Desc, Rx!Number, Rx!NoFrame, RxHolds, RxAfter, RxAhead, RxNumber
<1>1. RxAhead(b, b) = 0 /\ RxNumber(f, 0) = f
  OBVIOUS
<1>2. d \in Rx!Desc /\ RxAhead(b, d) = IF n < RxNDesc THEN n ELSE 0
  OBVIOUS
<1> QED
  BY <1>1, <1>2

LEMMA RxFill ==
    ASSUME NEW descs \in [Rx!Desc -> Rx!Number \cup {Rx!NoFrame}], NEW d, NEW number,
           NEW b \in Rx!Desc, NEW f \in Rx!Number,
           NEW n \in 0 .. RxNDesc - 1, RxHolds(descs, d, number, b, f, n)
    PROVE  RxHolds([descs EXCEPT ![d] = number], RxAfter(d, 1), RxNumber(number, 1), b, f, n + 1)
<1> USE RxConstants DEF Rx!Desc, Rx!Number, Rx!NoFrame, RxAfter, RxAhead, RxNumber
<1> DEFINE more == [descs EXCEPT ![d] = number]
<1>1. d \in Rx!Desc /\ RxAhead(b, d) = n /\ d = RxAfter(b, n) /\ number = RxNumber(f, n)
  BY DEF RxHolds
<1>2. ASSUME NEW e \in Rx!Desc
      PROVE  more[e] = IF RxAhead(b, e) < n + 1 THEN RxNumber(f, RxAhead(b, e)) ELSE Rx!NoFrame
  <2>1. CASE e = d
    BY <1>1, <2>1
  <2>2. CASE e # d
    <3>1. RxAhead(b, e) # n
      BY <1>1, <2>2
    <3>2. more[e] = descs[e]
      BY <2>2
    <3>3. RxAhead(b, e) \in Int
      OBVIOUS
    <3>4. RxAhead(b, e) < n + 1 <=> RxAhead(b, e) < n
      BY ONLY <3>1, <3>3, n \in 0 .. RxNDesc - 1, RxConstants
    <3> QED
      BY <3>2, <3>4 DEF RxHolds
  <2> QED
    BY <2>1, <2>2
<1>3. RxAfter(d, 1) = RxAfter(b, n + 1) /\ RxNumber(number, 1) = RxNumber(f, n + 1)
  BY <1>1
<1> HIDE DEF more
<1> QED
  BY <1>2, <1>3 DEF RxHolds, more

LEMMA RxTake ==
    ASSUME NEW descs \in [Rx!Desc -> Rx!Number \cup {Rx!NoFrame}], NEW d, NEW number,
           NEW b \in Rx!Desc, NEW f \in Rx!Number,
           NEW n \in 1 .. RxNDesc, RxHolds(descs, d, number, b, f, n)
    PROVE  RxHolds([descs EXCEPT ![b] = Rx!NoFrame], d, number, RxAfter(b, 1), RxNumber(f, 1),
             n - 1)
<1> USE RxConstants DEF Rx!Desc, Rx!Number, RxAfter, RxAhead, RxNumber
<1> DEFINE less == [descs EXCEPT ![b] = Rx!NoFrame]
           c == RxAfter(b, 1)
           g == RxNumber(f, 1)
<1>1. d = RxAfter(b, n) /\ number = RxNumber(f, n)
  BY DEF RxHolds
<1>2. ASSUME NEW e \in Rx!Desc
      PROVE  less[e] = IF RxAhead(c, e) < n - 1 THEN RxNumber(g, RxAhead(c, e)) ELSE Rx!NoFrame
  <2>1. CASE e = b
    <3>1. RxAhead(c, e) = RxNDesc - 1
      BY <2>1
    <3> QED
      BY <2>1, <3>1
  <2>2. CASE e # b
    <3>1. RxAhead(b, e) = RxAhead(c, e) + 1 /\ RxAhead(c, e) \in 0 .. RxNDesc - 1
      BY <2>2
    <3>2. less[e] = descs[e]
      BY <2>2
    <3>3. RxNumber(g, RxAhead(c, e)) = RxNumber(f, RxAhead(b, e))
      BY <3>1
    <3>4. descs[e] = IF RxAhead(b, e) < n THEN RxNumber(f, RxAhead(b, e)) ELSE Rx!NoFrame
      BY DEF RxHolds
    <3> HIDE DEF c, g, RxAhead, RxNumber, less
    <3>5. RxAhead(b, e) < n <=> RxAhead(c, e) < n - 1
      BY <3>1
    <3> QED
      BY <3>2, <3>3, <3>4, <3>5
  <2> QED
    BY <2>1, <2>2
<1>3. d = RxAfter(c, n - 1) /\ number = RxNumber(g, n - 1)
  BY <1>1
<1> HIDE DEF less, c, g
<1> QED
  BY <1>2, <1>3 DEF RxHolds, less, c, g

LEMMA RxInit == Init => RxInv
<1> SUFFICES ASSUME Rx!Init PROVE RxInv
  BY DEF Init
<1> USE RxConstants
<1>1. /\ rxd = [d \in Rx!Desc |-> Rx!NoFrame] /\ rxHw = 0 /\ arrived = 0 /\ nextRx = 0
      /\ rcomp = FALSE /\ rxTlet = FALSE /\ handled = RxFrames - 1
      /\ rx = [pc |-> "idle", skb |-> Rx!NoFrame]
  BY DEF Rx!Init
<1>2. Rx!TypeOK
  <2>1. 0 \in Rx!Desc /\ 0 \in Rx!Number /\ RxFrames - 1 \in Rx!Number
    BY DEF Rx!Desc, Rx!Number
  <2> QED
    BY <1>1, <2>1 DEF Rx!TypeOK
<1>3. RxFirst = 0 /\ RxNextNumber = 0
  BY <1>1 DEF RxFirst, RxNextNumber, RxNumber
<1>4. RxHolds(rxd, rxHw, arrived, 0, 0, 0)
  BY <1>1 DEF RxHolds, RxAhead, RxAfter, RxNumber, Rx!Desc
<1>5. 0 \in 0 .. RxNDesc
  OBVIOUS
<1> QED
  BY <1>1, <1>2, <1>3, <1>4, <1>5 DEF RxInv

\* A step of the tasklet that leaves the ring alone.
LEMMA RxLeaves ==
    ASSUME RxInv, UNCHANGED <<rxd, rxHw, arrived>>, Rx!TypeOK',
           RxFirst' = RxFirst, RxNextNumber' = RxNextNumber,
           rx'.pc \in {"free", "pass"} => rx'.skb = RxNumber(handled', 1),
           rx'.pc = "free" => rxd'[nextRx'] = rx'.skb
    PROVE  RxInv'
BY DEF RxInv

LEMMA RxBase == ASSUME RxInv PROVE RxFirst \in Rx!Desc /\ RxNextNumber \in Rx!Number
<1>1. nextRx \in Rx!Desc /\ handled \in Rx!Number
  BY DEF RxInv, Rx!TypeOK
<1> QED
  BY <1>1, RxConstants DEF RxFirst, RxNextNumber, RxAfter, RxNumber, Rx!Desc, Rx!Number

LEMMA RxNext == RxInv /\ [Next]_vars => RxInv'
<1> SUFFICES ASSUME RxInv, Rx!Next \/ UNCHANGED rxVars PROVE RxInv'
  BY DEF Next, vars
<1> USE RxConstants
<1>t. Rx!TypeOK
  BY DEF RxInv
<1>b. RxFirst \in Rx!Desc /\ RxNextNumber \in Rx!Number
  BY RxBase
<1>n. PICK n \in 0 .. RxNDesc : RxHolds(rxd, rxHw, arrived, RxFirst, RxNextNumber, n)
  BY DEF RxInv
<1>l. /\ rxd[RxFirst] = IF n = 0 THEN Rx!NoFrame ELSE RxNextNumber
      /\ rxd[rxHw] = IF n < RxNDesc THEN Rx!NoFrame ELSE RxNextNumber
      /\ rxHw \in Rx!Desc /\ RxNextNumber # Rx!NoFrame
  BY <1>b, <1>n, RxLook
<1>1. CASE Rx!Receive
  <2>1. /\ rxd' = [rxd EXCEPT ![rxHw] = arrived] /\ rxHw' = RxAfter(rxHw, 1)
        /\ arrived' = RxNumber(arrived, 1) /\ rcomp' = TRUE /\ rxd[rxHw] = Rx!NoFrame
        /\ UNCHANGED <<nextRx, rxTlet, rx, handled>>
    BY <1>1, <1>t, RxStep DEF Rx!Receive, Rx!TypeOK
  <2>2. n \in 0 .. RxNDesc - 1
    BY <1>l, <2>1
  <2>3. RxHolds(rxd', rxHw', arrived', RxFirst, RxNextNumber, n + 1)
    <3>1. rxd \in [Rx!Desc -> Rx!Number \cup {Rx!NoFrame}]
      BY <1>t DEF Rx!TypeOK
    <3> QED
      BY <3>1, <1>b, <1>n, <2>1, <2>2, RxFill
  <2>4. RxFirst' = RxFirst /\ RxNextNumber' = RxNextNumber
    BY <2>1 DEF RxFirst, RxNextNumber
  <2>5. Rx!TypeOK'
    BY <1>t, <2>1, RxStep DEF Rx!TypeOK
  <2>6. rx.pc = "free" => rxd'[nextRx] = rx.skb
    <3>1. ASSUME rx.pc = "free" PROVE nextRx # rxHw
      BY <1>l, <2>1, <2>2, <3>1, <1>t DEF RxInv, Rx!TypeOK, RxNumber, Rx!NoFrame, Rx!Number
    <3> QED
      BY <3>1, <2>1, <1>t DEF RxInv, Rx!TypeOK
  <2>7. n + 1 \in 0 .. RxNDesc
    BY <2>2
  <2> QED
    BY <2>1, <2>3, <2>4, <2>5, <2>6, <2>7 DEF RxInv
<1>2. CASE Rx!RxInterrupt
  <2>1. UNCHANGED <<rxd, rxHw, arrived, nextRx, rx, handled>> /\ rcomp' = FALSE /\ rxTlet' = TRUE
    BY <1>2 DEF Rx!RxInterrupt
  <2> QED
    BY <2>1, <1>t, RxLeaves DEF RxInv, Rx!TypeOK, RxFirst, RxNextNumber
<1>3. CASE Rx!Start \/ Rx!LookEmpty \/ Rx!End
  <2>1. /\ UNCHANGED <<rxd, rxHw, arrived, nextRx, rcomp, handled>> /\ rxTlet' \in BOOLEAN
        /\ rx.pc # "pass" /\ rx'.pc \in {"idle", "look", "end"} /\ rx'.skb = rx.skb
        /\ rx' \in [pc : {"idle", "look", "end", "free", "pass"},
                    skb : Rx!Number \cup {Rx!NoFrame}]
    BY <1>3, <1>t DEF Rx!Start, Rx!LookEmpty, Rx!End, Rx!TypeOK
  <2> QED
    BY <2>1, <1>t, RxLeaves DEF RxInv, Rx!TypeOK, RxFirst, RxNextNumber
<1>4. CASE Rx!CopyIn
  <2>1. /\ UNCHANGED <<rxd, rxHw, arrived, nextRx, rcomp, rxTlet, handled>>
        /\ rx.pc = "look" /\ rx' = [pc |-> "free", skb |-> rxd[nextRx]]
        /\ rxd[nextRx] # Rx!NoFrame
    BY <1>4 DEF Rx!CopyIn
  <2>2. RxFirst = nextRx /\ RxNextNumber = RxNumber(handled, 1)
        /\ RxFirst' = RxFirst /\ RxNextNumber' = RxNextNumber
    BY <2>1 DEF RxFirst, RxNextNumber
  <2>3. rxd[nextRx] = RxNumber(handled, 1)
    BY <1>l, <2>1, <2>2
  <2>4. Rx!TypeOK'
    BY <1>t, <2>1 DEF Rx!TypeOK
  <2> QED
    BY <2>1, <2>2, <2>3, <2>4, RxLeaves
<1>5. CASE Rx!MarkFree
  <2>1. /\ rx.pc = "free" /\ rxd' = [rxd EXCEPT ![nextRx] = Rx!NoFrame]
        /\ rx' = [rx EXCEPT !.pc = "pass"]
        /\ UNCHANGED <<rxHw, arrived, nextRx, rcomp, rxTlet, handled>>
    BY <1>5 DEF Rx!MarkFree
  <2>2. rx' \in [pc : {"idle", "look", "end", "free", "pass"}, skb : Rx!Number \cup {Rx!NoFrame}]
        /\ rx'.pc = "pass" /\ rx'.skb = rx.skb
    BY <1>t, <2>1 DEF Rx!TypeOK
  <2>3. /\ RxFirst = nextRx /\ RxNextNumber = RxNumber(handled, 1)
        /\ RxFirst' = RxAfter(RxFirst, 1) /\ RxNextNumber' = RxNumber(RxNextNumber, 1)
    <3>1. RxNumber(handled, 2) = RxNumber(RxNumber(handled, 1), 1)
      BY <1>t DEF Rx!TypeOK, RxNumber, Rx!Number
    <3> QED
      BY <2>1, <2>2, <3>1 DEF RxFirst, RxNextNumber
  <2>4. n \in 1 .. RxNDesc
    <3>1. rxd[nextRx] = RxNextNumber
      BY <2>1, <2>3 DEF RxInv
    <3> QED
      BY <3>1, <1>l, <2>3
  <2>5. RxHolds(rxd', rxHw', arrived', RxFirst', RxNextNumber', n - 1)
    <3>1. rxd \in [Rx!Desc -> Rx!Number \cup {Rx!NoFrame}]
      BY <1>t DEF Rx!TypeOK
    <3>2. RxHolds([rxd EXCEPT ![RxFirst] = Rx!NoFrame], rxHw, arrived, RxAfter(RxFirst, 1),
                  RxNumber(RxNextNumber, 1), n - 1)
      BY <3>1, <1>b, <1>n, <2>4, RxTake
    <3> QED
      BY <2>1, <2>3, <3>2
  <2>6. Rx!TypeOK'
    BY <1>t, <2>1, <2>2 DEF Rx!TypeOK
  <2>7. n - 1 \in 0 .. RxNDesc
    BY <2>4
  <2> QED
    BY <2>1, <2>2, <2>5, <2>6, <2>7 DEF RxInv
<1>6. CASE Rx!Pass
  <2>1. /\ rx.pc = "pass" /\ handled' = rx.skb /\ nextRx' = RxAfter(nextRx, 1)
        /\ rx' = [pc |-> "look", skb |-> Rx!NoFrame]
        /\ UNCHANGED <<rxd, rxHw, arrived, rcomp, rxTlet>>
    BY <1>6, <1>t, RxStep DEF Rx!Pass, Rx!TypeOK
  <2>2. handled' = RxNumber(handled, 1)
    BY <2>1 DEF RxInv
  <2>3. handled \in Rx!Number /\ handled' \in Rx!Number /\ nextRx' \in Rx!Desc
    BY <1>t, <2>1, <2>2, RxStep DEF Rx!TypeOK
  <2>4. RxFirst' = RxFirst /\ RxNextNumber' = RxNextNumber
    <3>1. RxNumber(handled, 2) = RxNumber(RxNumber(handled, 1), 1)
      BY <2>3 DEF RxNumber, Rx!Number
    <3> QED
      BY <2>1, <2>2, <3>1 DEF RxFirst, RxNextNumber
  <2>5. Rx!TypeOK'
    BY <1>t, <2>1, <2>3 DEF Rx!TypeOK
  <2> QED
    BY <2>1, <2>4, <2>5, RxLeaves
<1>7. CASE UNCHANGED rxVars
  <2>1. UNCHANGED <<rxd, rxHw, arrived, nextRx, rcomp, rxTlet, rx, handled>>
    BY <1>7 DEF rxVars
  <2> QED
    BY <2>1, <1>t, RxLeaves DEF RxInv, Rx!TypeOK, RxFirst, RxNextNumber
<1> QED
  BY <1>1, <1>2, <1>3, <1>4, <1>5, <1>6, <1>7 DEF Rx!Next, Rx!RxTasklet

\* wrn_rx_interrupt(): frames are passed on in the order in which they arrived,
\* none twice and none left out, for a ring of any size and however the NIC fills
\* descriptors while the tasklet frees them.
THEOREM FramesInOrder == Spec => Rx!InOrder
<1>1. RxInv /\ [Next]_vars => [handled' # handled => handled' = Rx!NextFrame(handled)]_(Rx!vars)
  <2> SUFFICES ASSUME RxInv, Rx!Next, handled' # handled
               PROVE  handled' = Rx!NextFrame(handled)
    BY DEF Next, vars, rxVars, Rx!vars
  <2>1. Rx!Pass
    BY DEF Rx!Next, Rx!Receive, Rx!RxInterrupt, Rx!RxTasklet, Rx!Start, Rx!LookEmpty, Rx!End,
         Rx!CopyIn, Rx!MarkFree
  <2> QED
    BY <2>1, RxStep DEF RxInv, Rx!Pass, Rx!TypeOK
<1> QED
  BY <1>1, RxInit, RxNext, PTL DEF Spec, Rx!InOrder

-----------------------------------------------------------------------------
(* The registers of a PHY                                                  *)

\* An ioctl has its submap until it returns.
MdioSubmap ==
    submap = IF io.pc \in {"address", "data", "check", "write", "result"} THEN io.map ELSE "phy"

\* While the timer has not fired since the address was written, the controller
\* and the data are those of the process; it fires once at most in an attempt, and
\* if it came before the data were taken, they are of the address that it left.
MdioAttempt ==
    /\ io.pc = "data" => latch.map = io.map /\ latch.reg = addr /\ (~polled => addr = io.reg)
    /\ io.pc = "check" =>
        /\ io.data.map = io.map
        /\ polled => io.data.reg \in {io.reg, addr}
        /\ ~polled => io.data.reg = io.reg /\ addr = io.reg

MdioRetriesLeft ==
    /\ io.pc \in {"address", "data", "check"} => io.left > 0
    /\ io.pc = "write" => io.left = 0

\* Only an interface that is up is worked on.
MdioOpened ==
    /\ timer \/ carrier \/ io.pc # "idle" => opened
    /\ io.pc = "down" => ~timer

MdioInv ==
    /\ Mdio!TypeOK /\ MdioSubmap /\ MdioAttempt /\ MdioRetriesLeft /\ MdioOpened
    /\ Mdio!ReadRight

LEMMA MdioConstants == MdioRetries \in Nat \ {0}
BY PartsConstants DEF Mdio!ConstantsOK

LEMMA MdioInit == Init => MdioInv
<1> SUFFICES ASSUME Mdio!Init PROVE MdioInv
  BY DEF Init
<1>1. /\ io = Mdio!NoIo /\ polled = FALSE /\ submap = "phy" /\ addr = "BMCR"
      /\ latch = Mdio!Nothing /\ phyUp \in BOOLEAN /\ aneg = FALSE
      /\ opened = FALSE /\ timer = FALSE /\ carrier = FALSE
  BY DEF Mdio!Init
<1>2. Mdio!TypeOK
  <2>1. Mdio!Nothing \in [map : Mdio!Maps, reg : Mdio!Regs]
    BY DEF Mdio!Nothing, Mdio!Maps, Mdio!Regs
  <2>2. 0 \in 0 .. MdioRetries /\ "phy" \in Mdio!Maps /\ "BMCR" \in Mdio!Regs
    BY MdioConstants DEF Mdio!Maps, Mdio!Regs
  <2> QED
    BY <1>1, <2>1, <2>2 DEF Mdio!TypeOK, Mdio!NoIo
<1> QED
  BY <1>1, <1>2 DEF MdioInv, MdioSubmap, MdioAttempt, MdioRetriesLeft, MdioOpened,
       Mdio!ReadRight, Mdio!NoIo

LEMMA MdioNext == MdioInv /\ [Next]_vars => MdioInv'
<1> SUFFICES ASSUME MdioInv, Mdio!Next \/ UNCHANGED mdioVars PROVE MdioInv'
  BY DEF Next, vars
<1> USE MdioConstants DEF MdioInv, MdioSubmap, MdioAttempt, MdioRetriesLeft, MdioOpened,
       Mdio!ReadRight, Mdio!TypeOK, Mdio!Maps
<1>1. ASSUME NEW r \in Mdio!Regs, Mdio!IoctlPhy(r) PROVE MdioInv'
  <2>1. io' = [pc |-> "address", map |-> "phy", reg |-> r, data |-> Mdio!Nothing,
               left |-> MdioRetries]
    BY ONLY <1>1 DEF Mdio!IoctlPhy, Mdio!NoIo
  <2>2. Mdio!Nothing \in [map : Mdio!Maps, reg : Mdio!Regs] /\ MdioRetries \in 0 .. MdioRetries
    BY DEF Mdio!Nothing, Mdio!Regs
  <2>3. /\ UNCHANGED <<phyUp, aneg, submap, addr, latch, opened, timer, carrier, polled>>
        /\ opened /\ io.pc = "idle"
    BY ONLY <1>1 DEF Mdio!IoctlPhy
  <2> QED
    BY <1>1, <2>1, <2>2, <2>3
<1>2. ASSUME NEW r \in Mdio!Regs, Mdio!IoctlLpdc(r) PROVE MdioInv'
  <2>1. io' = [pc |-> "address", map |-> "lpdc", reg |-> r, data |-> Mdio!Nothing,
               left |-> MdioRetries]
    BY <1>2 DEF Mdio!IoctlLpdc, Mdio!NoIo
  <2>2. Mdio!Nothing \in [map : Mdio!Maps, reg : Mdio!Regs] /\ MdioRetries \in 0 .. MdioRetries
    BY DEF Mdio!Nothing, Mdio!Regs
  <2>3. /\ UNCHANGED <<phyUp, aneg, addr, latch, opened, timer, carrier, polled>>
        /\ opened /\ submap' = "lpdc"
    BY ONLY <1>2 DEF Mdio!IoctlLpdc
  <2> QED
    BY <1>2, <2>1, <2>2, <2>3
<1>3. ASSUME NEW m \in Mdio!Maps, NEW r \in Mdio!Regs, Mdio!IoctlWrite(m, r) PROVE MdioInv'
  <2>1. io' = [pc |-> "write", map |-> m, reg |-> r, data |-> Mdio!Nothing, left |-> 0]
    BY ONLY <1>3 DEF Mdio!IoctlWrite, Mdio!NoIo
  <2>2. Mdio!Nothing \in [map : Mdio!Maps, reg : Mdio!Regs] /\ 0 \in 0 .. MdioRetries
    BY DEF Mdio!Nothing, Mdio!Regs
  <2>3. /\ UNCHANGED <<phyUp, aneg, addr, latch, opened, timer, carrier, polled>>
        /\ opened /\ submap' = m
    BY ONLY <1>3 DEF Mdio!IoctlWrite
  <2> QED
    BY <1>3, <2>1, <2>2, <2>3
<1>4. CASE Mdio!WriteRegister
  BY <1>4 DEF Mdio!WriteRegister, Mdio!Step
<1>5. CASE Mdio!WriteAddress
  BY <1>5 DEF Mdio!WriteAddress, Mdio!ReadReg, Mdio!Step
<1>6. CASE Mdio!TakeData
  BY <1>6 DEF Mdio!TakeData
<1>7. CASE Mdio!CheckAddress
  <2>1. CASE addr = io.reg
    BY <1>7, <2>1 DEF Mdio!CheckAddress
  <2>2. CASE addr # io.reg
    <3>1. io.left - 1 \in 0 .. MdioRetries /\ (io.left # 1 => io.left - 1 > 0)
      BY <1>7 DEF Mdio!CheckAddress
    <3>2. io' = [pc |-> IF io.left = 1 THEN "result" ELSE "address", map |-> io.map,
                 reg |-> io.reg, data |-> io.data, left |-> io.left - 1]
      BY <1>7, <2>2 DEF Mdio!CheckAddress
    <3>3. CASE io.left = 1
      BY <1>7, <2>2, <3>1, <3>2, <3>3 DEF Mdio!CheckAddress
    <3>4. CASE io.left # 1
      BY <1>7, <2>2, <3>1, <3>2, <3>4 DEF Mdio!CheckAddress
    <3> QED
      BY <3>3, <3>4
  <2> QED
    BY <2>1, <2>2
<1>8. CASE Mdio!Return
  BY <1>8 DEF Mdio!Return, Mdio!Step
<1>9. CASE Mdio!Open
  BY <1>9 DEF Mdio!Open, Mdio!Regs
<1>10. CASE Mdio!Close
  BY <1>10 DEF Mdio!Close, Mdio!Step, Mdio!Regs
<1>11. CASE Mdio!DelTimer
  BY <1>11 DEF Mdio!DelTimer, Mdio!Step
<1>12. CASE Mdio!CarrierOff
  BY <1>12 DEF Mdio!CarrierOff, Mdio!Step
<1>13. CASE Mdio!CheckLink
  BY <1>13 DEF Mdio!CheckLink, Mdio!ReadReg, Mdio!Bit, Mdio!Regs
<1>14. CASE Mdio!PhyChange
  <2>1. phyUp' \in BOOLEAN /\ aneg' \in BOOLEAN
    BY <1>14, Zenon DEF Mdio!PhyChange, MdioInv, Mdio!TypeOK
  <2> QED
    BY <1>14, <2>1 DEF Mdio!PhyChange
<1>15. CASE UNCHANGED mdioVars
  BY <1>15 DEF mdioVars
<1> HIDE DEF MdioInv
<1> QED
  BY <1>1, <1>2, <1>3, <1>4, <1>5, <1>6, <1>7, <1>8, <1>9, <1>10, <1>11, <1>12, <1>13, <1>14,
     <1>15 DEF Mdio!Next, Mdio!Ioctl, Mdio!Continue

\* wrn_phy_read(): "be sure we read value from requested register", for any number
\* of retries and whatever the link timer reads in between; an interface that is
\* closed has no carrier, and no timer is armed that could give it one.
THEOREM ReadsAreRight == Spec => [](Mdio!ReadRight /\ Mdio!ClosedIsOff)
<1>1. MdioInv => Mdio!ReadRight /\ Mdio!ClosedIsOff
  BY DEF MdioInv, MdioOpened, Mdio!TypeOK, Mdio!ClosedIsOff
<1> QED
  BY <1>1, MdioInit, MdioNext, PTL DEF Spec

-----------------------------------------------------------------------------
(* The second of a time stamp *)

\* Where the PPS generator is now.
StampClock ==
    \/ sec = job.at /\ cnt = job.ts + job.age
    \/ sec = job.at + 1 /\ cnt + Stamp!Freq = job.ts + job.age

\* The tick count was read in a second from lo to hi.
StampCntIn(lo, hi) ==
    \/ /\ lo <= job.at /\ job.at <= hi
       /\ job.ts <= job.cnt /\ job.cnt <= job.ts + job.age
    \/ /\ lo <= job.at + 1 /\ job.at + 1 <= hi
       /\ job.cnt + Stamp!Freq <= job.ts + job.age

StampReads ==
    /\ job.pc \in {"cnt", "utc2"} => job.at <= job.utc1 /\ job.utc1 <= sec
    /\ job.pc = "utc2" => StampCntIn(job.utc1, sec)
    /\ job.pc = "again" => job.utc2 = job.at + 1 /\ sec = job.at + 1
    /\ job.pc = "correct" => StampCntIn(job.utc2, job.utc2)

StampInv ==
    /\ Stamp!TypeOK
    /\ (job.pc # "idle" /\ job.age < Stamp!Freq) => StampClock /\ StampReads
    /\ Stamp!SecondRight

\* A second has at least four ticks.
LEMMA StampFreqRange ==
    ASSUME Stamp!ConstantsOK
    PROVE  Stamp!Freq \in Nat /\ Stamp!Freq >= 4 /\ StampQuarter < Stamp!Freq
BY SMT DEF Stamp!ConstantsOK, Stamp!Freq

\* Every initial state satisfies the inductive invariant.
LEMMA StampInit == ASSUME Stamp!ConstantsOK PROVE Stamp!Init => StampInv
BY SMT DEF Stamp!ConstantsOK, Stamp!Init, StampInv, Stamp!TypeOK, Stamp!Jobs,
   Stamp!SecondRight, Stamp!NoJob, Stamp!Freq

\* Every step preserves the types.
LEMMA StampTypeStep ==
    ASSUME Stamp!ConstantsOK, Stamp!TypeOK, [Stamp!Next]_(Stamp!vars)
    PROVE  Stamp!TypeOK'
<1>f. Stamp!Freq \in Nat /\ Stamp!Freq >= 4 /\ StampMaxSec \in Nat
  BY StampFreqRange DEF Stamp!ConstantsOK
<1>1. sec' \in 0 .. StampMaxSec /\ cnt' \in 0 .. Stamp!Freq - 1
  <2>1. CASE Stamp!Tick
    BY <2>1, <1>f, SMT DEF Stamp!Tick, Stamp!TypeOK
  <2>2. CASE UNCHANGED <<sec, cnt>>
    BY <2>2, <1>f, SMT DEF Stamp!TypeOK
  <2> QED
    BY <2>1, <2>2 DEF Stamp!Next, Stamp!vars, Stamp!Stamp, Stamp!ReadUtc1, Stamp!ReadCnt,
       Stamp!ReadUtc2, Stamp!ReadAgain, Stamp!Correct, Stamp!Finish
<1>2. job' \in Stamp!Jobs
  <2>1. CASE Stamp!Tick
    BY <2>1, <1>f, SMT DEF Stamp!Tick, Stamp!TypeOK, Stamp!Jobs
  <2>2. ASSUME NEW kind \in {"rx", "tx"}, Stamp!Stamp(kind) PROVE job' \in Stamp!Jobs
    BY <2>2, <1>f, SMT DEF Stamp!Stamp, Stamp!TypeOK, Stamp!Jobs
  <2>3. CASE Stamp!ReadUtc1
    <3> DEFINE j == [job EXCEPT !.pc = "cnt"]
    <3>1. j \in Stamp!Jobs
      BY SMT DEF Stamp!TypeOK, Stamp!Jobs
    <3>2. job' = [j EXCEPT !.utc1 = sec]
      BY <2>3 DEF Stamp!ReadUtc1
    <3>3. sec \in 0 .. StampMaxSec
      BY <1>f, SMT DEF Stamp!TypeOK, Stamp!Jobs
    <3> HIDE DEF j
    <3> QED
      BY <3>1, <3>2, <3>3, SMT DEF Stamp!Jobs
  <2>4. CASE Stamp!ReadCnt
    <3> DEFINE j == [job EXCEPT !.pc = "utc2"]
    <3>1. j \in Stamp!Jobs
      BY SMT DEF Stamp!TypeOK, Stamp!Jobs
    <3>2. job' = [j EXCEPT !.cnt = cnt]
      BY <2>4 DEF Stamp!ReadCnt
    <3>3. cnt \in 0 .. Stamp!Freq - 1
      BY <1>f, SMT DEF Stamp!TypeOK, Stamp!Jobs
    <3> HIDE DEF j
    <3> QED
      BY <3>1, <3>2, <3>3, SMT DEF Stamp!Jobs
  <2>5. CASE Stamp!ReadUtc2
    <3> DEFINE j == [job EXCEPT !.pc = IF sec # job.utc1 THEN "again" ELSE "correct"]
    <3>1. j \in Stamp!Jobs
      BY SMT DEF Stamp!TypeOK, Stamp!Jobs
    <3>2. job' = [j EXCEPT !.utc2 = sec]
      BY <2>5 DEF Stamp!ReadUtc2
    <3>3. sec \in 0 .. StampMaxSec
      BY <1>f, SMT DEF Stamp!TypeOK, Stamp!Jobs
    <3> HIDE DEF j
    <3> QED
      BY <3>1, <3>2, <3>3, SMT DEF Stamp!Jobs
  <2>6. CASE Stamp!ReadAgain
    <3> DEFINE j == [job EXCEPT !.pc = "correct"]
    <3>1. j \in Stamp!Jobs
      BY SMT DEF Stamp!TypeOK, Stamp!Jobs
    <3>2. job' = [j EXCEPT !.cnt = cnt]
      BY <2>6 DEF Stamp!ReadAgain
    <3>3. cnt \in 0 .. Stamp!Freq - 1
      BY <1>f, SMT DEF Stamp!TypeOK, Stamp!Jobs
    <3> HIDE DEF j
    <3> QED
      BY <3>1, <3>2, <3>3, SMT DEF Stamp!Jobs
  <2>7. CASE Stamp!Correct
    <3> DEFINE j == [job EXCEPT !.pc = "done"]
    <3>1. j \in Stamp!Jobs
      BY SMT DEF Stamp!TypeOK, Stamp!Jobs
    <3>2. job' = [j EXCEPT !.utc = IF Stamp!Later THEN job.utc2 - 1 ELSE job.utc2]
      BY <2>7 DEF Stamp!Correct
    <3>3. (IF Stamp!Later THEN job.utc2 - 1 ELSE job.utc2) \in -1 .. StampMaxSec
      BY <1>f, SMT DEF Stamp!TypeOK, Stamp!Jobs
    <3> HIDE DEF j
    <3> QED
      BY <3>1, <3>2, <3>3, SMT DEF Stamp!Jobs
  <2>8. CASE Stamp!Finish
    BY <2>8, <1>f, SMT DEF Stamp!Finish, Stamp!TypeOK, Stamp!Jobs, Stamp!NoJob
  <2>9. CASE UNCHANGED Stamp!vars
    BY <2>9 DEF Stamp!vars, Stamp!TypeOK
  <2> QED
    BY <2>1, <2>2, <2>3, <2>4, <2>5, <2>6, <2>7, <2>8, <2>9 DEF Stamp!Next
<1> QED
  BY <1>1, <1>2 DEF Stamp!TypeOK

\* The correction is right when the tick count is of the second that was read
\* and the driver is in time.
LEMMA StampCorrection ==
    ASSUME Stamp!ConstantsOK, Stamp!TypeOK, Stamp!InTime, StampCntIn(job.utc2, job.utc2)
    PROVE  (IF Stamp!Later THEN job.utc2 - 1 ELSE job.utc2) = job.at
<1>1. CASE job.kind = "tx"
  BY <1>1, SMT DEF Stamp!ConstantsOK, Stamp!TypeOK, Stamp!Jobs, Stamp!InTime, StampCntIn,
     Stamp!Later, Stamp!Freq
<1>2. CASE job.kind = "rx"
  BY <1>2, SMT DEF Stamp!ConstantsOK, Stamp!TypeOK, Stamp!Jobs, Stamp!InTime, StampCntIn,
     Stamp!Later, Stamp!Freq
<1> QED
  BY <1>1, <1>2 DEF Stamp!TypeOK, Stamp!Jobs

\* Every step preserves the inductive invariant.
LEMMA StampNext == ASSUME Stamp!ConstantsOK, StampInv, [Stamp!Next]_(Stamp!vars) PROVE StampInv'
<1> USE DEF StampInv
<1>1. CASE Stamp!Tick
  BY <1>1, SMT DEF Stamp!ConstantsOK, Stamp!Tick, Stamp!TypeOK, Stamp!Jobs, Stamp!Freq,
     StampClock, StampReads, StampCntIn, Stamp!SecondRight, Stamp!InTime
<1>2. ASSUME NEW kind \in {"rx", "tx"}, Stamp!Stamp(kind) PROVE StampInv'
  <2>1. Stamp!TypeOK'
    BY StampTypeStep
  <2>2. ASSUME job'.age < Stamp!Freq PROVE StampClock' /\ StampReads'
    BY <1>2, <2>2, SMT DEF Stamp!ConstantsOK, Stamp!Stamp, Stamp!TypeOK, Stamp!Jobs,
       Stamp!Freq, Stamp!NoJob, StampClock, StampReads, StampCntIn
  <2>3. Stamp!SecondRight'
    BY <1>2, SMT DEF Stamp!Stamp, Stamp!SecondRight, Stamp!NoJob
  <2> QED
    BY <2>1, <2>2, <2>3
<1>3. CASE Stamp!ReadUtc1
  <2>1. Stamp!TypeOK'
    BY StampTypeStep
  <2>2. ASSUME job'.age < Stamp!Freq PROVE StampClock' /\ StampReads'
    BY <1>3, <2>2, SMT DEF Stamp!ConstantsOK, Stamp!ReadUtc1, Stamp!TypeOK, Stamp!Jobs,
       Stamp!Freq, StampClock, StampReads, StampCntIn
  <2>3. Stamp!SecondRight'
    BY <1>3, SMT DEF Stamp!ReadUtc1, Stamp!TypeOK, Stamp!Jobs, Stamp!SecondRight
  <2> QED
    BY <2>1, <2>2, <2>3
<1>4. CASE Stamp!ReadCnt
  <2>1. Stamp!TypeOK'
    BY StampTypeStep
  <2>2. ASSUME job'.age < Stamp!Freq PROVE StampClock' /\ StampReads'
    BY <1>4, <2>2, SMT DEF Stamp!ConstantsOK, Stamp!ReadCnt, Stamp!TypeOK, Stamp!Jobs,
       Stamp!Freq, StampClock, StampReads, StampCntIn
  <2>3. Stamp!SecondRight'
    BY <1>4, SMT DEF Stamp!ReadCnt, Stamp!TypeOK, Stamp!Jobs, Stamp!SecondRight
  <2> QED
    BY <2>1, <2>2, <2>3
<1>5. CASE Stamp!ReadUtc2
  <2>1. Stamp!TypeOK'
    BY StampTypeStep
  <2>2. ASSUME job'.age < Stamp!Freq PROVE StampClock' /\ StampReads'
    BY <1>5, <2>2, SMT DEF Stamp!ConstantsOK, Stamp!ReadUtc2, Stamp!TypeOK, Stamp!Jobs,
       Stamp!Freq, StampClock, StampReads, StampCntIn
  <2>3. Stamp!SecondRight'
    BY <1>5, SMT DEF Stamp!ReadUtc2, Stamp!TypeOK, Stamp!Jobs, Stamp!SecondRight
  <2> QED
    BY <2>1, <2>2, <2>3
<1>6. CASE Stamp!ReadAgain
  <2>1. Stamp!TypeOK'
    BY StampTypeStep
  <2>2. ASSUME job'.age < Stamp!Freq PROVE StampClock' /\ StampReads'
    BY <1>6, <2>2, SMT DEF Stamp!ConstantsOK, Stamp!ReadAgain, Stamp!TypeOK, Stamp!Jobs,
       Stamp!Freq, StampClock, StampReads, StampCntIn
  <2>3. Stamp!SecondRight'
    BY <1>6, SMT DEF Stamp!ReadAgain, Stamp!TypeOK, Stamp!Jobs, Stamp!SecondRight
  <2> QED
    BY <2>1, <2>2, <2>3
<1>7. CASE Stamp!Correct
  <2>1. Stamp!TypeOK'
    BY StampTypeStep
  <2>3. ASSUME job'.age < Stamp!Freq PROVE StampClock' /\ StampReads'
    BY <1>7, <2>3, SMT DEF Stamp!ConstantsOK, Stamp!Correct, Stamp!TypeOK, Stamp!Jobs,
       Stamp!Freq, StampClock, StampReads
  <2>2. ASSUME Stamp!InTime' PROVE job'.utc = job'.at
    <3>1. Stamp!InTime /\ job.age < Stamp!Freq
      BY <1>7, <2>2, SMT DEF Stamp!ConstantsOK, Stamp!Correct, Stamp!TypeOK, Stamp!Jobs,
         Stamp!InTime, Stamp!Freq
    <3>2. StampCntIn(job.utc2, job.utc2)
      BY <1>7, <3>1, SMT DEF Stamp!Correct, StampReads
    <3> QED
      BY <1>7, <3>1, <3>2, StampCorrection, SMT DEF Stamp!Correct, Stamp!TypeOK, Stamp!Jobs
  <2> QED
    BY <2>1, <2>2, <2>3, <1>7, SMT DEF Stamp!SecondRight, Stamp!Correct
<1>8. CASE Stamp!Finish
  BY <1>8, SMT DEF Stamp!ConstantsOK, Stamp!Finish, Stamp!TypeOK, Stamp!Jobs, Stamp!Freq,
     Stamp!NoJob, Stamp!SecondRight
<1>9. CASE UNCHANGED Stamp!vars
  BY <1>9, SMT DEF Stamp!vars, Stamp!TypeOK, Stamp!Jobs, StampClock, StampReads, StampCntIn,
     Stamp!SecondRight, Stamp!InTime
<1> QED
  BY <1>1, <1>2, <1>3, <1>4, <1>5, <1>6, <1>7, <1>8, <1>9 DEF Stamp!Next

\* The second of every time stamp that is given in time is that of the frame, for
\* every length of the second (wrn_ppsg_read_time(), record_tstamp()).
THEOREM StampsAreRight == Spec => []SecondRight
<1>1. Init => StampInv
  BY PartsConstants, StampInit DEF Init
<1>2. StampInv /\ [Next]_vars => StampInv'
  BY PartsConstants, StampNext DEF Next, vars, stampVars, Stamp!vars
<1>3. StampInv => SecondRight
  BY DEF StampInv, SecondRight
<1> QED
  BY <1>1, <1>2, <1>3, PTL DEF Spec
=============================================================================

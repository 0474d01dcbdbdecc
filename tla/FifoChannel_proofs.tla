--------------------------- MODULE FifoChannel_proofs ---------------------------
(***************************************************************************)
(* What the abstract channel gives its reader, for any producers and any   *)
(* number of items: the items of one thread in the order of its writes,    *)
(* each at most once.                                                      *)
(***************************************************************************)
EXTENDS FifoChannel, SequenceTheorems, TLAPS

\* The claimed places hold the items of one producer in the order of its claims,
PendingInOrder ==
    \A i, j \in 1 .. Len(slots) :
        (i < j /\ slots[i].item[1] = slots[j].item[1]) => slots[i].item[2] < slots[j].item[2]

\* and all of them behind those that were taken.
TakenBeforePending ==
    \A i \in 1 .. Len(delivered), j \in 1 .. Len(slots) :
        delivered[i][1] = slots[j].item[1] => delivered[i][2] < slots[j].item[2]

ChInv ==
    /\ ChTypeOK
    /\ PendingInOrder
    /\ TakenBeforePending
    /\ DeliveredInOrder

--------------------------------------------------------------------------------
\* Appending to a sequence: its length and its elements.
LEMMA AppendPlaces ==
    ASSUME NEW S, NEW s \in Seq(S), NEW x \in S
    PROVE  /\ Append(s, x) \in Seq(S)
           /\ Len(Append(s, x)) = Len(s) + 1
           /\ \A i \in 1 .. Len(s) : Append(s, x)[i] = s[i]
           /\ Append(s, x)[Len(s) + 1] = x
OBVIOUS

\* The tail of a non-empty sequence: its length and its elements.
LEMMA TailPlaces ==
    ASSUME NEW S, NEW s \in Seq(S), s # <<>>
    PROVE  /\ Tail(s) \in Seq(S)
           /\ Len(Tail(s)) = Len(s) - 1
           /\ Len(s) \in Nat \ {0}
           /\ \A i \in 1 .. Len(Tail(s)) : Tail(s)[i] = s[i + 1]
OBVIOUS

\* A new item is the last of its producer.
LEMMA ClaimKeepsInv ==
    ASSUME ChInv, NEW item \in Items, Claim(item)
    PROVE  ChInv'
<1>. DEFINE place == [item |-> item, ready |-> FALSE]
<1>1. /\ slots \in Seq(Slot) /\ delivered \in Seq(Items) /\ delivered' = delivered
      /\ slots' = Append(slots, place) /\ place \in Slot /\ Fresh(item)
  BY DEF ChInv, ChTypeOK, Claim, Slot
<1>2. /\ slots' \in Seq(Slot) /\ Len(slots') = Len(slots) + 1 /\ Len(slots) \in Nat
      /\ \A i \in 1 .. Len(slots) : slots'[i] = slots[i]
      /\ slots'[Len(slots) + 1] = place
  BY <1>1, AppendPlaces
<1>3. PendingInOrder'
  BY <1>1, <1>2 DEF ChInv, PendingInOrder, Fresh
<1>4. TakenBeforePending'
  BY <1>1, <1>2 DEF ChInv, TakenBeforePending, Fresh
<1>5. DeliveredInOrder'
  BY <1>1 DEF ChInv, DeliveredInOrder
<1>. QED  BY <1>1, <1>2, <1>3, <1>4, <1>5 DEF ChInv, ChTypeOK

\* Linking a place changes no item.
LEMMA PublishKeepsInv ==
    ASSUME ChInv, NEW p \in Producers, Publish(p)
    PROVE  ChInv'
<1>1. PICK k \in 1 .. Len(slots) :
        slots' = [slots EXCEPT ![k] = [item |-> slots[k].item, ready |-> TRUE]]
  BY DEF Publish
<1>2. slots \in Seq(Slot) /\ delivered' = delivered
  BY DEF ChInv, ChTypeOK, Publish
<1>3. [item |-> slots[k].item, ready |-> TRUE] \in Slot
  <2>1. slots[k] \in Slot
    BY <1>2, ElementOfSeq
  <2>. QED  BY <2>1 DEF Slot
<1>4. /\ slots' \in Seq(Slot) /\ Len(slots') = Len(slots)
      /\ \A i \in 1 .. Len(slots) : slots'[i].item = slots[i].item
  BY <1>1, <1>2, <1>3
<1>. QED  BY <1>2, <1>4 DEF ChInv, ChTypeOK, PendingInOrder, TakenBeforePending, DeliveredInOrder

\* The item taken was the first of its producer that waited.
LEMMA TakeKeepsInv ==
    ASSUME ChInv, Take
    PROVE  ChInv'
<1>1. /\ slots \in Seq(Slot) /\ delivered \in Seq(Items) /\ slots # <<>>
      /\ slots' = Tail(slots) /\ delivered' = Append(delivered, slots[1].item)
  BY DEF ChInv, ChTypeOK, Take, CanTake
<1>2. /\ slots' \in Seq(Slot) /\ Len(slots') = Len(slots) - 1 /\ Len(slots) \in Nat \ {0}
      /\ \A i \in 1 .. Len(slots') : slots'[i] = slots[i + 1]
  BY <1>1, TailPlaces
<1>3. slots[1].item \in Items
  <2>1. slots[1] \in Slot
    BY <1>1, <1>2, ElementOfSeq
  <2>. QED  BY <2>1 DEF Slot
<1>4. /\ delivered' \in Seq(Items) /\ Len(delivered') = Len(delivered) + 1 /\ Len(delivered) \in Nat
      /\ \A i \in 1 .. Len(delivered) : delivered'[i] = delivered[i]
      /\ delivered'[Len(delivered) + 1] = slots[1].item
  BY <1>1, <1>3, AppendPlaces
<1>5. PendingInOrder'
  BY <1>2 DEF ChInv, PendingInOrder
<1>6. TakenBeforePending'
  <2>. SUFFICES ASSUME NEW i \in 1 .. Len(delivered'), NEW j \in 1 .. Len(slots'),
                       delivered'[i][1] = slots'[j].item[1]
                PROVE  delivered'[i][2] < slots'[j].item[2]
    BY DEF TakenBeforePending
  <2>1. CASE i \in 1 .. Len(delivered)
    BY <1>2, <1>4, <2>1 DEF ChInv, TakenBeforePending
  <2>2. CASE i = Len(delivered) + 1
    <3>1. j \in 1 .. Len(slots) /\ j + 1 \in 1 .. Len(slots) /\ 1 \in 1 .. Len(slots) /\ 1 < j + 1
      BY <1>2
    <3>2. slots[1].item[1] = slots[j + 1].item[1] => slots[1].item[2] < slots[j + 1].item[2]
      BY <3>1 DEF ChInv, PendingInOrder
    <3>. QED  BY <1>2, <1>4, <2>2, <3>2
  <2>. QED  BY <1>4, <2>1, <2>2
<1>7. DeliveredInOrder'
  <2>. SUFFICES ASSUME NEW i \in 1 .. Len(delivered'), NEW j \in 1 .. Len(delivered'),
                       i < j, delivered'[i][1] = delivered'[j][1]
                PROVE  delivered'[i][2] < delivered'[j][2]
    BY DEF DeliveredInOrder
  <2>1. CASE j \in 1 .. Len(delivered)
    BY <1>4, <2>1 DEF ChInv, DeliveredInOrder
  <2>2. CASE j = Len(delivered) + 1
    <3>1. i \in 1 .. Len(delivered) /\ 1 \in 1 .. Len(slots)
      BY <1>2, <1>4, <2>2
    <3>2. delivered[i][1] = slots[1].item[1] => delivered[i][2] < slots[1].item[2]
      BY <3>1 DEF ChInv, TakenBeforePending
    <3>. QED  BY <1>4, <2>2, <3>1, <3>2
  <2>. QED  BY <1>4, <2>1, <2>2
<1>. QED  BY <1>2, <1>4, <1>5, <1>6, <1>7 DEF ChInv, ChTypeOK

--------------------------------------------------------------------------------
\* The inductive invariant of the channel.
THEOREM ChannelInvariance == ChSpec => []ChInv
<1>1. ChInit => ChInv
  BY DEF ChInit, ChInv, ChTypeOK, PendingInOrder, TakenBeforePending, DeliveredInOrder
<1>2. ChInv /\ [ChNext]_chVars => ChInv'
  <2>. SUFFICES ASSUME ChInv, [ChNext]_chVars PROVE ChInv'
    OBVIOUS
  <2>1. ASSUME NEW item \in Items, Claim(item) PROVE ChInv'
    BY <2>1, ClaimKeepsInv
  <2>2. ASSUME NEW p \in Producers, Publish(p) PROVE ChInv'
    BY <2>2, PublishKeepsInv
  <2>3. CASE Take
    BY <2>3, TakeKeepsInv
  <2>4. CASE UNCHANGED chVars
    BY <2>4 DEF chVars, ChInv, ChTypeOK, PendingInOrder, TakenBeforePending, DeliveredInOrder
  <2>. QED  BY <2>1, <2>2, <2>3, <2>4 DEF ChNext
<1>. QED  BY <1>1, <1>2, PTL DEF ChSpec

\* The reader gets the items of one thread in the order of its writes
\* (clog_atomic_mpsc_queue_in, _out).
THEOREM ChannelKeepsOrder == ChSpec => []DeliveredInOrder
<1>1. ChInv => DeliveredInOrder
  BY DEF ChInv
<1>. QED  BY <1>1, ChannelInvariance, PTL

================================================================================

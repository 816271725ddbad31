--------------------------- MODULE RuntimeProofs ---------------------------
(***************************************************************************)
(* Proofs about Runtime, for any number of senders and lanes and any       *)
(* capacity of OutQ. Two inductive invariants are used: one about the      *)
(* items on their way from OutQ to the wire, one about the goroutines and  *)
(* stopOnce.                                                               *)
(***************************************************************************)
EXTENDS Runtime, SequenceTheorems, WellFoundedInduction, TLAPS

ItemTypes ==
    /\ outQ \in Seq(Items) /\ Len(outQ) <= QCap /\ accepted \in Seq(AnyLane)
    /\ batch \in [Lanes -> Seq(Items)] /\ wire \in Seq(Nat) /\ hand \in Items

\* The items the writer has taken, and those it is through with.
Taken   == Len(accepted) - Len(outQ)
Handled == IF hand = NoItem THEN Taken ELSE Taken - 1

OnWire(n) == \E i \in 1 .. Len(wire) : wire[i] = n
InBatch(n, l) == \E i \in 1 .. Len(batch[l]) : batch[l][i].n = n

\* OutQ and the writer's hand hold the last of the accepted items.
QueueNumbered ==
    /\ Taken \in Nat
    /\ \A i \in 1 .. Len(outQ) :
          outQ[i].n = Taken + i /\ outQ[i].lane = accepted[Taken + i]
    /\ hand # NoItem => /\ ~writeDead /\ Taken > 0
                        /\ hand.n = Taken /\ hand.lane = accepted[Taken]

\* The wire has each item once, after those that precede it.
WireOrdered ==
    /\ \A i \in 1 .. Len(wire) : wire[i] \in 1 .. Handled
    /\ \A i, j \in 1 .. Len(wire) : wire[i] = wire[j] => i = j
    /\ \A i \in 1 .. Len(wire) : \A m \in 1 .. Handled :
          Precedes(m, wire[i]) => \E j \in 1 .. (i-1) : wire[j] = m

\* A lane's FRAME continues what the wire has of that lane.
BatchOrdered ==
    \A l \in Lanes : \A i \in 1 .. Len(batch[l]) :
        /\ batch[l][i].n \in 1 .. Handled /\ accepted[batch[l][i].n] = l
        /\ ~OnWire(batch[l][i].n)
        /\ \A j \in 1 .. Len(batch[l]) : batch[l][i].n = batch[l][j].n => i = j
        /\ \A m \in 1 .. Handled : Precedes(m, batch[l][i].n) =>
              OnWire(m) \/ \E j \in 1 .. (i-1) : batch[l][j].n = m

\* Until a write fails, what was taken is on the wire or in its lane's FRAME.
NothingMissing ==
    ~writeDead => \A n \in 1 .. Handled : OnWire(n) \/ \E l \in Lanes : InBatch(n, l)

ItemInv == ItemTypes /\ QueueNumbered /\ WireOrdered /\ BatchOrdered /\ NothingMissing

itemVars == <<queueVars, linkVars, hand, writeDead>>

-----------------------------------------------------------------------------
(* What the steps of Runtime do to the items, and that each kind of change *)
(* keeps ItemInv.                                                          *)

\* The numbers of a FRAME's items, as a sequence.
LEMMA NumbersProperties ==
    ASSUME NEW items \in Seq(Items)
    PROVE  /\ Numbers(items) \in Seq(Nat)
           /\ Len(Numbers(items)) = Len(items)
           /\ \A i \in 1 .. Len(items) : Numbers(items)[i] = items[i].n
<1>1. Len(items) \in Nat /\ \A i \in 1 .. Len(items) : items[i] \in Items
  BY LenProperties, ElementOfSeq
<1>2. \A i \in 1 .. Len(items) : items[i].n \in Nat
  BY <1>1 DEF Items
<1>3. Numbers(items) \in [1 .. Len(items) -> Nat]
  BY <1>2 DEF Numbers
<1>4. Numbers(items) \in Seq(Nat)
  BY <1>1, <1>3, SeqDef
<1>5. QED
  BY <1>1, <1>3, <1>4, LenProperties DEF Numbers

\* Lanes, raw items and refused ones are told apart.
LEMMA LaneKinds ==
    /\ NoItem \in Items /\ NoItem.n = 0 /\ Raw \in AnyLane
    /\ \A l \in Lanes : l \in AnyLane /\ l # Raw /\ l # Refused
    /\ ReplyLane \in Lanes /\ Refused \in AnyLane
  BY RuntimeAssumption DEF NoItem, Items, AnyLane, Lanes, Raw, Refused

SendKind(l) == Send(l) /\ UNCHANGED <<linkVars, hand, writeDead>>

TakeKind ==
    /\ hand = NoItem /\ outQ # <<>>
    /\ outQ' = Tail(outQ)
    /\ hand' = IF writeDead THEN NoItem ELSE Head(outQ)
    /\ UNCHANGED <<accepted, linkVars, writeDead>>

AppendKind ==
    /\ hand # NoItem /\ hand.lane \in Lanes
    /\ batch' = [batch EXCEPT ![hand.lane] = Append(@, hand)] /\ hand' = NoItem
    /\ UNCHANGED <<queueVars, wire, writeDead>>

FlushKind(l) == Flush(l) /\ l \in Pending /\ UNCHANGED <<queueVars, hand, writeDead>>

WriteKind ==
    /\ hand # NoItem
    /\ IF hand.lane = Raw THEN Pending = {} ELSE hand.lane \notin Pending
    /\ wire' = Append(wire, hand.n) /\ hand' = NoItem
    /\ UNCHANGED <<queueVars, batch, writeDead>>

\* A failed write, or a refused item, with the FRAME it loses if any.
FailKind ==
    /\ UNCHANGED linkVars \/ \E l \in Lanes : LoseLane(l)
    /\ hand' = NoItem /\ writeDead' = TRUE
    /\ UNCHANGED queueVars

\* An item that OutQ accepts changes the lane of none before it.
LEMMA PrecedesStays ==
    ASSUME ItemTypes, NEW l \in AnyLane, accepted' = Append(accepted, l),
           NEW m \in 1 .. Len(accepted), NEW n \in 1 .. Len(accepted)
    PROVE  accepted'[n] = accepted[n] /\ (Precedes(m, n)' <=> Precedes(m, n))
<1>1. \A i \in 1 .. Len(accepted) : accepted'[i] = accepted[i]
  BY DEF ItemTypes
<1>2. QED
  BY <1>1 DEF Precedes

\* OutQ accepts an item.
LEMMA SendKeepsItems ==
    ASSUME ItemInv, NEW l \in AnyLane, SendKind(l) PROVE ItemInv'
<1> DEFINE item == [n |-> Len(accepted) + 1, lane |-> l]
<1>0. Len(accepted) \in Nat /\ Len(outQ) \in Nat
  BY LenProperties DEF ItemInv, ItemTypes
<1>1. item \in Items
  BY <1>0 DEF Items
<1>2. /\ outQ' \in Seq(Items) /\ Len(outQ') = Len(outQ) + 1
      /\ \A i \in 1 .. Len(outQ) : outQ'[i] = outQ[i]
      /\ outQ'[Len(outQ) + 1] = item
  BY <1>1 DEF SendKind, Send, ItemInv, ItemTypes
<1>3. /\ accepted' \in Seq(AnyLane) /\ Len(accepted') = Len(accepted) + 1
      /\ \A i \in 1 .. Len(accepted) : accepted'[i] = accepted[i]
      /\ accepted'[Len(accepted) + 1] = l
  BY DEF SendKind, Send, ItemInv, ItemTypes
<1>4. UNCHANGED <<batch, wire, hand, writeDead>>
  BY DEF SendKind, linkVars
<1>5. ItemTypes'
  BY <1>0, <1>2, <1>3, <1>4, RuntimeAssumption
     DEF SendKind, Send, Full, ItemInv, ItemTypes
<1>6. Taken' = Taken /\ Handled' = Handled /\ Taken \in Nat /\ Handled \in 0 .. Len(accepted)
  BY <1>0, <1>2, <1>3, <1>4 DEF Taken, Handled, ItemInv, QueueNumbered
<1>7. QueueNumbered'
  <2>1. ASSUME NEW i \in 1 .. Len(outQ')
        PROVE  outQ'[i].n = Taken + i /\ outQ'[i].lane = accepted'[Taken + i]
    <3>1. CASE i \in 1 .. Len(outQ)
      BY <1>0, <1>2, <1>3, <1>6, <3>1 DEF ItemInv, QueueNumbered, Taken
    <3>2. CASE i = Len(outQ) + 1
      BY <1>0, <1>2, <1>3, <1>6, <3>2 DEF Taken
    <3>3. QED
      BY <1>0, <1>2, <3>1, <3>2
  <2>2. Taken > 0 => accepted'[Taken] = accepted[Taken]
    BY <1>0, <1>3, <1>6 DEF Taken
  <2>3. QED
    BY <1>4, <1>6, <2>1, <2>2 DEF ItemInv, QueueNumbered
<1>8. \A m, n \in 1 .. Handled : accepted'[n] = accepted[n] /\ (Precedes(m, n)' <=> Precedes(m, n))
  BY <1>0, <1>6, PrecedesStays DEF SendKind, Send, ItemInv
<1>9. WireOrdered'
  BY <1>4, <1>6, <1>8 DEF ItemInv, WireOrdered
<1>10. BatchOrdered'
  BY <1>4, <1>6, <1>8 DEF ItemInv, BatchOrdered, OnWire
<1>11. NothingMissing'
  BY <1>4, <1>6 DEF ItemInv, NothingMissing, OnWire, InBatch
<1>12. QED
  BY <1>5, <1>7, <1>9, <1>10, <1>11 DEF ItemInv

\* The writer takes an item from OutQ, or drops it after a failed write.
LEMMA TakeKeepsItems == ASSUME ItemInv, TakeKind PROVE ItemInv'
<1>0. Len(accepted) \in Nat /\ Len(outQ) \in Nat \ {0}
  BY LenProperties, EmptySeq DEF TakeKind, ItemInv, ItemTypes
<1>1. /\ Head(outQ) \in Items /\ Head(outQ) = outQ[1]
      /\ Tail(outQ) \in Seq(Items) /\ Len(Tail(outQ)) = Len(outQ) - 1
      /\ \A i \in 1 .. Len(Tail(outQ)) : Tail(outQ)[i] = outQ[i + 1]
  BY HeadTailProperties DEF TakeKind, ItemInv, ItemTypes
<1>2. UNCHANGED <<accepted, batch, wire, writeDead>> /\ hand = NoItem
  BY DEF TakeKind, linkVars
<1>3. Taken \in Nat /\ Taken' = Taken + 1 /\ Handled = Taken
  BY <1>0, <1>1, <1>2 DEF TakeKind, Taken, Handled, ItemInv, QueueNumbered
<1>4. Head(outQ).n = Taken + 1 /\ Head(outQ).lane = accepted[Taken + 1]
  BY <1>0, <1>1 DEF ItemInv, QueueNumbered
<1>5. Head(outQ) # NoItem
  BY <1>3, <1>4, LaneKinds
<1>6. ItemTypes'
  <2>1. hand' \in Items
    BY <1>1, LaneKinds DEF TakeKind
  <2>2. QED
    BY <1>0, <1>1, <1>2, <2>1, RuntimeAssumption DEF TakeKind, ItemInv, ItemTypes
<1>7. QueueNumbered'
  <2>1. \A i \in 1 .. Len(outQ') :
            outQ'[i].n = Taken' + i /\ outQ'[i].lane = accepted'[Taken' + i]
    BY <1>0, <1>1, <1>2, <1>3 DEF TakeKind, ItemInv, QueueNumbered
  <2>2. hand' # NoItem => hand' = Head(outQ) /\ ~writeDead
    BY DEF TakeKind
  <2>3. hand' # NoItem => hand'.n = Taken' /\ hand'.lane = accepted'[Taken'] /\ ~writeDead'
    BY <1>2, <1>3, <1>4, <2>2
  <2>4. Taken' \in Nat /\ Taken' > 0
    BY <1>3
  <2>5. QED
    BY <2>1, <2>3, <2>4 DEF QueueNumbered
<1>8. CASE writeDead
  <2>1. Handled' = Handled + 1 /\ writeDead'
    BY <1>2, <1>3, <1>8 DEF TakeKind, Handled
  <2>2. \A m, n : Precedes(m, n)' <=> Precedes(m, n)
    BY <1>2 DEF Precedes
  <2>3. \A n \in 1 .. Handled, m \in 1 .. Handled' : Precedes(m, n) => m \in 1 .. Handled
    BY <1>3, <2>1 DEF Precedes
  <2>4. 1 .. Handled \subseteq 1 .. Handled'
    BY <1>3, <2>1
  <2>5. WireOrdered'
    BY <1>2, <2>2, <2>3, <2>4 DEF ItemInv, WireOrdered
  <2>6. BatchOrdered'
    BY <1>2, <2>2, <2>3, <2>4 DEF ItemInv, BatchOrdered, OnWire
  <2>7. QED
    BY <1>6, <1>7, <2>1, <2>5, <2>6 DEF ItemInv, NothingMissing
<1>9. CASE ~writeDead
  <2>1. Handled' = Handled
    BY <1>3, <1>5, <1>9 DEF TakeKind, Handled
  <2>2. WireOrdered'
    BY <1>2, <2>1 DEF ItemInv, WireOrdered, Precedes
  <2>3. BatchOrdered'
    BY <1>2, <2>1 DEF ItemInv, BatchOrdered, OnWire, Precedes
  <2>4. NothingMissing'
    BY <1>2, <2>1 DEF ItemInv, NothingMissing, OnWire, InBatch
  <2>5. QED
    BY <1>6, <1>7, <2>2, <2>3, <2>4 DEF ItemInv
<1>10. QED
  BY <1>8, <1>9

\* A message joins its lane's FRAME under construction.
LEMMA AppendKeepsItems == ASSUME ItemInv, AppendKind PROVE ItemInv'
<1>l. PICK l \in Lanes : l = hand.lane
  BY DEF AppendKind
<1> DEFINE k == Len(batch[l])
<1>0. Len(accepted) \in Nat /\ Len(outQ) \in Nat /\ l \in Lanes /\ hand \in Items
  BY LenProperties DEF ItemInv, ItemTypes
<1>1. batch[l] \in Seq(Items) /\ k \in Nat
  BY <1>0, LenProperties DEF ItemInv, ItemTypes
<1>2. /\ batch'[l] \in Seq(Items) /\ Len(batch'[l]) = k + 1
      /\ \A i \in 1 .. k : batch'[l][i] = batch[l][i]
      /\ batch'[l][k + 1] = hand
  <2>1. batch'[l] = Append(batch[l], hand)
    BY <1>0, <1>l DEF AppendKind, ItemInv, ItemTypes
  <2>2. QED
    BY <1>0, <1>1, <2>1
<1>3. /\ \A o \in Lanes : o # l => batch'[o] = batch[o]
      /\ batch' \in [Lanes -> Seq(Items)]
  BY <1>0, <1>1, <1>l DEF AppendKind, ItemInv, ItemTypes
<1>4. UNCHANGED <<outQ, accepted, wire, writeDead>> /\ hand' = NoItem
  BY DEF AppendKind, queueVars
<1>5. /\ Taken' = Taken /\ Handled' = Taken /\ Handled = Taken - 1 /\ Taken \in Nat
      /\ hand.n = Taken /\ Taken > 0 /\ accepted[Taken] = l /\ ~writeDead
  BY <1>4, <1>l DEF AppendKind, Taken, Handled, ItemInv, QueueNumbered
<1>6. ItemTypes'
  BY <1>3, <1>4, LaneKinds DEF ItemInv, ItemTypes
<1>7. QueueNumbered'
  BY <1>4, <1>5 DEF ItemInv, QueueNumbered
<1>8. \A m, n : (Precedes(m, n)' <=> Precedes(m, n)) /\ (OnWire(n)' <=> OnWire(n))
  BY <1>4 DEF Precedes, OnWire
<1>9. \A n \in 1 .. Handled, m \in 1 .. Taken : Precedes(m, n) => m \in 1 .. Handled
  BY <1>5 DEF Precedes
<1>10. 1 .. Handled \subseteq 1 .. Taken /\ Taken \in 1 .. Taken /\ Taken \notin 1 .. Handled
  BY <1>5
<1>11. WireOrdered'
  BY <1>4, <1>5, <1>8, <1>9, <1>10 DEF ItemInv, WireOrdered
<1>12. BatchOrdered'
  <2> SUFFICES ASSUME NEW o \in Lanes, NEW i \in 1 .. Len(batch'[o])
      PROVE /\ batch'[o][i].n \in 1 .. Taken /\ accepted[batch'[o][i].n] = o
            /\ ~OnWire(batch'[o][i].n)
            /\ \A j \in 1 .. Len(batch'[o]) : batch'[o][i].n = batch'[o][j].n => i = j
            /\ \A m \in 1 .. Taken : Precedes(m, batch'[o][i].n) =>
                  OnWire(m) \/ \E j \in 1 .. (i-1) : batch'[o][j].n = m
    BY <1>4, <1>5 DEF BatchOrdered, OnWire, Precedes
  <2>1. CASE o # l
    <3>1. /\ batch[o][i].n \in 1 .. Handled /\ accepted[batch[o][i].n] = o
          /\ ~OnWire(batch[o][i].n)
          /\ \A j \in 1 .. Len(batch[o]) : batch[o][i].n = batch[o][j].n => i = j
          /\ \A m \in 1 .. Handled : Precedes(m, batch[o][i].n) =>
                OnWire(m) \/ \E j \in 1 .. (i-1) : batch[o][j].n = m
      BY <1>3, <2>1 DEF ItemInv, BatchOrdered
    <3>2. batch'[o] = batch[o]
      BY <1>3, <2>1
    <3>3. QED
      BY <1>9, <1>10, <3>1, <3>2
  <2>2. CASE o = l /\ i \in 1 .. k
    <3>1. /\ batch[l][i].n \in 1 .. Handled /\ accepted[batch[l][i].n] = l
          /\ ~OnWire(batch[l][i].n)
          /\ \A j \in 1 .. k : batch[l][i].n = batch[l][j].n => i = j
          /\ \A m \in 1 .. Handled : Precedes(m, batch[l][i].n) =>
                OnWire(m) \/ \E j \in 1 .. (i-1) : batch[l][j].n = m
      BY <1>0, <2>2 DEF ItemInv, BatchOrdered
    <3>2. batch'[o][i].n = batch[l][i].n
      BY <1>2, <2>2
    <3>3. \A j \in 1 .. Len(batch'[o]) : batch'[o][i].n = batch'[o][j].n => i = j
      <4> SUFFICES ASSUME NEW j \in 1 .. Len(batch'[o]), batch'[o][i].n = batch'[o][j].n
                   PROVE  i = j
        OBVIOUS
      <4>1. CASE j \in 1 .. k
        BY <1>2, <2>2, <3>1, <4>1
      <4>2. CASE j = k + 1
        BY <1>2, <1>5, <1>10, <2>2, <3>1, <4>2
      <4>3. QED
        BY <1>1, <1>2, <2>2, <4>1, <4>2
    <3>4. \A j \in 1 .. (i-1) : batch'[o][j] = batch[l][j]
      BY <1>1, <1>2, <2>2
    <3>5. QED
      BY <1>9, <1>10, <2>2, <3>1, <3>2, <3>3, <3>4
  <2>3. CASE o = l /\ i = k + 1
    <3>1. batch'[o][i].n = Taken
      BY <1>2, <1>5, <2>3
    <3>2. ~OnWire(Taken)
      BY <1>10 DEF OnWire, ItemInv, WireOrdered
    <3>3. \A j \in 1 .. k : batch'[o][j].n \in 1 .. Handled
      BY <1>0, <1>2, <2>3 DEF ItemInv, BatchOrdered
    <3>4. \A j \in 1 .. Len(batch'[o]) : batch'[o][i].n = batch'[o][j].n => i = j
      <4>1. \A j \in 1 .. Len(batch'[o]) : j \in 1 .. k \/ j = k + 1
        BY <1>1, <1>2, <2>3
      <4>2. QED
        BY <1>10, <2>3, <3>1, <3>3, <4>1
    <3>5. ASSUME NEW m \in 1 .. Taken, Precedes(m, Taken)
          PROVE  OnWire(m) \/ \E j \in 1 .. (i-1) : batch'[o][j].n = m
      <4>1. m \in 1 .. Handled /\ accepted[m] \in {l, Raw}
        BY <1>0, <1>5, <3>5, LaneKinds DEF Precedes
      <4>2. OnWire(m) \/ \E x \in Lanes : InBatch(m, x)
        BY <1>5, <4>1 DEF ItemInv, NothingMissing
      <4>3. ASSUME NEW x \in Lanes, InBatch(m, x) PROVE InBatch(m, l)
        BY <4>1, <4>3, LaneKinds DEF InBatch, ItemInv, BatchOrdered
      <4>4. InBatch(m, l) => \E j \in 1 .. (i-1) : batch'[o][j].n = m
        BY <1>1, <1>2, <2>3 DEF InBatch
      <4>5. QED
        BY <4>2, <4>3, <4>4
    <3>6. QED
      BY <1>5, <1>10, <2>3, <3>1, <3>2, <3>4, <3>5
  <2>4. QED
    BY <1>1, <1>2, <2>1, <2>2, <2>3
<1>13. NothingMissing'
  <2> SUFFICES ASSUME NEW n \in 1 .. Taken
               PROVE  OnWire(n) \/ \E o \in Lanes : InBatch(n, o)'
    BY <1>5, <1>8 DEF NothingMissing
  <2>1. CASE n = Taken
    <3>1. InBatch(n, l)'
      <4>1. batch'[l][k + 1].n = n /\ k + 1 \in 1 .. Len(batch'[l])
        BY <1>1, <1>2, <1>5, <2>1
      <4>2. \E i \in 1 .. Len(batch'[l]) : batch'[l][i].n = n
        BY <4>1
      <4>3. QED
        BY <4>2 DEF InBatch
    <3>2. QED
      BY <1>0, <3>1
  <2>2. CASE n \in 1 .. Handled
    <3>1. OnWire(n) \/ \E o \in Lanes : InBatch(n, o)
      BY <1>5, <2>2 DEF ItemInv, NothingMissing
    <3>2. ASSUME NEW o \in Lanes, InBatch(n, o) PROVE \E x \in 1 .. Len(batch'[o]) : batch'[o][x].n = n
      <4>1. CASE o # l
        BY <1>3, <3>2, <4>1 DEF InBatch
      <4>2. CASE o = l
        BY <1>1, <1>2, <3>2, <4>2 DEF InBatch
      <4>3. QED
        BY <4>1, <4>2
    <3>3. QED
      BY <3>1, <3>2 DEF InBatch
  <2>3. QED
    BY <1>5, <2>1, <2>2
<1>14. QED
  BY <1>6, <1>7, <1>11, <1>12, <1>13 DEF ItemInv

\* A lane's FRAME is written.
LEMMA FlushKeepsItems == ASSUME ItemInv, NEW l \in Lanes, FlushKind(l) PROVE ItemInv'
<1> DEFINE k == Len(batch[l])
           w == Len(wire)
           Written(n) == \E i \in 1 .. Len(wire') : wire'[i] = n
<1>1. batch[l] \in Seq(Items) /\ k \in Nat /\ w \in Nat /\ wire \in Seq(Nat)
  BY LenProperties DEF ItemInv, ItemTypes
<1>2. /\ Numbers(batch[l]) \in Seq(Nat) /\ Len(Numbers(batch[l])) = k
      /\ \A i \in 1 .. k : Numbers(batch[l])[i] = batch[l][i].n
  BY <1>1, NumbersProperties
<1>3. /\ wire' \in Seq(Nat) /\ Len(wire') = w + k
      /\ \A i \in 1 .. w : wire'[i] = wire[i]
      /\ \A i \in 1 .. k : wire'[w + i] = batch[l][i].n
  <2>1. wire' = wire \o Numbers(batch[l])
    BY DEF FlushKind, Flush
  <2>2. \A s, t \in Seq(Nat) :
          /\ s \o t \in Seq(Nat) /\ Len(s \o t) = Len(s) + Len(t)
          /\ \A i \in 1 .. Len(s) + Len(t) :
                (s \o t)[i] = IF i <= Len(s) THEN s[i] ELSE t[i - Len(s)]
    BY ConcatProperties
  <2>3. /\ wire' \in Seq(Nat) /\ Len(wire') = w + k
        /\ \A i \in 1 .. w + k :
              wire'[i] = IF i <= w THEN wire[i] ELSE Numbers(batch[l])[i - w]
    BY <1>1, <1>2, <2>1, <2>2
  <2>4. ASSUME NEW i \in 1 .. k PROVE wire'[w + i] = batch[l][i].n
    <3>1. w + i \in 1 .. w + k /\ ~(w + i <= w) /\ (w + i) - w = i
      BY <1>1
    <3>2. QED
      BY <1>2, <2>3, <3>1
  <2>5. \A i \in 1 .. w : wire'[i] = wire[i]
    BY <1>1, <2>3
  <2>6. QED
    BY <2>3, <2>4, <2>5
<1>4. /\ batch' \in [Lanes -> Seq(Items)] /\ batch'[l] = <<>>
      /\ \A o \in Lanes : o # l => batch'[o] = batch[o]
  BY EmptySeq DEF FlushKind, Flush, ItemInv, ItemTypes
<1>5. UNCHANGED <<outQ, accepted, hand, writeDead>>
  BY DEF FlushKind, queueVars
<1>6. Taken' = Taken /\ Handled' = Handled
  BY <1>5 DEF Taken, Handled
<1>7. ItemTypes'
  BY <1>3, <1>4, <1>5 DEF ItemInv, ItemTypes
<1>8. QueueNumbered'
  BY <1>5, <1>6 DEF ItemInv, QueueNumbered
<1>9. \A i \in 1 .. Len(wire') : i \in 1 .. w \/ \E j \in 1 .. k : i = w + j
  <2>1. ASSUME NEW i \in 1 .. Len(wire'), i \notin 1 .. w PROVE i = w + (i - w) /\ i - w \in 1 .. k
    BY <1>1, <1>3, <2>1
  <2>2. QED
    BY <2>1
<1>10. \A n : Written(n) <=> OnWire(n) \/ InBatch(n, l)
  <2>1. ASSUME NEW n, NEW i \in 1 .. Len(wire'), wire'[i] = n PROVE OnWire(n) \/ InBatch(n, l)
    BY <1>3, <1>9, <2>1 DEF OnWire, InBatch
  <2>2. ASSUME NEW n, NEW i \in 1 .. w, wire[i] = n
        PROVE \E j \in 1 .. Len(wire') : wire'[j] = n
    BY <1>1, <1>3, <2>2
  <2>3. ASSUME NEW n, NEW i \in 1 .. k, batch[l][i].n = n
        PROVE \E j \in 1 .. Len(wire') : wire'[j] = n
    <3>1. w + i \in 1 .. Len(wire') /\ wire'[w + i] = n
      BY <1>1, <1>3, <2>3
    <3>2. QED
      BY <3>1
  <2>4. QED
    BY <2>1, <2>2, <2>3 DEF OnWire, InBatch
<1>11. WireOrdered'
  <2>0. \A m, n : Precedes(m, n)' <=> Precedes(m, n)
    BY <1>5 DEF Precedes
  <2>b. ASSUME NEW i \in 1 .. k
        PROVE /\ batch[l][i].n \in 1 .. Handled
              /\ ~OnWire(batch[l][i].n)
              /\ \A j \in 1 .. k : batch[l][i].n = batch[l][j].n => i = j
              /\ \A m \in 1 .. Handled : Precedes(m, batch[l][i].n) =>
                    OnWire(m) \/ \E j \in 1 .. (i-1) : batch[l][j].n = m
    BY DEF ItemInv, BatchOrdered
  <2>1. \A i \in 1 .. Len(wire') : wire'[i] \in 1 .. Handled
    <3>1. \A i \in 1 .. w : wire'[i] \in 1 .. Handled
      BY <1>3 DEF ItemInv, WireOrdered
    <3>2. \A i \in 1 .. k : wire'[w + i] \in 1 .. Handled
      BY <1>3, <2>b
    <3>3. QED
      BY <1>9, <3>1, <3>2
  <2>2. ASSUME NEW i \in 1 .. Len(wire'), NEW j \in 1 .. Len(wire'), wire'[i] = wire'[j]
        PROVE i = j
    <3>1. CASE i \in 1 .. w /\ j \in 1 .. w
      BY <1>3, <2>2, <3>1 DEF ItemInv, WireOrdered
    <3>2. ASSUME NEW x \in 1 .. w, NEW y \in 1 .. k PROVE wire'[x] # wire'[w + y]
      <4>1. wire'[x] = wire[x] /\ wire'[w + y] = batch[l][y].n
        BY <1>3
      <4>2. ~OnWire(batch[l][y].n)
        BY <2>b
      <4>3. QED
        BY <4>1, <4>2 DEF OnWire
    <3>3. ASSUME NEW x \in 1 .. k, NEW y \in 1 .. k, wire'[w + x] = wire'[w + y] PROVE x = y
      BY <1>3, <2>b, <3>3
    <3>4. QED
      BY <1>9, <2>2, <3>1, <3>2, <3>3
  <2>3. ASSUME NEW i \in 1 .. Len(wire'), NEW m \in 1 .. Handled, Precedes(m, wire'[i])
        PROVE  \E j \in 1 .. (i-1) : wire'[j] = m
    <3>1. CASE i \in 1 .. w
      <4>1. \E j \in 1 .. (i-1) : wire[j] = m
        BY <1>3, <2>3, <3>1 DEF ItemInv, WireOrdered
      <4>2. \A j \in 1 .. (i-1) : wire'[j] = wire[j]
        BY <1>1, <1>3, <3>1
      <4>3. QED
        BY <4>1, <4>2
    <3>2. ASSUME NEW x \in 1 .. k, i = w + x PROVE \E j \in 1 .. (i-1) : wire'[j] = m
      <4>1. OnWire(m) \/ \E j \in 1 .. (x-1) : batch[l][j].n = m
        BY <1>3, <2>3, <2>b, <3>2
      <4>2. ASSUME NEW j \in 1 .. w, wire[j] = m PROVE \E y \in 1 .. (i-1) : wire'[y] = m
        <5>1. j \in 1 .. (i-1) /\ wire'[j] = m
          BY <1>1, <1>3, <3>2, <4>2
        <5>2. QED
          BY <5>1
      <4>3. ASSUME NEW j \in 1 .. (x-1), batch[l][j].n = m PROVE \E y \in 1 .. (i-1) : wire'[y] = m
        <5>1. w + j \in 1 .. (i-1) /\ j \in 1 .. k
          BY <1>1, <3>2
        <5>2. wire'[w + j] = m
          BY <1>3, <4>3, <5>1
        <5>3. QED
          BY <5>1, <5>2
      <4>4. QED
        BY <4>1, <4>2, <4>3 DEF OnWire
    <3>3. QED
      BY <1>9, <3>1, <3>2
  <2>4. QED
    BY <1>6, <2>0, <2>1, <2>2, <2>3 DEF WireOrdered
<1>12. BatchOrdered'
  <2> SUFFICES ASSUME NEW o \in Lanes, NEW i \in 1 .. Len(batch'[o])
      PROVE /\ batch'[o][i].n \in 1 .. Handled /\ accepted[batch'[o][i].n] = o
            /\ ~Written(batch'[o][i].n)
            /\ \A j \in 1 .. Len(batch'[o]) : batch'[o][i].n = batch'[o][j].n => i = j
            /\ \A m \in 1 .. Handled : Precedes(m, batch'[o][i].n) =>
                  Written(m) \/ \E j \in 1 .. (i-1) : batch'[o][j].n = m
    BY <1>5, <1>6 DEF BatchOrdered, OnWire, Precedes
  <2>1. o # l /\ batch'[o] = batch[o]
    BY <1>4
  <2>2. /\ batch[o][i].n \in 1 .. Handled /\ accepted[batch[o][i].n] = o
        /\ ~OnWire(batch[o][i].n)
        /\ \A j \in 1 .. Len(batch[o]) : batch[o][i].n = batch[o][j].n => i = j
        /\ \A m \in 1 .. Handled : Precedes(m, batch[o][i].n) =>
              OnWire(m) \/ \E j \in 1 .. (i-1) : batch[o][j].n = m
    BY <2>1 DEF ItemInv, BatchOrdered
  <2>3. ~InBatch(batch[o][i].n, l)
    BY <2>1, <2>2 DEF InBatch, ItemInv, BatchOrdered
  <2>4. QED
    BY <1>10, <2>1, <2>2, <2>3
<1>13. NothingMissing'
  <2> SUFFICES ASSUME ~writeDead, NEW n \in 1 .. Handled
               PROVE  Written(n) \/ \E o \in Lanes : InBatch(n, o)'
    BY <1>5, <1>6 DEF NothingMissing, OnWire
  <2>1. OnWire(n) \/ InBatch(n, l) \/ \E o \in Lanes : o # l /\ InBatch(n, o)
    BY DEF ItemInv, NothingMissing
  <2>2. ASSUME NEW o \in Lanes, o # l, InBatch(n, o) PROVE InBatch(n, o)'
    BY <1>4, <2>2 DEF InBatch
  <2>3. QED
    BY <1>10, <2>1, <2>2
<1>14. QED
  BY <1>7, <1>8, <1>11, <1>12, <1>13 DEF ItemInv

\* The item in hand is written at once: all that precedes it is on the wire.
LEMMA WriteKeepsItems == ASSUME ItemInv, WriteKind PROVE ItemInv'
<1> DEFINE w == Len(wire)
           Written(n) == \E i \in 1 .. Len(wire') : wire'[i] = n
<1>0. hand.n \in Nat /\ w \in Nat
  BY LenProperties DEF ItemInv, ItemTypes, Items
<1>1. /\ wire' \in Seq(Nat) /\ Len(wire') = w + 1
      /\ \A i \in 1 .. w : wire'[i] = wire[i]
      /\ wire'[w + 1] = hand.n
  BY <1>0 DEF WriteKind, ItemInv, ItemTypes
<1>2. UNCHANGED <<outQ, accepted, batch, writeDead>> /\ hand' = NoItem
  BY DEF WriteKind, queueVars
<1>3. /\ Taken' = Taken /\ Handled' = Taken /\ Handled = Taken - 1 /\ Taken \in Nat
      /\ hand.n = Taken /\ Taken > 0 /\ hand.lane = accepted[Taken] /\ ~writeDead
  BY <1>2 DEF WriteKind, Taken, Handled, ItemInv, QueueNumbered
<1>4. ItemTypes'
  BY <1>1, <1>2, LaneKinds DEF ItemInv, ItemTypes
<1>5. QueueNumbered'
  BY <1>2, <1>3 DEF ItemInv, QueueNumbered
<1>6. \A m, n : Precedes(m, n)' <=> Precedes(m, n)
  BY <1>2 DEF Precedes
<1>7. \A n \in 1 .. Handled, m \in 1 .. Taken : Precedes(m, n) => m \in 1 .. Handled
  BY <1>3 DEF Precedes
<1>8. 1 .. Handled \subseteq 1 .. Taken /\ Taken \in 1 .. Taken /\ Taken \notin 1 .. Handled
  BY <1>3
<1>9. ASSUME NEW m \in 1 .. Handled, Precedes(m, Taken) PROVE OnWire(m)
  <2>1. accepted[m] = hand.lane \/ accepted[m] = Raw \/ hand.lane = Raw
    BY <1>3, <1>9 DEF Precedes
  <2>2. ASSUME NEW l \in Lanes, InBatch(m, l) PROVE FALSE
    <3>1. accepted[m] = l /\ l \in Pending
      BY <2>2 DEF InBatch, Pending, ItemInv, ItemTypes, BatchOrdered
    <3>2. QED
      BY <2>1, <3>1, LaneKinds DEF WriteKind
  <2>3. QED
    BY <1>3, <2>2 DEF ItemInv, NothingMissing
<1>10. \A i \in 1 .. Len(wire') : i \in 1 .. w \/ i = w + 1
  BY <1>0, <1>1
<1>11. WireOrdered'
  <2>1. \A i \in 1 .. Len(wire') : wire'[i] \in 1 .. Taken
    BY <1>1, <1>3, <1>8, <1>10 DEF ItemInv, WireOrdered
  <2>2. ASSUME NEW i \in 1 .. Len(wire'), NEW j \in 1 .. Len(wire'), wire'[i] = wire'[j]
        PROVE i = j
    <3>1. CASE i \in 1 .. w /\ j \in 1 .. w
      BY <1>1, <2>2, <3>1 DEF ItemInv, WireOrdered
    <3>2. \A x \in 1 .. w : wire'[x] # wire'[w + 1]
      BY <1>1, <1>3, <1>8 DEF ItemInv, WireOrdered
    <3>3. QED
      BY <1>10, <2>2, <3>1, <3>2
  <2>3. ASSUME NEW i \in 1 .. Len(wire'), NEW m \in 1 .. Taken, Precedes(m, wire'[i])
        PROVE  \E j \in 1 .. (i-1) : wire'[j] = m
    <3>1. CASE i \in 1 .. w
      <4>1. wire'[i] = wire[i] /\ wire[i] \in 1 .. Handled
        BY <1>1, <3>1 DEF ItemInv, WireOrdered
      <4>2. \E j \in 1 .. (i-1) : wire[j] = m
        BY <1>7, <2>3, <3>1, <4>1 DEF ItemInv, WireOrdered
      <4>3. \A j \in 1 .. (i-1) : wire'[j] = wire[j]
        BY <1>0, <1>1, <3>1
      <4>4. QED
        BY <4>2, <4>3
    <3>2. CASE i = w + 1
      <4>1. wire'[i] = Taken /\ m \in 1 .. Handled
        BY <1>1, <1>3, <2>3, <3>2 DEF Precedes
      <4>2. OnWire(m)
        BY <1>9, <2>3, <4>1
      <4>3. 1 .. (i-1) = 1 .. w
        BY <1>0, <3>2
      <4>4. QED
        BY <1>1, <4>2, <4>3 DEF OnWire
    <3>3. QED
      BY <1>10, <3>1, <3>2
  <2>4. QED
    BY <1>3, <1>6, <2>1, <2>2, <2>3 DEF WireOrdered
<1>12. \A n : Written(n) <=> OnWire(n) \/ n = Taken
  <2>1. 1 .. w \subseteq 1 .. Len(wire') /\ w + 1 \in 1 .. Len(wire')
    BY <1>0, <1>1
  <2>2. QED
    BY <1>1, <1>3, <1>10, <2>1 DEF OnWire
<1>13. BatchOrdered'
  <2> SUFFICES ASSUME NEW o \in Lanes, NEW i \in 1 .. Len(batch[o])
      PROVE /\ batch[o][i].n \in 1 .. Taken /\ accepted[batch[o][i].n] = o
            /\ ~Written(batch[o][i].n)
            /\ \A j \in 1 .. Len(batch[o]) : batch[o][i].n = batch[o][j].n => i = j
            /\ \A m \in 1 .. Taken : Precedes(m, batch[o][i].n) =>
                  Written(m) \/ \E j \in 1 .. (i-1) : batch[o][j].n = m
    BY <1>2, <1>3 DEF BatchOrdered, OnWire, Precedes
  <2>1. batch'[o][i].n = batch[o][i].n
    BY <1>2
  <2>2. /\ batch[o][i].n \in 1 .. Handled /\ accepted[batch[o][i].n] = o
        /\ ~OnWire(batch[o][i].n)
        /\ \A j \in 1 .. Len(batch[o]) : batch[o][i].n = batch[o][j].n => i = j
        /\ \A m \in 1 .. Handled : Precedes(m, batch[o][i].n) =>
              OnWire(m) \/ \E j \in 1 .. (i-1) : batch[o][j].n = m
    BY DEF ItemInv, BatchOrdered
  <2>3. QED
    BY <1>7, <1>8, <1>12, <2>1, <2>2
<1>14. NothingMissing'
  <2> SUFFICES ASSUME NEW n \in 1 .. Taken
               PROVE  Written(n) \/ \E o \in Lanes : InBatch(n, o)'
    BY <1>3 DEF NothingMissing, OnWire
  <2>1. n = Taken \/ n \in 1 .. Handled
    BY <1>3
  <2>2. \A o \in Lanes : InBatch(n, o) => InBatch(n, o)'
    BY <1>2 DEF InBatch
  <2>3. QED
    BY <1>3, <1>12, <2>1, <2>2 DEF ItemInv, NothingMissing
<1>15. QED
  BY <1>4, <1>5, <1>11, <1>13, <1>14 DEF ItemInv

\* A write fails: what was to be written is lost, and the latch is set.
LEMMA FailKeepsItems == ASSUME ItemInv, FailKind PROVE ItemInv'
<1>1. UNCHANGED <<outQ, accepted, wire>> /\ hand' = NoItem /\ writeDead'
  BY DEF FailKind, queueVars, linkVars, LoseLane
<1>2. \A o \in Lanes : batch'[o] = batch[o] \/ batch'[o] = <<>>
  BY DEF FailKind, linkVars, LoseLane, ItemInv, ItemTypes
<1>3. batch' \in [Lanes -> Seq(Items)]
  BY EmptySeq DEF FailKind, linkVars, LoseLane, ItemInv, ItemTypes
<1>4. /\ Taken' = Taken /\ Handled' = Taken /\ Handled \in {Taken, Taken - 1}
      /\ Taken \in Nat
  BY <1>1 DEF Taken, Handled, ItemInv, QueueNumbered
<1>5. ItemTypes'
  BY <1>1, <1>3, LaneKinds DEF ItemInv, ItemTypes
<1>6. QueueNumbered'
  BY <1>1, <1>4 DEF ItemInv, QueueNumbered
<1>7. \A n \in 1 .. Handled, m \in 1 .. Taken : Precedes(m, n) => m \in 1 .. Handled
  BY <1>4 DEF Precedes
<1>8. 1 .. Handled \subseteq 1 .. Taken
  BY <1>4
<1>9. WireOrdered'
  <2>1. \A m, n : Precedes(m, n)' <=> Precedes(m, n)
    BY <1>1 DEF Precedes
  <2>2. QED
    BY <1>1, <1>4, <1>7, <1>8, <2>1 DEF ItemInv, WireOrdered
<1>10. BatchOrdered'
  <2>0. Handled' = Taken /\ accepted' = accepted /\ wire' = wire
    BY <1>1, <1>4
  <2> SUFFICES ASSUME NEW o \in Lanes, NEW i \in 1 .. Len(batch'[o])
      PROVE /\ batch'[o][i].n \in 1 .. Taken /\ accepted[batch'[o][i].n] = o
            /\ ~OnWire(batch'[o][i].n)
            /\ \A j \in 1 .. Len(batch'[o]) : batch'[o][i].n = batch'[o][j].n => i = j
            /\ \A m \in 1 .. Taken : Precedes(m, batch'[o][i].n) =>
                  OnWire(m) \/ \E j \in 1 .. (i-1) : batch'[o][j].n = m
    BY <2>0 DEF BatchOrdered, OnWire, Precedes
  <2>1. batch'[o] = batch[o]
    BY <1>2
  <2>2. /\ batch[o][i].n \in 1 .. Handled /\ accepted[batch[o][i].n] = o
        /\ ~OnWire(batch[o][i].n)
        /\ \A j \in 1 .. Len(batch[o]) : batch[o][i].n = batch[o][j].n => i = j
        /\ \A m \in 1 .. Handled : Precedes(m, batch[o][i].n) =>
              OnWire(m) \/ \E j \in 1 .. (i-1) : batch[o][j].n = m
    BY <2>1 DEF ItemInv, BatchOrdered
  <2>3. QED
    BY <1>7, <1>8, <2>1, <2>2
<1>11. QED
  BY <1>1, <1>5, <1>6, <1>9, <1>10 DEF ItemInv, NothingMissing

-----------------------------------------------------------------------------
(* The goroutines and stopOnce.                                            *)

\* GracefulShutdown is inside stopOnce.
CloseInOnce == cpc \in {"draining", "flushed", "timedOut"}

\* stopOnce has closed the link and then stop, once it is done.
OnceCloses ==
    /\ once = "done" => stop /\ ~linkOpen
    /\ stop => once = "done"

\* Whoever is inside stopOnce is alone there.
OneOwner ==
    /\ rpc = "shut2" => once = "running" /\ ~linkOpen
                          /\ dpc # "shut2" /\ opc # "shut2" /\ ~CloseInOnce
    /\ dpc = "shut2" => once = "running" /\ ~linkOpen
                          /\ opc # "shut2" /\ ~CloseInOnce
    /\ opc = "shut2" => once = "running" /\ ~linkOpen /\ ~CloseInOnce
    /\ CloseInOnce => once = "running"
    /\ cpc \in {"flushed", "timedOut"} => ~linkOpen

\* The orchestrator joins after stopOnce and is done after everybody else.
JoinedLast ==
    /\ opc \in {"join", "done"} => once = "done"
    /\ done => opc = "done" /\ rpc = "exited" /\ wpc = "exited"
               /\ kpc = "exited" /\ dpc = "exited"

\* The writer handles items in its three loops only, and leaves them for stop
\* or drain.
WriterLeaves ==
    /\ hand # NoItem => wpc \in {"select", "available", "exit"}
    /\ writerDone => wpc = "exited"
    /\ wpc \in {"exit", "exitFlush"} => drain
    /\ wpc \in {"final", "exited"} /\ ~stop => drain

\* A writer that left for drain has written what was accepted before.
WroteAll ==
    /\ drain => cpc \notin {"idle", "graceful"}
    /\ mark \in Nat /\ mark <= Len(accepted)
    /\ wpc = "exitFlush" => mark <= Handled
    /\ wpc \in {"final", "exited"} /\ ~stop /\ ~writeDead => \A n \in 1 .. mark : OnWire(n)
    /\ cpc = "flushed" => wpc = "exited"

ControlInv == OnceCloses /\ OneOwner /\ JoinedLast /\ WriterLeaves /\ WroteAll

IndInv == ItemInv /\ ControlInv

-----------------------------------------------------------------------------
\* FlushAll comes to a lane as long as one has a FRAME.
LEMMA LeastPending == ASSUME Pending # {} PROVE \E f \in Pending : \A k \in Pending : f <= k
<1> DEFINE R == OpToRel(<, Nat)
<1>1. Pending \subseteq Nat
  BY RuntimeAssumption DEF Pending, Lanes
<1>2. PICK f \in Pending : \A k \in Pending : ~(<<k, f>> \in R)
  <2>1. IsWellFoundedOn(R, Nat)
    BY NatLessThanWellFounded
  <2> HIDE DEF R
  <2>2. QED
    BY <1>1, <2>1, WFMin
<1>3. \A k \in Pending : ~(k < f)
  BY <1>1, <1>2 DEF OpToRel
<1>4. QED
  BY <1>1, <1>3

\* Every step of the writer is one of these changes.
LEMMA WriterKinds ==
    ASSUME ItemInv, WriterLeaves, Writer
    PROVE  TakeKind \/ AppendKind \/ (\E l \in Lanes : FlushKind(l)) \/ WriteKind
           \/ FailKind \/ UNCHANGED itemVars
<1> USE DEF itemVars, queueVars
<1>1. CASE WriterTake
  BY <1>1 DEF WriterTake, TakeKind
<1>2. CASE HandleAppend
  BY <1>2 DEF HandleAppend, AppendKind
<1>3. CASE HandleFlush
  BY <1>3 DEF HandleFlush, FlushedFirst, FirstPending, FlushKind
<1>4. CASE HandleWrite
  <2>1. \A l \in Lanes : ~FlushedFirst(l)
    BY <1>4 DEF HandleWrite
  <2>2. CASE hand.lane = Raw
    <3>1. Pending = {}
      <4>1. ASSUME NEW l \in Pending PROVE FALSE
        <5>1. \E f \in Pending : \A k \in Pending : f <= k
          BY <4>1, LeastPending
        <5>2. QED
          BY <2>1, <2>2, <5>1 DEF FlushedFirst, FirstPending, Pending
      <4>2. QED
        BY <4>1
    <3>2. QED
      BY <1>4, <2>2, <3>1 DEF HandleWrite, WriteKind
  <2>3. CASE hand.lane # Raw
    BY <1>4, <2>1, <2>3 DEF HandleWrite, WriteKind, FlushedFirst, Pending
  <2>4. QED
    BY <2>2, <2>3
<1>5. CASE HandleFails \/ HandleRefused
  BY <1>5 DEF HandleFails, HandleRefused, FailKind
<1>6. CASE Drained \/ SelectDrain \/ SelectClosing \/ FlushEnds
  BY <1>6 DEF Drained, SelectDrain, SelectClosing, FlushEnds
<1>7. CASE FlushLane
  BY <1>7 DEF FlushLane, FirstPending, FlushKind
<1>8. CASE FlushFails
  BY <1>8 DEF FlushFails, Flushing, FailKind, WriterLeaves
<1>9. QED
  BY <1>1, <1>2, <1>3, <1>4, <1>5, <1>6, <1>7, <1>8 DEF Writer

\* Every other step sends to OutQ, or leaves the items alone.
LEMMA OtherKinds ==
    ASSUME Next, ~Writer
    PROVE  (\E l \in AnyLane : SendKind(l)) \/ UNCHANGED itemVars
<1> USE LaneKinds DEF itemVars, queueVars, linkVars, writerVars
<1>1. CASE Reader
  BY <1>1 DEF Reader, ReaderPoll, ReadFails, ReadMalformed, ReadQuery, ReaderReply,
              ReadClose, ReaderShutdown, ReaderUnchanged, SendKind
<1>2. CASE Keepalive
  BY <1>2 DEF Keepalive, KeepaliveTick, KeepaliveSend, KeepaliveStop, SendKind
<1>3. CASE Watchdog
  BY <1>3 DEF Watchdog, WatchdogExpires, WatchdogStop, WatchdogShutdown,
              WatchdogUnchanged
<1>4. CASE Orchestrator
  BY <1>4 DEF Orchestrator, OrchWait, OrchShutdown, OrchJoin, OrchUnchanged
<1>5. ASSUME NEW s \in Senders, Sender(s)
      PROVE  (\E l \in AnyLane : SendKind(l)) \/ UNCHANGED itemVars
  BY <1>5 DEF Sender, Put, PutAccepted, PutConnectionLost, SenderUnchanged, SendKind
<1>6. CASE Close
  BY <1>6 DEF Close, Farewell, GracefulBegin, DrainFinished, DrainTimeout,
              GracefulEnd, CloseUnchanged, SendKind
<1>7. CASE PeerStalls \/ PeerResumes \/ PeerGone
  BY <1>7 DEF PeerStalls, PeerResumes, PeerGone, PeerUnchanged
<1>8. QED
  BY <1>1, <1>2, <1>3, <1>4, <1>5, <1>6, <1>7 DEF Next

\* A step that leaves the items alone keeps their invariant.
LEMMA StutterKeepsItems == ASSUME ItemInv, UNCHANGED itemVars PROVE ItemInv'
  BY DEF itemVars, queueVars, linkVars, ItemInv, ItemTypes, QueueNumbered, WireOrdered,
         BatchOrdered, NothingMissing, Taken, Handled, OnWire, InBatch, Precedes

\* Before the first item everything is empty.
LEMMA InitItemInv == Init => ItemInv
<1> SUFFICES ASSUME Init PROVE ItemInv
  OBVIOUS
<1>1. ItemTypes
  <2>1. batch \in [Lanes -> Seq(Items)]
    BY EmptySeq DEF Init
  <2>2. QED
    BY <2>1, EmptySeq, LaneKinds, RuntimeAssumption DEF Init, ItemTypes
<1>2. Taken = 0 /\ Handled = 0
  BY DEF Init, Taken, Handled
<1>3. QED
  BY <1>1, <1>2 DEF Init, ItemInv, QueueNumbered, WireOrdered, BatchOrdered, NothingMissing

\* ItemInv is kept.
LEMMA NextItemInv == ItemInv /\ ControlInv /\ [Next]_vars => ItemInv'
<1> SUFFICES ASSUME ItemInv, ControlInv, [Next]_vars PROVE ItemInv'
  OBVIOUS
<1>1. CASE Writer
  BY <1>1, WriterKinds, TakeKeepsItems, AppendKeepsItems, FlushKeepsItems,
     WriteKeepsItems, FailKeepsItems, StutterKeepsItems DEF ControlInv
<1>2. CASE Next /\ ~Writer
  BY <1>2, OtherKinds, SendKeepsItems, StutterKeepsItems
<1>3. CASE UNCHANGED vars
  BY <1>3, StutterKeepsItems
     DEF vars, itemVars, queueVars, linkVars, writerVars
<1>4. QED
  BY <1>1, <1>2, <1>3

\* Before anything happens nobody has left.
LEMMA InitControlInv == Init => ControlInv
  BY DEF Init, ControlInv, OnceCloses, OneOwner, CloseInOnce, JoinedLast,
         WriterLeaves, WroteAll

\* What is on the wire stays there.
LEMMA WireStays ==
    ASSUME ItemInv, Writer, WriterLeaves, NEW n, OnWire(n) PROVE OnWire(n)'
<1>1. PICK i \in 1 .. Len(wire) : wire[i] = n
  BY DEF OnWire
<1>2. Len(wire) \in Nat /\ wire \in Seq(Nat)
  BY LenProperties DEF ItemInv, ItemTypes
<1>3. CASE \E l \in Lanes : FlushKind(l)
  <2>1. PICK l \in Lanes : wire' = wire \o Numbers(batch[l])
    BY <1>3 DEF FlushKind, Flush
  <2>2. Numbers(batch[l]) \in Seq(Nat)
    BY NumbersProperties DEF ItemInv, ItemTypes
  <2>3. i \in 1 .. Len(wire') /\ wire'[i] = n
    BY <1>1, <1>2, <2>1, <2>2
  <2>4. QED
    BY <2>3 DEF OnWire
<1>4. CASE WriteKind
  <2>1. hand.n \in Nat
    BY DEF ItemInv, ItemTypes, Items
  <2>2. i \in 1 .. Len(wire') /\ wire'[i] = n
    BY <1>1, <1>2, <1>4, <2>1 DEF WriteKind
  <2>3. QED
    BY <2>2 DEF OnWire
<1>5. CASE UNCHANGED wire
  BY <1>1, <1>5 DEF OnWire
<1>6. TakeKind \/ AppendKind \/ FailKind \/ UNCHANGED itemVars => UNCHANGED wire
  BY DEF TakeKind, AppendKind, FailKind, LoseLane, itemVars, linkVars
<1>7. QED
  BY <1>3, <1>4, <1>5, <1>6, WriterKinds

\* The writer keeps it: where it leaves for drain, OutQ, its hand and the lanes
\* are empty, so that ItemInv puts every accepted item on the wire.
LEMMA WriterControl ==
    ASSUME ItemInv, ItemInv', ControlInv, Writer PROVE ControlInv'
<1> USE DEF ControlInv, OnceCloses, OneOwner, CloseInOnce, JoinedLast, WriterLeaves,
            WriterUnchanged, queueVars, linkVars, stopVars, readerVars, aliveVars,
            orchVars, closeVars
<1>0. mark \in Nat /\ (\A n : OnWire(n) => OnWire(n)')
  BY WireStays DEF WroteAll
<1>1. CASE WriterTake
  BY <1>0, <1>1 DEF WriterTake, WroteAll
<1>2. CASE HandleAppend
  BY <1>0, <1>2 DEF HandleAppend, AfterItem, WroteAll
<1>3. CASE HandleFlush
  BY <1>0, <1>3 DEF HandleFlush, WroteAll
<1>4. CASE HandleWrite
  BY <1>0, <1>4 DEF HandleWrite, AfterItem, WroteAll
<1>5. CASE HandleFails \/ HandleRefused
  BY <1>0, <1>5 DEF HandleFails, HandleRefused, WroteAll
<1>6. CASE Drained
  <2>1. Handled' = Len(accepted')
    <3>1. outQ' = <<>> /\ hand' = NoItem /\ Len(accepted') \in Nat /\ Len(<<>>) = 0
      BY <1>6, LenProperties DEF Drained, ItemInv, ItemTypes
    <3>2. QED
      BY <3>1 DEF Handled, Taken
  <2>2. QED
    BY <1>0, <1>6, <2>1 DEF Drained, WroteAll
<1>7. CASE SelectDrain \/ SelectClosing
  BY <1>0, <1>7 DEF SelectDrain, SelectClosing, WroteAll
<1>8. CASE FlushLane
  <2>1. Handled' = Handled
    BY <1>8 DEF FlushLane, Handled, Taken
  <2>2. QED
    BY <1>0, <1>8, <2>1 DEF FlushLane, Flushing, WroteAll
<1>9. CASE FlushFails
  BY <1>0, <1>9 DEF FlushFails, Flushing, AfterFlush, WroteAll
<1>10. CASE FlushEnds
  <2>1. wpc = "exitFlush" /\ ~writeDead => \A n \in 1 .. mark : OnWire(n)
    <3> SUFFICES ASSUME wpc = "exitFlush", ~writeDead, NEW n \in 1 .. mark PROVE OnWire(n)
      OBVIOUS
    <3>1. n \in 1 .. Handled
      <4>1. Len(accepted) \in Nat /\ Handled \in Int
        BY LenProperties DEF ItemInv, ItemTypes, QueueNumbered, Handled
      <4>2. QED
        BY <1>0, <4>1 DEF WroteAll
    <3>2. \A l \in Lanes : ~InBatch(n, l)
      BY <1>10 DEF FlushEnds, Pending, InBatch
    <3>3. QED
      BY <3>1, <3>2 DEF ItemInv, NothingMissing
  <2>2. \A n : OnWire(n)' <=> OnWire(n)
    BY <1>10 DEF FlushEnds, OnWire
  <2>3. QED
    BY <1>0, <1>10, <2>1, <2>2 DEF FlushEnds, Flushing, AfterFlush, WroteAll
<1>11. QED
  BY <1>1, <1>2, <1>3, <1>4, <1>5, <1>6, <1>7, <1>8, <1>9, <1>10 DEF Writer

\* Everybody else keeps it: stopOnce admits one goroutine.
LEMMA OthersControl ==
    ASSUME ItemInv, ControlInv, Next, ~Writer PROVE ControlInv'
<1>0. /\ Len(accepted) \in Nat /\ Len(accepted') \in Nat /\ Len(accepted) <= Len(accepted')
      /\ Handled' = Handled /\ (\A n : OnWire(n)' <=> OnWire(n))
  <2>1. ASSUME NEW l \in AnyLane, SendKind(l)
        PROVE  /\ Len(accepted') = Len(accepted) + 1 /\ Len(outQ') = Len(outQ) + 1
               /\ UNCHANGED <<hand, wire>>
    BY <2>1 DEF SendKind, Send, linkVars, ItemInv, ItemTypes
  <2>2. Len(accepted) \in Nat /\ Len(outQ) \in Nat
    BY LenProperties DEF ItemInv, ItemTypes
  <2>3. CASE \E l \in AnyLane : SendKind(l)
    BY <2>1, <2>2, <2>3 DEF Handled, Taken, OnWire
  <2>4. CASE UNCHANGED itemVars
    BY <2>2, <2>4 DEF itemVars, queueVars, linkVars, Handled, Taken, OnWire
  <2>5. QED
    BY <2>3, <2>4, OtherKinds
<1> USE <1>0 DEF ControlInv, OnceCloses, OneOwner, CloseInOnce, JoinedLast, WriterLeaves,
            WroteAll, OnceBegin, OnceEnd, OncePassed, linkVars,
            stopVars, readerVars, writerVars, aliveVars, orchVars, closeVars
<1>1. CASE Reader
  BY <1>1 DEF Reader, ReaderPoll, ReadFails, ReadMalformed, ReadQuery, ReaderReply,
              ReadClose, ReaderShutdown, ReaderUnchanged, ReaderExit
<1>2. CASE Keepalive
  BY <1>2 DEF Keepalive, KeepaliveTick, KeepaliveSend, KeepaliveStop
<1>3. CASE Watchdog
  BY <1>3 DEF Watchdog, WatchdogExpires, WatchdogStop, WatchdogShutdown,
              WatchdogUnchanged
<1>4. CASE Orchestrator
  BY <1>4 DEF Orchestrator, OrchWait, OrchShutdown, OrchJoin, OrchUnchanged
<1>5. ASSUME NEW s \in Senders, Sender(s) PROVE ControlInv'
  BY <1>5 DEF Sender, Put, PutAccepted, PutConnectionLost, SenderUnchanged
<1>6. CASE Close
  BY <1>6 DEF Close, Farewell, GracefulBegin, DrainFinished, DrainTimeout,
              GracefulEnd, CloseUnchanged
<1>7. CASE PeerStalls \/ PeerResumes \/ PeerGone
  BY <1>7 DEF PeerStalls, PeerResumes, PeerGone, PeerUnchanged
<1>8. QED
  BY <1>1, <1>2, <1>3, <1>4, <1>5, <1>6, <1>7 DEF Next

\* The two invariants are inductive together.
LEMMA NextIndInv == IndInv /\ [Next]_vars => IndInv'
<1> SUFFICES ASSUME IndInv, [Next]_vars PROVE IndInv'
  OBVIOUS
<1>1. ItemInv'
  BY NextItemInv DEF IndInv
<1>2. CASE Writer
  BY <1>1, <1>2, WriterControl DEF IndInv
<1>3. CASE Next /\ ~Writer
  BY <1>1, <1>3, OthersControl DEF IndInv
<1>4. CASE UNCHANGED vars
  BY <1>1, <1>4
     DEF IndInv, ControlInv, OnceCloses, OneOwner, CloseInOnce, JoinedLast,
         WriterLeaves, WroteAll, Handled, Taken, OnWire, vars, queueVars, linkVars, stopVars, readerVars,
         writerVars, aliveVars, orchVars, closeVars
<1>5. QED
  BY <1>2, <1>3, <1>4

\* The inductive invariant holds in every reachable state.
THEOREM IndInvHolds == Spec => []IndInv
<1>1. Init => IndInv
  BY InitItemInv, InitControlInv DEF IndInv
<1>2. QED
  BY <1>1, NextIndInv, PTL DEF Spec

\* On each lane the wire has the messages OutQ accepted, in order and with none
\* missing in between, and KEEPALIVE and CLOSE in order with all of them, for any
\* number of lanes and senders and any capacity of OutQ.
THEOREM WireInOrderHolds == Spec => []WireInOrder
<1>1. IndInv => WireInOrder
  <2> SUFFICES ASSUME ItemInv PROVE WireInOrder
    BY DEF IndInv
  <2>1. Len(accepted) \in Nat /\ Len(outQ) \in Nat
    BY LenProperties DEF ItemInv, ItemTypes
  <2>2. Handled \in Int /\ Handled <= Len(accepted)
    BY <2>1 DEF Handled, Taken, ItemInv, QueueNumbered
  <2>3. \A i \in 1 .. Len(wire) : wire[i] \in 1 .. Len(accepted)
    BY <2>1, <2>2 DEF ItemInv, WireOrdered
  <2>4. \A n \in 1 .. Handled, m \in 1 .. Len(accepted) : Precedes(m, n) => m \in 1 .. Handled
    BY <2>1, <2>2 DEF Precedes
  <2>5. QED
    BY <2>3, <2>4 DEF ItemInv, WireOrdered, WireInOrder
<1>2. QED
  BY <1>1, IndInvHolds, PTL

\* Done() closes only when every goroutine of the Runtime has exited and the
\* link is closed, whoever stopped it.
THEOREM DoneMeansExitedHolds == Spec => []DoneMeansExited
<1>1. IndInv => DoneMeansExited
  BY DEF IndInv, ControlInv, OnceCloses, JoinedLast, DoneMeansExited
<1>2. QED
  BY <1>1, IndInvHolds, PTL

\* A drain that ended before its timer, with no failed write, has written all
\* that was accepted before GracefulShutdown.
THEOREM DrainFlushesHolds == Spec => []DrainFlushes
<1>1. IndInv => DrainFlushes
  BY DEF IndInv, ControlInv, OnceCloses, OneOwner, CloseInOnce, WriterLeaves,
         WroteAll, OnWire, DrainFlushes
<1>2. QED
  BY <1>1, IndInvHolds, PTL

-----------------------------------------------------------------------------
(* Types.                                                                  *)

FlagTypes ==
    /\ linkOpen \in BOOLEAN /\ stop \in BOOLEAN /\ drain \in BOOLEAN
    /\ writerDone \in BOOLEAN /\ linkClosed \in BOOLEAN /\ done \in BOOLEAN
    /\ writeDead \in BOOLEAN

PlaceTypes ==
    /\ peer \in {"ok", "stalled", "gone"} /\ once \in {"free", "running", "done"}
    /\ rpc \in {"poll", "read", "reply", "shut", "shut2", "exited"}
    /\ queries \in 0 .. MaxQueries
    /\ wpc \in {"select", "available", "flush", "exit", "exitFlush", "final", "exited"}
    /\ kpc \in {"tick", "send", "exited"} /\ ticks \in 0 .. MaxKeepalives
    /\ dpc \in {"watch", "shut", "shut2", "exited"}
    /\ opc \in {"wait", "shut", "shut2", "join", "done"}
    /\ spc \in [Senders -> {"idle", "sending"}]
    /\ puts \in [Senders -> 0 .. MaxPuts]
    /\ cpc \in {"idle", "graceful", "draining", "flushed", "timedOut", "returned"}

\* Channels are open or closed, and every goroutine's latch keeps its type.
LEMMA FlagStep == FlagTypes /\ [Next]_vars => FlagTypes'
<1> SUFFICES ASSUME FlagTypes, [Next]_vars PROVE FlagTypes'
  OBVIOUS
<1> USE DEF FlagTypes, OnceBegin, OnceEnd, OncePassed, stopVars, readerVars,
            writerVars, orchVars, closeVars
<1>1. CASE Reader
  BY <1>1 DEF Reader, ReaderPoll, ReadFails, ReadMalformed, ReadQuery, ReaderReply,
              ReadClose, ReaderShutdown, ReaderUnchanged, ReaderExit
<1>2. CASE Writer
  BY <1>2 DEF Writer, WriterTake, HandleAppend, HandleFlush, HandleWrite, HandleFails,
              HandleRefused, Drained, SelectDrain, SelectClosing, FlushLane, FlushFails,
              FlushEnds, Flushing, AfterFlush, AfterItem, WriterUnchanged
<1>3. CASE Keepalive
  BY <1>3 DEF Keepalive, KeepaliveTick, KeepaliveSend, KeepaliveStop
<1>4. CASE Watchdog
  BY <1>4 DEF Watchdog, WatchdogExpires, WatchdogStop, WatchdogShutdown,
              WatchdogUnchanged
<1>5. CASE Orchestrator
  BY <1>5 DEF Orchestrator, OrchWait, OrchShutdown, OrchJoin, OrchUnchanged
<1>6. ASSUME NEW s \in Senders, Sender(s) PROVE FlagTypes'
  BY <1>6 DEF Sender, Put, PutAccepted, PutConnectionLost, SenderUnchanged
<1>7. CASE Close
  BY <1>7 DEF Close, Farewell, GracefulBegin, DrainFinished, DrainTimeout,
              GracefulEnd, CloseUnchanged
<1>8. CASE PeerStalls \/ PeerResumes \/ PeerGone
  BY <1>8 DEF PeerStalls, PeerResumes, PeerGone, PeerUnchanged
<1>9. CASE UNCHANGED vars
  BY <1>9 DEF vars
<1>10. QED
  BY <1>1, <1>2, <1>3, <1>4, <1>5, <1>6, <1>7, <1>8, <1>9 DEF Next

\* Every goroutine stays in its program.
LEMMA PlaceStep == PlaceTypes /\ [Next]_vars => PlaceTypes'
<1> SUFFICES ASSUME PlaceTypes, [Next]_vars PROVE PlaceTypes'
  OBVIOUS
<1> USE RuntimeAssumption
    DEF PlaceTypes, OnceBegin, OnceEnd, OncePassed, stopVars, readerVars,
        writerVars, aliveVars, orchVars, senderVars, closeVars, Send
<1>1. CASE Reader
  BY <1>1 DEF Reader, ReaderPoll, ReadFails, ReadMalformed, ReadQuery, ReaderReply,
              ReadClose, ReaderShutdown, ReaderUnchanged, ReaderExit
<1>2. CASE Writer
  BY <1>2 DEF Writer, WriterTake, HandleAppend, HandleFlush, HandleWrite, HandleFails,
              HandleRefused, Drained, SelectDrain, SelectClosing, FlushLane, FlushFails,
              FlushEnds, Flushing, AfterFlush, AfterItem, WriterUnchanged
<1>3. CASE Keepalive
  BY <1>3 DEF Keepalive, KeepaliveTick, KeepaliveSend, KeepaliveStop
<1>4. CASE Watchdog
  BY <1>4 DEF Watchdog, WatchdogExpires, WatchdogStop, WatchdogShutdown,
              WatchdogUnchanged
<1>5. CASE Orchestrator
  BY <1>5 DEF Orchestrator, OrchWait, OrchShutdown, OrchJoin, OrchUnchanged
<1>6. ASSUME NEW s \in Senders, Sender(s) PROVE PlaceTypes'
  BY <1>6 DEF Sender, Put, PutAccepted, PutConnectionLost, SenderUnchanged
<1>7. CASE Close
  BY <1>7 DEF Close, Farewell, GracefulBegin, DrainFinished, DrainTimeout,
              GracefulEnd, CloseUnchanged
<1>8. CASE PeerStalls \/ PeerResumes \/ PeerGone
  BY <1>8 DEF PeerStalls, PeerResumes, PeerGone, PeerUnchanged
<1>9. CASE UNCHANGED vars
  BY <1>9 DEF vars
<1>10. QED
  BY <1>1, <1>2, <1>3, <1>4, <1>5, <1>6, <1>7, <1>8, <1>9 DEF Next

\* Every variable of a Runtime keeps its type, and OutQ its capacity, for every
\* capacity and number of senders.
THEOREM TypeCorrect == Spec => []TypeOK
<1>1. Init => FlagTypes /\ PlaceTypes
  <2>1. Init => FlagTypes
    BY DEF Init, FlagTypes
  <2>2. Init => PlaceTypes
    BY RuntimeAssumption DEF Init, PlaceTypes
  <2>3. QED
    BY <2>1, <2>2
<1>2. IndInv /\ FlagTypes /\ PlaceTypes => TypeOK
  BY DEF IndInv, ItemInv, ItemTypes, ControlInv, WroteAll, FlagTypes, PlaceTypes, TypeOK
<1>3. QED
  BY <1>1, <1>2, FlagStep, PlaceStep, IndInvHolds, PTL DEF Spec

-----------------------------------------------------------------------------
(* The goroutines implement RuntimeContract.                               *)

\* A Runtime starts up with nothing accepted.
LEMMA InitContract == Init => Contract!ContractInit
  BY DEF Init, Contract!ContractInit, Phase

phaseVars == <<stop, done>>

\* The items that a write adds to the wire are all of one lane, and in order.
LEMMA WriteDelivers ==
    ASSUME ItemInv, ItemInv', NEW lane, ~done, UNCHANGED <<phaseVars, accepted>>,
           Len(wire') > Len(wire),
           \A i \in 1 .. Len(wire) : wire'[i] = wire[i],
           \A i \in Len(wire) + 1 .. Len(wire') : accepted[wire'[i]] = lane
    PROVE  Contract!ContractNext
<1>0. /\ Len(accepted) \in Nat /\ Len(wire) \in Nat /\ Len(wire') \in Nat
      /\ wire \in Seq(Nat) /\ wire' \in Seq(Nat) /\ Len(outQ') \in Nat
  BY LenProperties DEF ItemInv, ItemTypes
<1>1. Phase # "done" /\ Phase' = Phase
  BY DEF Phase, phaseVars
<1>2. SubSeq(wire', 1, Len(wire)) = wire
  <2>1. Len(SubSeq(wire', 1, Len(wire))) = Len(wire)
    BY <1>0, SubSeqProperties
  <2>2. \A i \in 1 .. Len(wire) : SubSeq(wire', 1, Len(wire))[i] = wire'[i]
    BY <1>0, SubSeqProperties
  <2>3. SubSeq(wire', 1, Len(wire)) \in Seq(Nat)
    BY <1>0, SubSeqProperties
  <2>4. QED
    BY <1>0, <2>1, <2>2, <2>3, SeqEqual
<1>3. Handled' \in Int /\ Handled' <= Len(accepted)
  BY <1>0 DEF Handled, Taken, ItemInv, QueueNumbered
<1>4. Contract!InOrder(wire')
  <2>1. \A i \in 1 .. Len(wire') : wire'[i] \in 1 .. Handled'
    BY DEF ItemInv, WireOrdered
  <2>2. \A i, j \in 1 .. Len(wire') : wire'[i] = wire'[j] => i = j
    BY DEF ItemInv, WireOrdered
  <2>3. ASSUME NEW i \in 1 .. Len(wire'), NEW m \in 1 .. (wire'[i] - 1),
               Contract!Ordered(m, wire'[i])
        PROVE  \E j \in 1 .. (i-1) : wire'[j] = m
    <3>1. m \in 1 .. Handled' /\ m < wire'[i]
      BY <1>3, <2>1
    <3>2. Precedes(m, wire[i])'
      BY <2>3, <3>1 DEF Precedes, Contract!Ordered
    <3>3. QED
      BY <3>1, <3>2 DEF ItemInv, WireOrdered
  <2>4. QED
    BY <1>0, <1>3, <2>1, <2>2, <2>3 DEF Contract!InOrder
<1>5. Contract!Deliver
  BY <1>1, <1>2, <1>4 DEF Contract!Deliver
<1>6. QED
  BY <1>5 DEF Contract!ContractNext

\* The FRAME of a lane is such a write.
LEMMA FlushDelivers ==
    ASSUME ItemInv, ItemInv', NEW l \in Lanes, FlushKind(l), UNCHANGED phaseVars, ~done
    PROVE  Contract!ContractNext
<1>1. /\ wire \in Seq(Nat) /\ Len(wire) \in Nat /\ batch[l] \in Seq(Items)
      /\ Len(batch[l]) \in Nat \ {0}
  BY LenProperties, EmptySeq DEF FlushKind, Pending, ItemInv, ItemTypes
<1>2. /\ Numbers(batch[l]) \in Seq(Nat) /\ Len(Numbers(batch[l])) = Len(batch[l])
      /\ \A i \in 1 .. Len(batch[l]) : Numbers(batch[l])[i] = batch[l][i].n
  BY <1>1, NumbersProperties
<1>3. wire' = wire \o Numbers(batch[l]) /\ accepted' = accepted
  BY DEF FlushKind, Flush, queueVars
<1>4. \A s, t \in Seq(Nat) :
        /\ Len(s \o t) = Len(s) + Len(t)
        /\ \A i \in 1 .. Len(s) + Len(t) :
              (s \o t)[i] = IF i <= Len(s) THEN s[i] ELSE t[i - Len(s)]
  BY ConcatProperties
<1>5. /\ Len(wire') = Len(wire) + Len(batch[l])
      /\ \A i \in 1 .. Len(wire) + Len(batch[l]) :
            wire'[i] = IF i <= Len(wire) THEN wire[i] ELSE Numbers(batch[l])[i - Len(wire)]
  BY <1>1, <1>2, <1>3, <1>4
<1>6. ASSUME NEW i \in Len(wire) + 1 .. Len(wire') PROVE accepted[wire'[i]] = l
  <2>1. i - Len(wire) \in 1 .. Len(batch[l]) /\ i \in 1 .. Len(wire) + Len(batch[l]) /\ ~(i <= Len(wire))
    BY <1>1, <1>5
  <2>2. wire'[i] = batch[l][i - Len(wire)].n
    BY <1>2, <1>5, <2>1
  <2>3. QED
    BY <2>1, <2>2 DEF ItemInv, BatchOrdered
<1>7. Len(wire') > Len(wire) /\ \A i \in 1 .. Len(wire) : wire'[i] = wire[i]
  BY <1>1, <1>5
<1>8. QED
  BY <1>3, <1>6, <1>7, WriteDelivers

\* So is the item in hand when it is written at once.
LEMMA HandDelivers ==
    ASSUME ItemInv, ItemInv', WriteKind, UNCHANGED phaseVars, ~done
    PROVE  Contract!ContractNext
<1>1. hand.n \in Nat /\ wire \in Seq(Nat) /\ Len(wire) \in Nat
  BY LenProperties DEF ItemInv, ItemTypes, Items
<1>2. /\ Len(wire') = Len(wire) + 1
      /\ \A i \in 1 .. Len(wire) : wire'[i] = wire[i]
      /\ wire'[Len(wire) + 1] = hand.n
  BY <1>1 DEF WriteKind
<1>3. accepted' = accepted
  BY DEF WriteKind, queueVars
<1>4. \A i \in Len(wire) + 1 .. Len(wire') : accepted[wire'[i]] = accepted[hand.n]
  BY <1>1, <1>2
<1>5. QED
  BY <1>1, <1>2, <1>3, <1>4, WriteDelivers

\* The writer only delivers.
LEMMA WriterContract ==
    ASSUME IndInv, ItemInv', Writer
    PROVE  Contract!ContractNext \/ UNCHANGED Contract!contractVars
<1>1. UNCHANGED phaseVars
  BY DEF Writer, WriterTake, HandleAppend, HandleFlush, HandleWrite, HandleFails,
         HandleRefused, Drained, SelectDrain, SelectClosing, FlushLane, FlushFails,
         FlushEnds, WriterUnchanged, phaseVars, stopVars, orchVars
<1>2. ~done
  BY DEF IndInv, ControlInv, JoinedLast, WriterLeaves, Writer, WriterTake,
         HandleAppend, HandleFlush, HandleWrite, HandleFails, HandleRefused, Drained,
         SelectDrain, SelectClosing, FlushLane, FlushFails, FlushEnds, Flushing
<1>3. CASE \E l \in Lanes : FlushKind(l)
  BY <1>1, <1>2, <1>3, FlushDelivers DEF IndInv
<1>4. CASE WriteKind
  BY <1>1, <1>2, <1>4, HandDelivers DEF IndInv
<1>5. CASE TakeKind \/ AppendKind \/ FailKind \/ UNCHANGED itemVars
  <2>1. UNCHANGED <<accepted, wire>>
    BY <1>5 DEF TakeKind, AppendKind, FailKind, LoseLane, itemVars, queueVars, linkVars
  <2>2. QED
    BY <1>1, <2>1 DEF phaseVars, Phase, Contract!contractVars
<1>6. QED
  BY <1>3, <1>4, <1>5, WriterKinds DEF IndInv, ControlInv

\* OutQ accepts, and the phase stays.
LEMMA SendAccepts ==
    ASSUME NEW l \in AnyLane, Send(l), UNCHANGED linkVars, UNCHANGED phaseVars
    PROVE  Contract!ContractNext
  BY DEF Send, linkVars, phaseVars, Phase, Contract!Accept, Contract!ContractNext

\* stopOnce ends: the Runtime is stopping.
LEMMA OnceEndStops ==
    ASSUME ~stop, ~done, OnceEnd, UNCHANGED <<queueVars, linkVars, done>>
    PROVE  Contract!ContractNext
  BY DEF OnceEnd, queueVars, linkVars, Phase, Contract!Stop, Contract!ContractNext

\* Everybody else accepts, stops or finishes.
LEMMA OthersContract ==
    ASSUME IndInv, Next, ~Writer
    PROVE  Contract!ContractNext \/ UNCHANGED Contract!contractVars
<1> DEFINE Goal == Contract!ContractNext \/ UNCHANGED Contract!contractVars
<1>0. ASSUME UNCHANGED <<queueVars, linkVars, phaseVars>> PROVE Goal
  BY <1>0 DEF queueVars, linkVars, phaseVars, Phase, Contract!contractVars
<1>00. ASSUME once = "running" PROVE ~stop /\ ~done
  BY <1>00 DEF IndInv, ControlInv, OnceCloses, JoinedLast
<1> USE LaneKinds DEF phaseVars, stopVars, orchVars
<1>1. CASE Reader
  <2>1. CASE ReaderReply
    BY <2>1, SendAccepts DEF ReaderReply, ReaderUnchanged
  <2>2. CASE ReaderShutdown
    <3>1. CASE rpc = "shut"
      BY <2>2, <3>1, <1>0 DEF ReaderShutdown, ReaderUnchanged, OnceBegin, OncePassed
    <3>2. CASE rpc = "shut2"
      BY <2>2, <3>2, <1>00, OnceEndStops
         DEF ReaderShutdown, ReaderUnchanged, IndInv, ControlInv, OneOwner
    <3>3. QED
      BY <2>2, <3>1, <3>2 DEF ReaderShutdown
  <2>3. CASE ReaderPoll \/ ReadFails \/ ReadMalformed \/ ReadQuery \/ ReadClose
    BY <2>3, <1>0 DEF ReaderPoll, ReadFails, ReadMalformed, ReadQuery, ReadClose,
                      ReaderUnchanged
  <2>4. QED
    BY <1>1, <2>1, <2>2, <2>3 DEF Reader
<1>2. CASE Keepalive
  BY <1>2, <1>0, SendAccepts
     DEF Keepalive, KeepaliveTick, KeepaliveSend, KeepaliveStop
<1>3. CASE Watchdog
  <2>1. CASE dpc = "shut2"
    BY <1>3, <2>1, <1>00, OnceEndStops
       DEF Watchdog, WatchdogExpires, WatchdogStop, WatchdogShutdown,
           WatchdogUnchanged, IndInv, ControlInv, OneOwner
  <2>2. CASE dpc # "shut2"
    BY <1>3, <2>2, <1>0
       DEF Watchdog, WatchdogExpires, WatchdogStop, WatchdogShutdown,
           WatchdogUnchanged, OnceBegin, OncePassed
  <2>3. QED
    BY <2>1, <2>2
<1>4. CASE Orchestrator
  <2>1. CASE OrchJoin
    <3>1. stop /\ ~done /\ stop' /\ done' /\ UNCHANGED <<queueVars, linkVars>>
      BY <2>1 DEF OrchJoin, OrchUnchanged, IndInv, ControlInv, OnceCloses, JoinedLast
    <3>2. Contract!Finish
      BY <3>1 DEF Contract!Finish, Phase, queueVars, linkVars
    <3>3. QED
      BY <3>2 DEF Contract!ContractNext
  <2>2. CASE OrchShutdown /\ opc = "shut2"
    BY <2>2, <1>00, OnceEndStops
       DEF OrchShutdown, OrchUnchanged, IndInv, ControlInv, OneOwner
  <2>3. CASE OrchWait \/ (OrchShutdown /\ opc # "shut2")
    BY <2>3, <1>0 DEF OrchWait, OrchShutdown, OrchUnchanged, OnceBegin, OncePassed
  <2>4. QED
    BY <1>4, <2>1, <2>2, <2>3 DEF Orchestrator
<1>5. ASSUME NEW s \in Senders, Sender(s) PROVE Goal
  BY <1>5, <1>0, SendAccepts
     DEF Sender, Put, PutAccepted, PutConnectionLost, SenderUnchanged
<1>6. CASE Close
  <2>1. CASE GracefulEnd
    BY <2>1, <1>00, OnceEndStops
       DEF GracefulEnd, CloseUnchanged, IndInv, ControlInv, OneOwner, CloseInOnce
  <2>2. CASE Farewell
    BY <2>2, <1>0, SendAccepts DEF Farewell, CloseUnchanged
  <2>3. CASE GracefulBegin \/ DrainFinished \/ DrainTimeout
    BY <2>3, <1>0 DEF GracefulBegin, DrainFinished, DrainTimeout, CloseUnchanged,
                      OncePassed
  <2>4. QED
    BY <1>6, <2>1, <2>2, <2>3 DEF Close
<1>7. CASE PeerStalls \/ PeerResumes \/ PeerGone
  BY <1>7, <1>0 DEF PeerStalls, PeerResumes, PeerGone, PeerUnchanged
<1>8. QED
  BY <1>1, <1>2, <1>3, <1>4, <1>5, <1>6, <1>7 DEF Next

\* The goroutines of a Runtime implement what RuntimeContract promises to the
\* layers above: the items of each lane in order, a tail of each possibly lost,
\* nothing after Done().
THEOREM RuntimeImplementsContract == Spec => ImplementsContract
<1>1. IndInv /\ [Next]_vars => [Contract!ContractNext]_(Contract!contractVars)
  <2> SUFFICES ASSUME IndInv, [Next]_vars
               PROVE  Contract!ContractNext \/ UNCHANGED Contract!contractVars
    OBVIOUS
  <2>1. CASE UNCHANGED vars
    BY <2>1 DEF vars, queueVars, linkVars, stopVars, orchVars, Phase,
                Contract!contractVars
  <2>2. QED
    BY <2>1, WriterContract, OthersContract, NextItemInv DEF IndInv
<1>2. QED
  BY <1>1, InitContract, IndInvHolds, PTL DEF Spec, ImplementsContract,
     Contract!ContractSpec
=============================================================================

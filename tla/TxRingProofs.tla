---------------------------- MODULE TxRingProofs ----------------------------
(***************************************************************************)
(* Proofs about TxRing, for every ring with room for two frames and every  *)
(* number of calls.                                                        *)
(***************************************************************************)
EXTENDS TxRing, TLAPS

(* Steps from slot i forward to slot j. *)
Dist(i, j) == IF i <= j THEN j - i ELSE j - i + TX_RING_SIZE

LEMMA Sizes ==
    /\ TX_RING_SIZE \in Nat /\ MAX_TX_SEGS \in Nat /\ MaxCalls \in Nat
    /\ MAX_TX_SEGS >= 1 /\ 2 * MAX_TX_SEGS <= TX_RING_SIZE /\ TX_RING_SIZE >= 2
  BY TxAssumption

(* The slot n after i, without the remainder. *)
LEMMA SlotIs ==
    ASSUME NEW i \in Slots, NEW n \in 0 .. TX_RING_SIZE
    PROVE  /\ Slot(i, n) \in Slots
           /\ i + n < TX_RING_SIZE => Slot(i, n) = i + n
           /\ i + n >= TX_RING_SIZE => Slot(i, n) = i + n - TX_RING_SIZE
  <1>1. TX_RING_SIZE \in Nat /\ TX_RING_SIZE >= 2
    BY Sizes
  <1>2. CASE i + n < TX_RING_SIZE
    <2>1. i + n \in 0 .. TX_RING_SIZE - 1
      BY <1>1, <1>2 DEF Slots
    <2>2. (i + n) % TX_RING_SIZE = i + n
      BY <1>1, <2>1
    <2> QED
      BY <1>1, <1>2, <2>1, <2>2 DEF Slot, Slots
  <1>3. CASE i + n >= TX_RING_SIZE
    <2> DEFINE r == i + n - TX_RING_SIZE
    <2>1. r \in 0 .. TX_RING_SIZE - 1 /\ i + n = r + TX_RING_SIZE
      BY <1>1, <1>3 DEF Slots
    <2> HIDE DEF r
    <2>2. (r + TX_RING_SIZE) % TX_RING_SIZE = r
      BY <1>1, <2>1
    <2>3. Slot(i, n) = r
      BY <2>1, <2>2 DEF Slot
    <2> QED
      BY <1>1, <1>3, <2>1, <2>3 DEF Slots, r
  <1> QED
    BY <1>1, <1>2, <1>3 DEF Slots

(* The offset that QueueFrame computes. *)
LEMMA OffsetIs ==
    ASSUME NEW i \in Slots, NEW s \in Slots
    PROVE  (s - i) % TX_RING_SIZE = Dist(i, s)
  <1>1. TX_RING_SIZE \in Nat /\ TX_RING_SIZE >= 2
    BY Sizes
  <1>2. CASE i <= s
    <2>1. s - i \in 0 .. TX_RING_SIZE - 1
      BY <1>1, <1>2 DEF Slots
    <2>2. (s - i) % TX_RING_SIZE = s - i
      BY <1>1, <2>1
    <2> QED
      BY <1>2, <2>2 DEF Dist
  <1>3. CASE ~(i <= s)
    <2> DEFINE r == s - i + TX_RING_SIZE
    <2>1. r \in 0 .. TX_RING_SIZE - 1 /\ s - i = r - TX_RING_SIZE
      BY <1>1, <1>3 DEF Slots
    <2> HIDE DEF r
    <2>2. (r - TX_RING_SIZE) % TX_RING_SIZE = r
      BY <1>1, <2>1
    <2> QED
      BY <1>3, <2>1, <2>2 DEF Dist, r
  <1> QED
    BY <1>2, <1>3

(* Distances on the ring. *)
LEMMA DistIs ==
    ASSUME NEW i \in Slots, NEW j \in Slots
    PROVE  /\ Dist(i, j) \in 0 .. TX_RING_SIZE - 1
           /\ Dist(i, j) = 0 <=> i = j
           /\ Slot(i, Dist(i, j)) = j
           /\ \A n \in 0 .. TX_RING_SIZE - 1 : Dist(i, Slot(i, n)) = n
           /\ \A s \in Slots : s \in Range(i, j) <=> Dist(i, s) < Dist(i, j)
  <1>1. TX_RING_SIZE \in Nat /\ TX_RING_SIZE >= 2
    BY Sizes
  <1>2. Dist(i, j) \in 0 .. TX_RING_SIZE - 1 /\ (Dist(i, j) = 0 <=> i = j)
    BY <1>1 DEF Dist, Slots
  <1>3. Slot(i, Dist(i, j)) = j
    <2> DEFINE d == Dist(i, j)
    <2>1. d \in 0 .. TX_RING_SIZE
      BY <1>1, <1>2
    <2>2. IF i <= j THEN i + d = j ELSE i + d = j + TX_RING_SIZE
      BY <1>1 DEF Dist, Slots
    <2> HIDE DEF d
    <2>3. /\ i + d < TX_RING_SIZE => Slot(i, d) = i + d
          /\ i + d >= TX_RING_SIZE => Slot(i, d) = i + d - TX_RING_SIZE
      BY <2>1, SlotIs
    <2>4. Slot(i, d) = j
      BY <1>1, <2>1, <2>2, <2>3 DEF Slots
    <2> QED
      BY <2>4 DEF d
  <1>4. ASSUME NEW n \in 0 .. TX_RING_SIZE - 1
        PROVE  Dist(i, Slot(i, n)) = n
    <2>1. n \in 0 .. TX_RING_SIZE
      BY <1>1
    <2>2. /\ Slot(i, n) \in Slots
          /\ i + n < TX_RING_SIZE => Slot(i, n) = i + n
          /\ i + n >= TX_RING_SIZE => Slot(i, n) = i + n - TX_RING_SIZE
      BY <2>1, SlotIs
    <2> QED
      BY <1>1, <2>2 DEF Dist, Slots
  <1>5. \A s \in Slots : s \in Range(i, j) <=> Dist(i, s) < Dist(i, j)
    BY <1>1 DEF Dist, Slots, Range
  <1> QED
    BY <1>2, <1>3, <1>4, <1>5

(* n slots are added behind those from h to t. *)
LEMMA RangeGrows ==
    ASSUME NEW h \in Slots, NEW t \in Slots, NEW n \in 1 .. TX_RING_SIZE - 1
    PROVE  /\ Slot(t, n) \in Slots
           /\ \A s \in Range(h, Slot(t, n)) : s \in Range(h, t) \/ Dist(t, s) < n
           /\ Dist(h, t) + n = TX_RING_SIZE => Slot(t, n) = h
           /\ Dist(h, t) + n < TX_RING_SIZE =>
                 /\ Dist(h, Slot(t, n)) = Dist(h, t) + n
                 /\ \A s \in Slots : Dist(t, s) < n => s \in Range(h, Slot(t, n)) \ Range(h, t)
                 /\ Range(h, t) \subseteq Range(h, Slot(t, n))
  <1>1. TX_RING_SIZE \in Nat /\ TX_RING_SIZE >= 2
    BY Sizes
  <1> DEFINE u == Slot(t, n)
  <1>2. n \in 0 .. TX_RING_SIZE
    BY <1>1
  <1>3. /\ u \in Slots
        /\ t + n < TX_RING_SIZE => u = t + n
        /\ t + n >= TX_RING_SIZE => u = t + n - TX_RING_SIZE
    BY <1>2, SlotIs
  <1> HIDE DEF u
  <1>4. \A s \in Range(h, u) : s \in Range(h, t) \/ Dist(t, s) < n
    BY <1>1, <1>3 DEF Dist, Slots, Range
  <1>5. Dist(h, t) + n = TX_RING_SIZE => u = h
    BY <1>1, <1>3 DEF Dist, Slots
  <1>6. ASSUME Dist(h, t) + n < TX_RING_SIZE
        PROVE  /\ Dist(h, u) = Dist(h, t) + n
               /\ \A s \in Slots : Dist(t, s) < n => s \in Range(h, u) \ Range(h, t)
               /\ Range(h, t) \subseteq Range(h, u)
    <2>1. Dist(h, u) = Dist(h, t) + n
      BY <1>1, <1>3, <1>6 DEF Dist, Slots
    <2>2. \A s \in Slots : Dist(t, s) < n => s \in Range(h, u) \ Range(h, t)
      BY <1>1, <1>3, <1>6 DEF Dist, Slots, Range
    <2>3. Range(h, t) \subseteq Range(h, u)
      BY <1>1, <1>3, <1>6 DEF Dist, Slots, Range
    <2> QED
      BY <2>1, <2>2, <2>3
  <1> QED
    BY <1>3, <1>4, <1>5, <1>6 DEF u

(* The first slot is taken away from those from h to t. *)
LEMMA RangeShrinks ==
    ASSUME NEW h \in Slots, NEW t \in Slots, h # t
    PROVE  /\ Slot(h, 1) \in Slots
           /\ Range(Slot(h, 1), t) = Range(h, t) \ {h}
           /\ h \in Range(h, t) /\ t \notin Range(h, t)
           /\ \A s \in Range(h, t) : Slot(s, 1) # h
  <1>1. TX_RING_SIZE \in Nat /\ TX_RING_SIZE >= 2 /\ 1 \in 0 .. TX_RING_SIZE
    BY Sizes
  <1>2. \A s \in Slots : /\ Slot(s, 1) \in Slots
                         /\ s + 1 < TX_RING_SIZE => Slot(s, 1) = s + 1
                         /\ s + 1 >= TX_RING_SIZE => Slot(s, 1) = s + 1 - TX_RING_SIZE
    BY <1>1, SlotIs
  <1>3. Range(Slot(h, 1), t) = Range(h, t) \ {h}
    <2>1. /\ Slot(h, 1) \in Slots
          /\ h + 1 < TX_RING_SIZE => Slot(h, 1) = h + 1
          /\ h + 1 >= TX_RING_SIZE => Slot(h, 1) = h + 1 - TX_RING_SIZE
      BY <1>2
    <2> DEFINE g == Slot(h, 1)
    <2> HIDE DEF g
    <2>2. \A s : s \in Range(g, t) <=> s \in Range(h, t) \ {h}
      BY <1>1, <2>1 DEF Slots, Range, g
    <2> QED
      BY <2>2 DEF g
  <1>4. h \in Range(h, t) /\ t \notin Range(h, t)
    BY <1>1 DEF Slots, Range
  <1>5. ASSUME NEW s \in Range(h, t) PROVE Slot(s, 1) # h
    <2>1. s \in Slots
      BY <1>5 DEF Range
    <2>2. /\ s + 1 < TX_RING_SIZE => Slot(s, 1) = s + 1
          /\ s + 1 >= TX_RING_SIZE => Slot(s, 1) = s + 1 - TX_RING_SIZE
      BY <1>2, <2>1
    <2> QED
      BY <1>1, <1>5, <2>1, <2>2 DEF Slots, Range
  <1> QED
    BY <1>2, <1>3, <1>4, <1>5

(* The slot after the n-th of a frame. *)
LEMMA NextOf ==
    ASSUME NEW t \in Slots, NEW s \in Slots, NEW n \in 1 .. TX_RING_SIZE - 1,
           Dist(t, s) < n
    PROVE  /\ Slot(s, 1) \in Slots
           /\ Dist(t, s) + 1 < n => Dist(t, Slot(s, 1)) = Dist(t, s) + 1
           /\ Dist(t, s) + 1 = n => Slot(s, 1) = Slot(t, n)
  <1>1. TX_RING_SIZE \in Nat /\ TX_RING_SIZE >= 2 /\ 1 \in 0 .. TX_RING_SIZE
        /\ n \in 0 .. TX_RING_SIZE
    BY Sizes
  <1>2. /\ Slot(s, 1) \in Slots
        /\ s + 1 < TX_RING_SIZE => Slot(s, 1) = s + 1
        /\ s + 1 >= TX_RING_SIZE => Slot(s, 1) = s + 1 - TX_RING_SIZE
    BY <1>1, SlotIs
  <1>3. /\ Slot(t, n) \in Slots
        /\ t + n < TX_RING_SIZE => Slot(t, n) = t + n
        /\ t + n >= TX_RING_SIZE => Slot(t, n) = t + n - TX_RING_SIZE
    BY <1>1, SlotIs
  <1> QED
    BY <1>1, <1>2, <1>3 DEF Dist, Slots

(* A slot that the card owns and whose successor it does not is the last. *)
LEMMA LastOwned ==
    ASSUME NEW h \in Slots, NEW t \in Slots, NEW s \in Range(h, t)
    PROVE  Slot(s, 1) \in Range(h, t) \cup {t}
  <1>1. TX_RING_SIZE \in Nat /\ TX_RING_SIZE >= 2 /\ 1 \in 0 .. TX_RING_SIZE /\ s \in Slots
    BY Sizes DEF Range
  <1>2. /\ Slot(s, 1) \in Slots
        /\ s + 1 < TX_RING_SIZE => Slot(s, 1) = s + 1
        /\ s + 1 >= TX_RING_SIZE => Slot(s, 1) = s + 1 - TX_RING_SIZE
    BY <1>1, SlotIs
  <1> QED
    BY <1>1, <1>2 DEF Range, Slots

----------------------------------------------------------------------------
(* The steps of the driver that leave the ring alone.                      *)

LEMMA InitIInv == Init => IInv
  <1> SUFFICES ASSUME Init PROVE IInv
    OBVIOUS
  <1>1. TX_RING_SIZE \in Nat /\ TX_RING_SIZE >= 2 /\ MAX_TX_SEGS \in Nat /\ MaxCalls \in Nat
    BY Sizes
  <1>2. Owned = {}
    BY <1>1 DEF Init, Owned, Range, Slots
  <1>3. TypeOK
    <2>1. tx_ring \in [Slots -> Desc]
      BY <1>1 DEF Init, Desc
    <2>2. tx_tail \in Slots /\ tdh \in Slots /\ tdt \in Slots /\ segs \in 0 .. MAX_TX_SEGS
      BY <1>1 DEF Init, Slots
    <2>3. result \in [Calls -> Results]
      BY DEF Init, Results
    <2>4. Len(gathered) = 0 /\ Len(wire) = 0
      BY DEF Init
    <2>5. pc \in {"idle", "slots", "wait"} /\ calls = NoCall /\ fallback = NoCall /\ overrun \in BOOLEAN
      BY DEF Init, NoCall
    <2> QED
      BY <2>1, <2>2, <2>3, <2>4, <2>5 DEF TypeOK
  <1>4. RingFilled
    <2>1. \A s \in Slots : tx_ring[s].call = 0
      BY DEF Init, NoCall
    <2>2. LastQueued = 0
      BY DEF Init, LastQueued
    <2> QED
      BY <1>2, <2>1, <2>2 DEF Init, RingFilled
  <1>5. WireInOrder /\ RingInOrder
    BY <1>2 DEF Init, WireInOrder, RingInOrder, HeadContinues
  <1>6. CallCurrent /\ ZeroMeansSent
    BY DEF Init, CallCurrent, ZeroMeansSent
  <1> QED
    BY <1>3, <1>4, <1>5, <1>6 DEF IInv

(* What the card and the ring have to do with each other stays as it is. *)
LEMMA RingStays ==
    ASSUME WireInOrder, RingInOrder,
           UNCHANGED <<tx_ring, tx_tail, tdt, card, overrun>>
    PROVE  WireInOrder' /\ RingInOrder'
  <1>1. UNCHANGED <<tx_ring, tx_tail, tdt, tdh, gathered, wire, overrun>>
    BY DEF card
  <1>2. Owned' = Owned
    BY <1>1 DEF Owned, Range, Slots
  <1>3. \A s : Followed(s)' = Followed(s)
    BY <1>1, <1>2 DEF Followed, Slot
  <1>4. HeadContinues' = HeadContinues
    BY <1>1 DEF HeadContinues
  <1>5. WireInOrder'
    BY <1>1, <1>2 DEF WireInOrder
  <1>6. RingInOrder'
    BY <1>1, <1>2, <1>3, <1>4 DEF RingInOrder
  <1> QED
    BY <1>5, <1>6

(* So do the bounds on the calls of what is queued, as the calls go on. *)
LEMMA FilledStays ==
    ASSUME TypeOK, RingFilled,
           UNCHANGED <<tx_ring, tx_tail, tdt, card>>,
           pc' # "idle" => calls' > 0,
           LastQueued <= LastQueued', LastQueued' \in Int
    PROVE  RingFilled'
  <1>1. UNCHANGED <<tx_ring, tx_tail, tdt, tdh, gathered, wire>>
    BY DEF card
  <1>2. Owned' = Owned
    BY <1>1 DEF Owned, Range, Slots
  <1>3. LastQueued \in Int
    BY Sizes DEF LastQueued, TypeOK, Calls, NoCall
  <1>4. \A s \in Slots : tx_ring'[s].call <= LastQueued'
    <2>1. \A s \in Slots : tx_ring[s].call \in Int /\ tx_ring[s].call <= LastQueued
      BY Sizes DEF TypeOK, RingFilled, Desc, Calls, NoCall
    <2> QED
      BY <1>1, <1>3, <2>1
  <1>5. \A n \in 1 .. Len(gathered') : gathered'[n].call <= LastQueued'
    <2>1. \A n \in 1 .. Len(gathered) : gathered[n].call \in Int /\ gathered[n].call <= LastQueued
      BY Sizes DEF TypeOK, RingFilled, Calls
    <2> QED
      BY <1>1, <1>3, <2>1
  <1>6. \A n \in 1 .. Len(wire') : wire'[n].call <= LastQueued'
    <2>1. \A n \in 1 .. Len(wire) : wire[n].call \in Int /\ wire[n].call <= LastQueued
      BY Sizes DEF TypeOK, RingFilled, Calls, WireFrame
    <2> QED
      BY <1>1, <1>3, <2>1
  <1>7. /\ tx_tail' = tdt'
        /\ gathered' \in Seq([call : Calls, seg : 1 .. MAX_TX_SEGS, intact : BOOLEAN])
        /\ wire' \in Seq(WireFrame)
        /\ \A s \in Owned' : tx_ring'[s].call # NoCall /\ tx_ring'[s].seg > 0
    BY <1>1, <1>2 DEF RingFilled
  <1> QED
    BY <1>4, <1>5, <1>6, <1>7 DEF RingFilled

LEMMA OutputIInv ==
    ASSUME IInv, NEW n \in 0 .. MAX_TX_SEGS, low_level_output(n)
    PROVE  IInv'
  <1>1. /\ TypeOK /\ RingFilled /\ WireInOrder /\ RingInOrder /\ ZeroMeansSent
        /\ UNCHANGED <<tx_ring, tx_tail, tdt, card, result, overrun>>
        /\ UNCHANGED <<tdh, gathered, wire>>
        /\ pc = "idle" /\ pc' = "slots" /\ calls' = calls + 1 /\ segs' = n
        /\ fallback' = IF n = 0 THEN calls + 1 ELSE fallback
        /\ calls < MaxCalls
    BY DEF IInv, low_level_output, card
  <1>2. calls \in Nat /\ calls' \in Calls /\ calls' > 0
    BY <1>1, Sizes DEF TypeOK, Calls, NoCall
  <1>3. TypeOK'
    BY <1>1, <1>2 DEF TypeOK
  <1>4. LastQueued' = LastQueued /\ LastQueued' \in Int
    BY <1>1, <1>2 DEF LastQueued
  <1>5. RingFilled'
    BY <1>1, <1>2, <1>4, FilledStays
  <1>6. WireInOrder' /\ RingInOrder'
    BY <1>1, RingStays
  <1>7. CallCurrent'
    BY <1>1 DEF CallCurrent
  <1>8. ZeroMeansSent'
    BY <1>1 DEF ZeroMeansSent
  <1> QED
    BY <1>3, <1>5, <1>6, <1>7, <1>8 DEF IInv

(* A call returns; if with 0, then after its frame is out. *)
LEMMA ReturnIInv ==
    ASSUME IInv, NEW r \in {"failed", "timeout", "ok"}, Returns(r), pc # "idle",
           r = "ok" => pc = "wait" /\ tx_ring[LastIdx].dd,
           UNCHANGED <<tx_ring, tx_tail, tdt, card, calls, fallback, overrun>>
    PROVE  IInv'
  <1>1. /\ TypeOK /\ RingFilled /\ WireInOrder /\ RingInOrder /\ CallCurrent /\ ZeroMeansSent
        /\ UNCHANGED <<tx_ring, tx_tail, tdt, card, calls, fallback, overrun>>
        /\ UNCHANGED <<tdh, gathered, wire>>
        /\ pc' = "idle" /\ segs' = 0 /\ result' = [result EXCEPT ![calls] = r]
    BY DEF IInv, Returns, card
  <1>2. calls \in Calls /\ calls \in Nat /\ calls > 0
    BY <1>1, Sizes DEF TypeOK, RingFilled, Calls, NoCall
  <1>3. TypeOK'
    <2>1. result' \in [Calls -> Results]
      BY <1>1, <1>2 DEF TypeOK, Results
    <2>2. segs' \in 0 .. MAX_TX_SEGS
      BY <1>1, Sizes
    <2> QED
      BY <1>1, <2>1, <2>2 DEF TypeOK
  <1>4. LastQueued <= LastQueued' /\ LastQueued' \in Int
    BY <1>1, <1>2 DEF LastQueued
  <1>5. RingFilled'
    BY <1>1, <1>2, <1>4, FilledStays
  <1>6. WireInOrder' /\ RingInOrder'
    BY <1>1, RingStays
  <1>7. CallCurrent'
    BY <1>1 DEF CallCurrent
  <1>8. ZeroMeansSent'
    <2> SUFFICES ASSUME NEW k \in Calls, result'[k] = "ok"
                 PROVE  \E n \in 1 .. Len(wire) :
                           wire[n].call = k /\ (~overrun => wire[n].whole /\ wire[n].intact)
      BY <1>1 DEF ZeroMeansSent
    <2>1. CASE k = calls
      <3>1. r = "ok"
        BY <1>1, <2>1 DEF TypeOK
      <3> QED
        BY <1>1, <2>1, <3>1 DEF CallCurrent
    <2>2. CASE k # calls
      <3>1. result[k] = "ok"
        BY <1>1, <2>2 DEF TypeOK
      <3> QED
        BY <1>1, <3>1 DEF ZeroMeansSent
    <2> QED
      BY <2>1, <2>2
  <1> QED
    BY <1>3, <1>5, <1>6, <1>7, <1>8 DEF IInv

----------------------------------------------------------------------------
(* A frame is queued.                                                      *)

LEMMA NewDescIs ==
    ASSUME NEW n
    PROVE  /\ NewDesc(n).call = calls /\ NewDesc(n).seg = n + 1
           /\ NewDesc(n).copied = (segs = 0) /\ NewDesc(n).eop = (n = Needed - 1)
           /\ NewDesc(n).dd = FALSE
  BY Zenon DEF NewDesc

(* The ring afterwards. *)
LEMMA QueuedRing ==
    ASSUME TypeOK, RingFilled, QueueFrame
    PROVE  /\ Needed \in 1 .. MAX_TX_SEGS /\ Needed \in 1 .. TX_RING_SIZE - 1
           /\ tx_tail' = Slot(tdt, Needed) /\ tdt' = tx_tail' /\ tdt' \in Slots
           /\ \A s \in Slots : tx_ring'[s] = IF Dist(tdt, s) < Needed
                                              THEN NewDesc(Dist(tdt, s)) ELSE tx_ring[s]
           /\ \A s \in Slots : Dist(tdt, s) < Needed => NewDesc(Dist(tdt, s)) \in Desc
           /\ tx_ring' \in [Slots -> Desc]
  <1>1. /\ TX_RING_SIZE \in Nat /\ TX_RING_SIZE >= 2 /\ MAX_TX_SEGS \in Nat /\ MaxCalls \in Nat
        /\ MAX_TX_SEGS >= 1 /\ 2 * MAX_TX_SEGS <= TX_RING_SIZE
    BY Sizes
  <1>2. tx_tail = tdt /\ tdt \in Slots /\ segs \in 0 .. MAX_TX_SEGS
    BY DEF TypeOK, RingFilled
  <1>3. Needed \in 1 .. MAX_TX_SEGS /\ Needed \in 1 .. TX_RING_SIZE - 1
    BY <1>1, <1>2 DEF Needed
  <1>4. tx_tail' = Slot(tdt, Needed) /\ tdt' = tx_tail' /\ tdt' \in Slots
    BY <1>2, <1>3, RangeGrows DEF QueueFrame, NewTail
  <1>5. ASSUME NEW s \in Slots
        PROVE  (\E n \in 0 .. Needed - 1 : s = Slot(tdt, n)) <=> Dist(tdt, s) < Needed
    <2>1. Dist(tdt, s) \in 0 .. TX_RING_SIZE - 1 /\ Slot(tdt, Dist(tdt, s)) = s
      BY <1>2, DistIs
    <2>2. ASSUME NEW n \in 0 .. Needed - 1, s = Slot(tdt, n)
          PROVE  Dist(tdt, s) = n
      <3>1. n \in 0 .. TX_RING_SIZE - 1
        BY <1>1, <1>3
      <3> QED
        BY <1>2, <2>2, <3>1, DistIs
    <2>3. Dist(tdt, s) < Needed => Dist(tdt, s) \in 0 .. Needed - 1
      BY <1>1, <1>3, <2>1
    <2> QED
      BY <1>1, <1>3, <2>1, <2>2, <2>3
  <1>6. \A s \in Slots : tx_ring'[s] = IF Dist(tdt, s) < Needed
                                        THEN NewDesc(Dist(tdt, s)) ELSE tx_ring[s]
    <2> TAKE s \in Slots
    <2>1. tx_ring'[s] = IF \E n \in 0 .. Needed - 1 : s = Slot(tx_tail, n)
                        THEN NewDesc((s - tx_tail) % TX_RING_SIZE) ELSE tx_ring[s]
      BY DEF QueueFrame
    <2>2. (s - tx_tail) % TX_RING_SIZE = Dist(tdt, s)
      BY <1>2, OffsetIs
    <2> QED
      BY <1>2, <1>5, <2>1, <2>2
  <1>7. ASSUME NEW s \in Slots, Dist(tdt, s) < Needed
        PROVE  NewDesc(Dist(tdt, s)) \in Desc
    <2>1. Dist(tdt, s) + 1 \in 0 .. MAX_TX_SEGS
      <3>1. Dist(tdt, s) \in 0 .. TX_RING_SIZE - 1
        BY <1>2, DistIs
      <3> QED
        BY <1>1, <1>3, <1>7, <3>1
    <2>2. calls \in Calls \cup {NoCall}
      BY DEF TypeOK
    <2> QED
      BY <2>1, <2>2 DEF NewDesc, Desc
  <1>8. tx_ring' \in [Slots -> Desc]
    <2>1. \A s \in Slots : tx_ring'[s] \in Desc
      BY <1>6, <1>7 DEF TypeOK
    <2> QED
      BY <2>1 DEF QueueFrame
  <1> QED
    BY <1>3, <1>4, <1>6, <1>7, <1>8

(* No descriptor that the card still owns is written over, unless the ring *)
(* was overrun before, or is now: the driver has looked at DD of each one  *)
(* it takes, and e1000_send_raw takes only one.                            *)
LEMMA QueueFits ==
    ASSUME TypeOK, RingFilled, WireInOrder, QueueFrame, ~overrun'
    PROVE  ~overrun /\ Dist(tdh, tdt) + Needed < TX_RING_SIZE
  <1>1. /\ TX_RING_SIZE \in Nat /\ TX_RING_SIZE >= 2 /\ MAX_TX_SEGS \in Nat
    BY Sizes
  <1>2. tx_tail = tdt /\ tdt \in Slots /\ tdh \in Slots /\ segs \in 0 .. MAX_TX_SEGS
    BY DEF TypeOK, RingFilled
  <1>3. ~overrun /\ Slot(tdt, Needed) # tdh
    BY <1>2 DEF QueueFrame, NewTail, TypeOK
  <1>4. Needed \in 1 .. TX_RING_SIZE - 1
    BY QueuedRing
  <1> DEFINE D == Dist(tdh, tdt)
  <1>5. D \in 0 .. TX_RING_SIZE - 1 /\ (D = 0 <=> tdh = tdt)
    BY <1>2, DistIs
  <1>6. D + Needed # TX_RING_SIZE
    BY <1>2, <1>3, <1>4, RangeGrows
  <1>7. ASSUME D + Needed > TX_RING_SIZE
        PROVE  FALSE
    <2> DEFINE n == TX_RING_SIZE - D
    <2>1. D > 0 /\ Needed > 1 /\ tdh # tdt
      BY <1>1, <1>4, <1>5, <1>7
    <2>2. n \in 0 .. segs - 1 /\ n \in 1 .. TX_RING_SIZE - 1 /\ D + n = TX_RING_SIZE
      BY <1>1, <1>2, <1>4, <1>5, <1>7, <2>1 DEF Needed
    <2> HIDE DEF n
    <2>3. Slot(tdt, n) = tdh
      BY <1>2, <2>2, RangeGrows
    <2>4. tx_ring[tdh].dd
      BY <1>2, <2>2, <2>3 DEF QueueFrame, SlotsFree
    <2>5. tdh \in Owned
      BY <1>2, <2>1, RangeShrinks DEF Owned
    <2> QED
      BY <1>2, <1>3, <2>4, <2>5 DEF WireInOrder
  <1> HIDE DEF D
  <1>8. D + Needed < TX_RING_SIZE
    BY <1>1, <1>4, <1>5, <1>6, <1>7
  <1> QED
    BY <1>3, <1>8 DEF D

(* The call is later than all that is queued. *)
LEMMA CallIsNew ==
    ASSUME TypeOK, RingFilled, pc = "slots"
    PROVE  /\ calls \in Calls /\ calls \in Nat /\ calls > 0
           /\ \A s \in Slots : tx_ring[s].call \in Nat /\ tx_ring[s].call < calls
           /\ \A n \in 1 .. Len(gathered) :
                 gathered[n].call \in Nat /\ gathered[n].call < calls
           /\ \A n \in 1 .. Len(wire) : wire[n].call \in Nat /\ wire[n].call < calls
  <1>1. calls \in Calls /\ calls \in Nat /\ calls > 0
    BY Sizes DEF TypeOK, RingFilled, Calls, NoCall
  <1>2. LastQueued = calls - 1
    BY DEF LastQueued
  <1>3. \A s \in Slots : tx_ring[s].call \in Nat /\ tx_ring[s].call <= LastQueued
    BY Sizes DEF TypeOK, RingFilled, Desc, Calls, NoCall
  <1>4. \A n \in 1 .. Len(gathered) : gathered[n].call \in Nat /\ gathered[n].call <= LastQueued
    <2>1. \A n \in 1 .. Len(gathered) : gathered[n].call \in Calls
      BY DEF TypeOK
    <2> QED
      BY <2>1, Sizes DEF RingFilled, Calls
  <1>5. \A n \in 1 .. Len(wire) : wire[n].call \in Nat /\ wire[n].call <= LastQueued
    <2>1. \A n \in 1 .. Len(wire) : wire[n].call \in Calls
      BY DEF TypeOK, WireFrame
    <2> QED
      BY <2>1, Sizes DEF RingFilled, Calls
  <1> QED
    BY <1>1, <1>2, <1>3, <1>4, <1>5

LEMMA QueueFilled ==
    ASSUME TypeOK, RingFilled, QueueFrame
    PROVE  TypeOK' /\ RingFilled'
  <1>1. /\ Needed \in 1 .. TX_RING_SIZE - 1
        /\ tx_tail' = Slot(tdt, Needed) /\ tdt' = tx_tail' /\ tdt' \in Slots
        /\ \A s \in Slots : tx_ring'[s] = IF Dist(tdt, s) < Needed
                                           THEN NewDesc(Dist(tdt, s)) ELSE tx_ring[s]
        /\ tx_ring' \in [Slots -> Desc]
    BY QueuedRing
  <1>2. /\ calls \in Calls /\ calls \in Nat /\ calls > 0
        /\ \A s \in Slots : tx_ring[s].call \in Nat /\ tx_ring[s].call < calls
        /\ \A n \in 1 .. Len(gathered) : gathered[n].call \in Nat /\ gathered[n].call < calls
        /\ \A n \in 1 .. Len(wire) : wire[n].call \in Nat /\ wire[n].call < calls
    BY CallIsNew DEF QueueFrame
  <1>3. /\ pc' = "wait" /\ overrun' \in BOOLEAN
        /\ UNCHANGED <<tdh, gathered, wire, calls, segs, fallback, result>>
    BY DEF QueueFrame, card, TypeOK
  <1>4. TypeOK'
    BY <1>1, <1>3 DEF TypeOK
  <1>5. LastQueued' = calls
    BY <1>3 DEF LastQueued
  <1>6. tdt \in Slots /\ tdh \in Slots
    BY DEF TypeOK
  <1>7. \A s \in Slots : tx_ring'[s].call <= calls
    BY <1>1, <1>2 DEF NewDesc
  <1>8. ASSUME NEW s \in Owned'
        PROVE  tx_ring'[s].call # NoCall /\ tx_ring'[s].seg > 0
    <2>1. s \in Slots /\ (s \in Owned \/ Dist(tdt, s) < Needed)
      <3>1. s \in Range(tdh, Slot(tdt, Needed))
        BY <1>1, <1>3, <1>8 DEF Owned, Range, Slots
      <3> QED
        BY <1>1, <1>6, <3>1, RangeGrows DEF Owned, Range
    <2>2. CASE Dist(tdt, s) < Needed
      <3>1. Dist(tdt, s) \in Nat
        BY <1>6, <2>1, DistIs
      <3>2. tx_ring'[s].call = calls /\ tx_ring'[s].seg = Dist(tdt, s) + 1
        BY <1>1, <2>1, <2>2 DEF NewDesc
      <3> QED
        BY <1>2, <3>1, <3>2 DEF NoCall
    <2>3. CASE ~(Dist(tdt, s) < Needed)
      BY <1>1, <2>1, <2>3 DEF RingFilled
    <2> QED
      BY <2>2, <2>3
  <1>9. /\ \A n \in 1 .. Len(gathered') : gathered'[n].call <= LastQueued'
        /\ \A n \in 1 .. Len(wire') : wire'[n].call <= LastQueued'
    BY <1>2, <1>3, <1>5
  <1> QED
    BY <1>1, <1>2, <1>3, <1>4, <1>5, <1>7, <1>8, <1>9 DEF RingFilled

(* The last descriptor of the call. *)
LEMMA LastIdxIs ==
    ASSUME NEW t \in Slots, NEW n \in 1 .. TX_RING_SIZE - 1
    PROVE  LET l == Slot(Slot(t, n), TX_RING_SIZE - 1)
           IN  l \in Slots /\ Dist(t, l) = n - 1
  <1>1. TX_RING_SIZE \in Nat /\ TX_RING_SIZE >= 2
        /\ n \in 0 .. TX_RING_SIZE /\ TX_RING_SIZE - 1 \in 0 .. TX_RING_SIZE
    BY Sizes
  <1> DEFINE u == Slot(t, n)
             l == Slot(u, TX_RING_SIZE - 1)
  <1>2. /\ u \in Slots
        /\ t + n < TX_RING_SIZE => u = t + n
        /\ t + n >= TX_RING_SIZE => u = t + n - TX_RING_SIZE
    BY <1>1, SlotIs
  <1> HIDE DEF u
  <1>3. /\ l \in Slots
        /\ u + (TX_RING_SIZE - 1) < TX_RING_SIZE => l = u + (TX_RING_SIZE - 1)
        /\ u + (TX_RING_SIZE - 1) >= TX_RING_SIZE => l = u + (TX_RING_SIZE - 1) - TX_RING_SIZE
    BY <1>1, <1>2, SlotIs
  <1> HIDE DEF l
  <1>4. Dist(t, l) = n - 1
    BY <1>1, <1>2, <1>3 DEF Dist, Slots
  <1> QED
    BY <1>3, <1>4 DEF l, u

LEMMA QueueCurrent ==
    ASSUME TypeOK, RingFilled, CallCurrent, QueueFrame
    PROVE  CallCurrent'
  <1>1. /\ Needed \in 1 .. TX_RING_SIZE - 1
        /\ tx_tail' = Slot(tdt, Needed)
        /\ \A s \in Slots : tx_ring'[s] = IF Dist(tdt, s) < Needed
                                           THEN NewDesc(Dist(tdt, s)) ELSE tx_ring[s]
    BY QueuedRing
  <1>2. /\ calls \in Nat
        /\ \A s \in Slots : tx_ring[s].call \in Nat /\ tx_ring[s].call < calls
        /\ \A n \in 1 .. Len(gathered) : gathered[n].call \in Nat /\ gathered[n].call < calls
    BY CallIsNew DEF QueueFrame
  <1>3. pc = "slots" /\ pc' = "wait" /\ UNCHANGED <<gathered, calls, segs, fallback>>
    BY DEF QueueFrame, card
  <1>4. tdt \in Slots /\ TX_RING_SIZE \in Nat
    BY Sizes DEF TypeOK
  <1>5. LastIdx' \in Slots /\ Dist(tdt, LastIdx') = Needed - 1
    BY <1>1, <1>4, LastIdxIs DEF LastIdx, Slot
  <1>6. tx_ring'[LastIdx'] = NewDesc(Needed - 1)
    BY <1>1, <1>4, <1>5
  <1>7. tx_ring'[LastIdx'].call = calls /\ tx_ring'[LastIdx'].eop /\ ~tx_ring'[LastIdx'].dd
    <2>1. /\ NewDesc(Needed - 1).call = calls /\ NewDesc(Needed - 1).dd = FALSE
          /\ NewDesc(Needed - 1).eop = (Needed - 1 = Needed - 1)
      BY NewDescIs
    <2> QED
      BY <1>6, <2>1, Zenon
  <1>8. \A s \in Slots : tx_ring'[s].call = calls => tx_ring'[s].copied = (segs = 0)
    <2> TAKE s \in Slots
    <2>1. CASE Dist(tdt, s) < Needed
      <3>1. tx_ring'[s] = NewDesc(Dist(tdt, s))
        BY <1>1, <2>1
      <3>2. NewDesc(Dist(tdt, s)).copied = (segs = 0)
        BY NewDescIs
      <3> QED
        BY <3>1, <3>2, Zenon
    <2>2. CASE ~(Dist(tdt, s) < Needed)
      <3>1. tx_ring'[s] = tx_ring[s]
        BY <1>1, <2>2
      <3>2. tx_ring'[s].call # calls
        BY <1>2, <3>1
      <3> QED
        BY <3>2, Zenon
    <2> QED
      BY <2>1, <2>2
  <1>9. \A n \in 1 .. Len(gathered') : gathered'[n].call # calls
    BY <1>2, <1>3
  <1>10. segs = 0 => fallback = calls
    BY <1>3 DEF CallCurrent
  <1> QED
    BY <1>3, <1>7, <1>8, <1>9, <1>10 DEF CallCurrent

(* In a ring that is not overrun the new frame follows the old ones. *)
LEMMA QueueInOrder ==
    ASSUME TypeOK, RingFilled, WireInOrder, RingInOrder, QueueFrame
    PROVE  WireInOrder' /\ RingInOrder'
  <1> SUFFICES ASSUME ~overrun' PROVE WireInOrder' /\ RingInOrder'
    BY DEF WireInOrder, RingInOrder
  <1>1. /\ Needed \in 1 .. TX_RING_SIZE - 1
        /\ tdt' = Slot(tdt, Needed) /\ tdt' \in Slots
        /\ \A s \in Slots : tx_ring'[s] = IF Dist(tdt, s) < Needed
                                           THEN NewDesc(Dist(tdt, s)) ELSE tx_ring[s]
    BY QueuedRing
  <1>2. ~overrun /\ Dist(tdh, tdt) + Needed < TX_RING_SIZE
    BY QueueFits
  <1>3. /\ calls \in Nat
        /\ \A s \in Slots : tx_ring[s].call \in Nat /\ tx_ring[s].call < calls
        /\ \A n \in 1 .. Len(wire) : wire[n].call \in Nat /\ wire[n].call < calls
    BY CallIsNew DEF QueueFrame
  <1>4. UNCHANGED <<tdh, gathered, wire>>
    BY DEF QueueFrame, card
  <1>5. tdt \in Slots /\ tdh \in Slots /\ TX_RING_SIZE \in Nat
    BY Sizes DEF TypeOK
  <1>6. \A s \in Slots : Dist(tdt, s) \in Nat
    BY <1>5, DistIs
  <1>7. Owned' = Range(tdh, Slot(tdt, Needed))
    BY <1>1, <1>4 DEF Owned, Range, Slots
  <1>8. /\ \A s \in Owned' : s \in Owned \/ Dist(tdt, s) < Needed
        /\ \A s \in Slots : Dist(tdt, s) < Needed => s \in Owned' /\ s \notin Owned
        /\ Owned \subseteq Owned' /\ Owned \subseteq Slots /\ Owned' \subseteq Slots
        /\ Dist(tdh, tdt') = Dist(tdh, tdt) + Needed
    <2>1. /\ \A s \in Range(tdh, Slot(tdt, Needed)) : s \in Range(tdh, tdt) \/ Dist(tdt, s) < Needed
          /\ Dist(tdh, Slot(tdt, Needed)) = Dist(tdh, tdt) + Needed
          /\ \A s \in Slots : Dist(tdt, s) < Needed =>
                s \in Range(tdh, Slot(tdt, Needed)) \ Range(tdh, tdt)
          /\ Range(tdh, tdt) \subseteq Range(tdh, Slot(tdt, Needed))
      BY <1>1, <1>2, <1>5, RangeGrows
    <2>2. \A i, j : Range(i, j) \subseteq Slots
      BY DEF Range
    <2> QED
      BY <1>1, <1>7, <2>1, <2>2 DEF Owned
  <1>9. \A s \in Owned : tx_ring'[s] = tx_ring[s] /\ ~(Dist(tdt, s) < Needed)
    BY <1>1, <1>8
  <1>10. WireInOrder'
    <2>1. ASSUME NEW s \in Slots
          PROVE  ~tx_ring'[s].dd <=> s \in Owned'
      <3>1. CASE Dist(tdt, s) < Needed
        <4>1. tx_ring'[s] = NewDesc(Dist(tdt, s)) /\ s \in Owned'
          BY <1>1, <1>8, <3>1
        <4>2. NewDesc(Dist(tdt, s)).dd = FALSE
          BY NewDescIs
        <4> QED
          BY <4>1, <4>2, Zenon
      <3>2. CASE ~(Dist(tdt, s) < Needed)
        <4>1. tx_ring'[s] = tx_ring[s]
          BY <1>1, <3>2
        <4>2. ~tx_ring[s].dd <=> s \in Owned
          BY <1>2 DEF WireInOrder
        <4>3. s \in Owned <=> s \in Owned'
          BY <1>8, <3>2
        <4> QED
          BY <4>1, <4>2, <4>3
      <3> QED
        BY <3>1, <3>2
    <2>2. /\ \A m, n \in 1 .. Len(wire) : m < n => wire[m].call < wire[n].call
          /\ \A n \in 1 .. Len(wire) : wire[n].whole
      BY <1>2 DEF WireInOrder
    <2> QED
      BY <1>4, <2>1, <2>2 DEF WireInOrder
  <1>11. ASSUME NEW s \in Slots, Dist(tdt, s) < Needed
         PROVE  Followed(s)'
    <2>1. /\ tx_ring'[s] = NewDesc(Dist(tdt, s))
          /\ tx_ring'[s].call = calls /\ tx_ring'[s].seg = Dist(tdt, s) + 1
          /\ tx_ring'[s].eop = (Dist(tdt, s) = Needed - 1)
      <3>1. tx_ring'[s] = NewDesc(Dist(tdt, s))
        BY <1>1, <1>11
      <3>2. /\ NewDesc(Dist(tdt, s)).call = calls /\ NewDesc(Dist(tdt, s)).seg = Dist(tdt, s) + 1
            /\ NewDesc(Dist(tdt, s)).eop = (Dist(tdt, s) = Needed - 1)
        BY NewDescIs
      <3> QED
        BY <3>1, <3>2, Zenon
    <2>2. /\ Slot(s, 1) \in Slots
          /\ Dist(tdt, s) + 1 < Needed => Dist(tdt, Slot(s, 1)) = Dist(tdt, s) + 1
          /\ Dist(tdt, s) + 1 = Needed => Slot(s, 1) = Slot(tdt, Needed)
      BY <1>1, <1>5, <1>11, NextOf
    <2>3. CASE Dist(tdt, s) = Needed - 1
      <3>1. Slot(s, 1) = tdt'
        BY <1>1, <1>6, <2>2, <2>3
      <3>2. tdt' \notin Owned'
        BY <1>1, <1>5, <1>7, DistIs
      <3>3. tx_ring'[s].eop
        BY <2>1, <2>3, Zenon
      <3> QED
        BY <3>1, <3>2, <3>3 DEF Followed, Slot
    <2>4. CASE Dist(tdt, s) # Needed - 1
      <3>1. Dist(tdt, s) + 1 < Needed
        BY <1>1, <1>5, <1>6, <1>11, <2>4
      <3>2. Slot(s, 1) \in Owned' /\ tx_ring'[Slot(s, 1)] = NewDesc(Dist(tdt, s) + 1)
        BY <1>1, <1>8, <2>2, <3>1
      <3>3. tx_ring'[Slot(s, 1)].call = calls /\ tx_ring'[Slot(s, 1)].seg = Dist(tdt, s) + 2
        <4>1. /\ NewDesc(Dist(tdt, s) + 1).call = calls
              /\ NewDesc(Dist(tdt, s) + 1).seg = Dist(tdt, s) + 1 + 1
          BY NewDescIs
        <4> QED
          BY <1>6, <3>2, <4>1
      <3>4. ~tx_ring'[s].eop
        BY <2>1, <2>4, Zenon
      <3>5. tx_ring'[Slot(s, 1)].seg = tx_ring'[s].seg + 1
        BY <1>6, <2>1, <3>3
      <3> QED
        BY <2>1, <3>2, <3>3, <3>4, <3>5 DEF Followed, Slot
    <2> QED
      BY <2>3, <2>4
  <1>12. ASSUME NEW s \in Owned
         PROVE  Followed(s)'
    <2>1. Slot(s, 1) \in Owned \cup {tdt} /\ s \in Slots /\ Slot(s, 1) \in Slots
      BY <1>5, <1>8, LastOwned DEF Owned
    <2>2. Followed(s)
      BY <1>2 DEF RingInOrder
    <2>3. tx_ring'[s] = tx_ring[s]
      BY <1>9
    <2>4. CASE Slot(s, 1) \in Owned
      <3>1. tx_ring'[Slot(s, 1)] = tx_ring[Slot(s, 1)] /\ Slot(s, 1) \in Owned'
        BY <1>8, <1>9, <2>4
      <3> QED
        BY <2>2, <2>3, <2>4, <3>1 DEF Followed, Slot
    <2>5. CASE Slot(s, 1) = tdt /\ tdt \notin Owned
      <3>1. tx_ring[s].eop
        BY <2>2, <2>5 DEF Followed
      <3>2. Dist(tdt, tdt) = 0 /\ Dist(tdt, tdt) < Needed
        BY <1>1, <1>5, DistIs
      <3>3. tx_ring'[tdt] = NewDesc(0)
        BY <1>1, <1>5, <3>2
      <3>4. tx_ring'[tdt].seg = 1 /\ tx_ring'[tdt].call = calls
        <4>1. NewDesc(0).seg = 0 + 1 /\ NewDesc(0).call = calls
          BY NewDescIs
        <4> QED
          BY <3>3, <4>1
      <3>5. tx_ring'[tdt].call > tx_ring'[s].call
        BY <1>3, <2>1, <2>3, <3>4
      <3> QED
        BY <2>3, <2>5, <3>1, <3>4, <3>5 DEF Followed, Slot
    <2> QED
      BY <2>1, <2>4, <2>5
  <1>13. HeadContinues'
    <2>1. HeadContinues
      BY <1>2 DEF RingInOrder
    <2>2. tdh' # tdt'
      <3>1. Dist(tdh, tdt') # 0
        BY <1>1, <1>5, <1>8, DistIs
      <3> QED
        BY <1>1, <1>4, <1>5, <3>1, DistIs
    <2>3. CASE tdh = tdt
      <3>1. gathered = <<>>
        BY <2>1, <2>3 DEF HeadContinues
      <3>2. Dist(tdt, tdt) = 0 /\ Dist(tdt, tdt) < Needed
        BY <1>1, <1>5, DistIs
      <3>3. tx_ring'[tdh] = NewDesc(0)
        BY <1>1, <1>5, <2>3, <3>2
      <3>4. tx_ring'[tdh].seg = 1 /\ tx_ring'[tdh].call = calls
        <4>1. NewDesc(0).seg = 0 + 1 /\ NewDesc(0).call = calls
          BY NewDescIs
        <4> QED
          BY <3>3, <4>1
      <3>5. Len(gathered) = 0
        BY <3>1
      <3> QED
        BY <1>3, <1>4, <2>2, <3>4, <3>5 DEF HeadContinues
    <2>4. CASE tdh # tdt
      <3>1. tdh \in Owned
        BY <1>5, <2>4, RangeShrinks DEF Owned
      <3>2. tx_ring'[tdh] = tx_ring[tdh]
        BY <1>9, <3>1
      <3> QED
        BY <1>4, <2>1, <2>2, <2>4, <3>2 DEF HeadContinues
    <2> QED
      BY <2>3, <2>4
  <1>14. \A s \in Owned' : Followed(s)'
    BY <1>8, <1>11, <1>12
  <1> QED
    BY <1>10, <1>13, <1>14 DEF RingInOrder

LEMMA QueueIInv ==
    ASSUME IInv, QueueFrame
    PROVE  IInv'
  <1>1. TypeOK /\ RingFilled /\ WireInOrder /\ RingInOrder /\ CallCurrent /\ ZeroMeansSent
    BY DEF IInv
  <1>2. UNCHANGED <<wire, result>> /\ (overrun => overrun')
    BY DEF QueueFrame, card
  <1>3. ZeroMeansSent'
    BY <1>1, <1>2 DEF ZeroMeansSent
  <1> QED
    BY <1>1, <1>3, QueueFilled, QueueInOrder, QueueCurrent DEF IInv

----------------------------------------------------------------------------
(* The card takes the descriptor at its head.                              *)

(* What it does to the ring. *)
LEMMA TakenRing ==
    ASSUME TypeOK, CardSends
    PROVE  /\ tdh \in Slots /\ tdt \in Slots /\ tdh # tdt
           /\ tdh' = Slot(tdh, 1) /\ tdh' \in Slots
           /\ UNCHANGED <<tx_tail, tdt, pc, calls, segs, fallback, result, overrun>>
           /\ Owned' = Owned \ {tdh} /\ tdh \in Owned /\ tdt \notin Owned /\ Owned \subseteq Slots
           /\ \A s \in Owned : Slot(s, 1) # tdh
           /\ tx_ring' \in [Slots -> Desc]
           /\ tx_ring'[tdh].dd = TRUE
           /\ \A s \in Slots \ {tdh} : tx_ring'[s] = tx_ring[s]
           /\ \A s \in Slots : /\ tx_ring'[s].call = tx_ring[s].call
                               /\ tx_ring'[s].seg = tx_ring[s].seg
                               /\ tx_ring'[s].copied = tx_ring[s].copied
                               /\ tx_ring'[s].eop = tx_ring[s].eop
  <1>1. /\ tdh \in Slots /\ tdt \in Slots /\ tdh # tdt /\ tx_ring \in [Slots -> Desc]
        /\ tdh' = Slot(tdh, 1)
        /\ UNCHANGED <<tx_tail, tdt, pc, calls, segs, fallback, result, overrun>>
        /\ tx_ring' = [tx_ring EXCEPT ![tdh].dd = TRUE]
    BY DEF TypeOK, CardSends
  <1>2. /\ tdh' \in Slots
        /\ Owned' = Owned \ {tdh} /\ tdh \in Owned /\ tdt \notin Owned
        /\ \A s \in Owned : Slot(s, 1) # tdh
    <2>1. Owned' = Range(Slot(tdh, 1), tdt)
      BY <1>1 DEF Owned, Range, Slots
    <2> QED
      BY <1>1, <2>1, RangeShrinks DEF Owned
  <1>3. Owned \subseteq Slots
    BY DEF Owned, Range
  <1>4. \A s \in Slots \ {tdh} : tx_ring'[s] = tx_ring[s]
    BY <1>1
  <1>5. tx_ring'[tdh] = [tx_ring[tdh] EXCEPT !.dd = TRUE] /\ tx_ring[tdh] \in Desc
    BY <1>1
  <1>6. /\ tx_ring'[tdh].call = tx_ring[tdh].call /\ tx_ring'[tdh].seg = tx_ring[tdh].seg
        /\ tx_ring'[tdh].copied = tx_ring[tdh].copied /\ tx_ring'[tdh].eop = tx_ring[tdh].eop
        /\ tx_ring'[tdh].dd = TRUE
        /\ tx_ring'[tdh] \in Desc
    BY <1>5 DEF Desc
  <1>7. tx_ring' \in [Slots -> Desc]
    BY <1>1, <1>4, <1>6
  <1>8. \A s \in Slots : /\ tx_ring'[s].call = tx_ring[s].call
                         /\ tx_ring'[s].seg = tx_ring[s].seg
                         /\ tx_ring'[s].copied = tx_ring[s].copied
                         /\ tx_ring'[s].eop = tx_ring[s].eop
    BY <1>4, <1>6, Zenon
  <1> QED
    BY <1>1, <1>2, <1>3, <1>4, <1>6, <1>7, <1>8

(* What it reads, and the frame that this may complete. *)
Segments == [call : Calls, seg : 1 .. MAX_TX_SEGS, intact : BOOLEAN]
ReadNow == [call |-> tx_ring[tdh].call, seg |-> tx_ring[tdh].seg, intact |-> Intact(tx_ring[tdh])]
Read == Append(gathered, ReadNow)
IsWhole == /\ Len(Read) = tx_ring[tdh].seg
           /\ \A n \in 1 .. Len(Read) : Read[n].call = tx_ring[tdh].call /\ Read[n].seg = n
IsIntact == \A n \in 1 .. Len(Read) : Read[n].intact
Frame == [call |-> tx_ring[tdh].call, whole |-> IsWhole, intact |-> IsIntact]

LEMMA FrameIs ==
    Frame.call = tx_ring[tdh].call /\ Frame.whole = IsWhole /\ Frame.intact = IsIntact
  BY Zenon DEF Frame

LEMMA TakenFrames ==
    ASSUME TypeOK, RingFilled, CardSends
    PROVE  /\ Len(gathered) \in Nat /\ Len(wire) \in Nat
           /\ Read \in Seq(Segments) /\ Len(Read) = Len(gathered) + 1
           /\ \A n \in 1 .. Len(gathered) : Read[n] = gathered[n]
           /\ Read[Len(gathered) + 1] = ReadNow
           /\ tx_ring[tdh].call \in Calls /\ tx_ring[tdh].seg \in 1 .. MAX_TX_SEGS
           /\ IF tx_ring[tdh].eop
              THEN /\ gathered' = <<>>
                   /\ wire' = Append(wire, Frame) /\ wire' \in Seq(WireFrame)
                   /\ Len(wire') = Len(wire) + 1
                   /\ \A n \in 1 .. Len(wire) : wire'[n] = wire[n]
                   /\ wire'[Len(wire) + 1] = Frame
              ELSE gathered' = Read /\ UNCHANGED wire
  <1>1. /\ tdh \in Owned /\ tdh \in Slots /\ tx_ring[tdh] \in Desc
    BY TakenRing DEF TypeOK
  <1>2. tx_ring[tdh].call \in Calls /\ tx_ring[tdh].seg \in 1 .. MAX_TX_SEGS
    BY <1>1, Sizes DEF RingFilled, Desc
  <1>3. ReadNow \in Segments
    <2>1. Intact(tx_ring[tdh]) \in BOOLEAN
      BY Zenon DEF Intact
    <2> QED
      BY <1>2, <2>1 DEF ReadNow, Segments
  <1>4. gathered \in Seq(Segments) /\ wire \in Seq(WireFrame)
    BY DEF RingFilled, Segments
  <1>5. /\ Len(gathered) \in Nat /\ Len(wire) \in Nat
        /\ Read \in Seq(Segments) /\ Len(Read) = Len(gathered) + 1
        /\ \A n \in 1 .. Len(gathered) : Read[n] = gathered[n]
        /\ Read[Len(gathered) + 1] = ReadNow
    BY <1>3, <1>4 DEF Read
  <1>6. Frame \in WireFrame
    <2>1. IsWhole \in BOOLEAN /\ IsIntact \in BOOLEAN
      BY Zenon DEF IsWhole, IsIntact
    <2> QED
      BY <1>2, <2>1 DEF Frame, WireFrame
  <1>7. IF tx_ring[tdh].eop
        THEN gathered' = <<>> /\ wire' = Append(wire, Frame)
        ELSE gathered' = Read /\ UNCHANGED wire
    BY Zenon DEF CardSends, Frame, IsWhole, IsIntact, Read, ReadNow
  <1>8. wire' = Append(wire, Frame) =>
            /\ wire' \in Seq(WireFrame) /\ Len(wire') = Len(wire) + 1
            /\ \A n \in 1 .. Len(wire) : wire'[n] = wire[n]
            /\ wire'[Len(wire) + 1] = Frame
    BY <1>4, <1>6
  <1> QED
    BY <1>2, <1>5, <1>7, <1>8

LEMMA CardFilled ==
    ASSUME TypeOK, RingFilled, CardSends
    PROVE  TypeOK' /\ RingFilled'
  <1>1. /\ tdh \in Slots /\ tdh' \in Slots
        /\ UNCHANGED <<tx_tail, tdt, pc, calls, segs, fallback, result, overrun>>
        /\ Owned' = Owned \ {tdh} /\ tdh \in Owned
        /\ tx_ring' \in [Slots -> Desc]
        /\ \A s \in Slots : tx_ring'[s].call = tx_ring[s].call /\ tx_ring'[s].seg = tx_ring[s].seg
        /\ Owned \subseteq Slots
    BY TakenRing
  <1>2. /\ Len(gathered) \in Nat /\ Len(wire) \in Nat
        /\ Read \in Seq(Segments) /\ Len(Read) = Len(gathered) + 1
        /\ \A n \in 1 .. Len(gathered) : Read[n] = gathered[n]
        /\ Read[Len(gathered) + 1] = ReadNow
        /\ IF tx_ring[tdh].eop
           THEN /\ gathered' = <<>>
                /\ wire' = Append(wire, Frame) /\ wire' \in Seq(WireFrame)
                /\ Len(wire') = Len(wire) + 1
                /\ \A n \in 1 .. Len(wire) : wire'[n] = wire[n]
                /\ wire'[Len(wire) + 1] = Frame
           ELSE gathered' = Read /\ UNCHANGED wire
    BY TakenFrames
  <1>3. LastQueued' = LastQueued
    BY <1>1 DEF LastQueued
  <1>4. gathered' \in Seq(Segments) /\ wire' \in Seq(WireFrame)
    <2>1. wire \in Seq(WireFrame) /\ <<>> \in Seq(Segments)
      BY DEF RingFilled
    <2>2. CASE tx_ring[tdh].eop
      BY <1>2, <2>1, <2>2
    <2>3. CASE ~tx_ring[tdh].eop
      BY <1>2, <2>1, <2>3
    <2> QED
      BY <2>2, <2>3
  <1>5. TypeOK'
    <2>1. \A n \in 1 .. Len(gathered') : gathered'[n] \in Segments
      BY <1>4
    <2>2. \A n \in 1 .. Len(wire') : wire'[n] \in WireFrame
      BY <1>4
    <2> QED
      BY <1>1, <2>1, <2>2 DEF TypeOK, Segments
  <1>6. \A n \in 1 .. Len(gathered') : gathered'[n].call <= LastQueued'
    <2>1. ASSUME NEW n \in 1 .. Len(Read) PROVE Read[n].call <= LastQueued
      <3>1. CASE n \in 1 .. Len(gathered)
        BY <1>2, <3>1 DEF RingFilled
      <3>2. CASE n = Len(gathered) + 1
        <4>1. Read[n].call = tx_ring[tdh].call
          BY <1>2, <3>2 DEF ReadNow
        <4> QED
          BY <1>1, <4>1 DEF RingFilled
      <3> QED
        BY <1>2, <3>1, <3>2
    <2>2. CASE tx_ring[tdh].eop
      BY <1>2, <2>2
    <2>3. CASE ~tx_ring[tdh].eop
      BY <1>2, <1>3, <2>1, <2>3
    <2> QED
      BY <2>2, <2>3
  <1>7. \A n \in 1 .. Len(wire') : wire'[n].call <= LastQueued'
    <2>1. CASE tx_ring[tdh].eop
      <3> SUFFICES ASSUME NEW n \in 1 .. Len(wire) + 1 PROVE wire'[n].call <= LastQueued
        BY <1>2, <1>3, <2>1
      <3>1. CASE n \in 1 .. Len(wire)
        BY <1>2, <2>1, <3>1 DEF RingFilled
      <3>2. CASE n = Len(wire) + 1
        <4>1. wire'[n].call = tx_ring[tdh].call
          BY <1>2, <2>1, <3>2, FrameIs
        <4> QED
          BY <1>1, <4>1 DEF RingFilled
      <3> QED
        BY <1>2, <3>1, <3>2
    <2>2. CASE ~tx_ring[tdh].eop
      BY <1>2, <1>3, <2>2 DEF RingFilled
    <2> QED
      BY <2>1, <2>2
  <1>8. \A s \in Slots : tx_ring'[s].call <= LastQueued'
    BY <1>1, <1>3 DEF RingFilled
  <1>9. \A s \in Owned' : tx_ring'[s].call # NoCall /\ tx_ring'[s].seg > 0
    BY <1>1 DEF RingFilled
  <1> QED
    BY <1>1, <1>4, <1>5, <1>6, <1>7, <1>8, <1>9 DEF RingFilled, Segments

(* Unless the ring was overrun, what ends here is a whole frame. *)
LEMMA ReadIsOne ==
    ASSUME TypeOK, RingFilled, RingInOrder, CardSends, ~overrun
    PROVE  /\ Len(Read) = tx_ring[tdh].seg
           /\ \A n \in 1 .. Len(Read) : Read[n].call = tx_ring[tdh].call /\ Read[n].seg = n
           /\ \A n \in 1 .. Len(wire) : wire[n].call < tx_ring[tdh].call
  <1>1. /\ Len(gathered) \in Nat /\ Len(Read) = Len(gathered) + 1
        /\ \A n \in 1 .. Len(gathered) : Read[n] = gathered[n]
        /\ Read[Len(gathered) + 1] = ReadNow
    BY TakenFrames
  <1>2. /\ tx_ring[tdh].seg = Len(gathered) + 1
        /\ \A n \in 1 .. Len(gathered) :
              gathered[n].call = tx_ring[tdh].call /\ gathered[n].seg = n
        /\ \A n \in 1 .. Len(wire) : wire[n].call < tx_ring[tdh].call
    BY TakenRing DEF RingInOrder, HeadContinues
  <1>3. ASSUME NEW n \in 1 .. Len(Read)
        PROVE  Read[n].call = tx_ring[tdh].call /\ Read[n].seg = n
    <2>1. CASE n \in 1 .. Len(gathered)
      BY <1>1, <1>2, <2>1
    <2>2. CASE n = Len(gathered) + 1
      BY <1>1, <1>2, <2>2 DEF ReadNow
    <2> QED
      BY <1>1, <2>1, <2>2
  <1> QED
    BY <1>1, <1>2, <1>3

LEMMA CardInOrder ==
    ASSUME TypeOK, RingFilled, WireInOrder, RingInOrder, CardSends
    PROVE  WireInOrder' /\ RingInOrder'
  <1> SUFFICES ASSUME ~overrun' PROVE WireInOrder' /\ RingInOrder'
    BY DEF WireInOrder, RingInOrder
  <1> DEFINE d == tx_ring[tdh]
  <1>1. /\ tdh \in Slots /\ tdt \in Slots
        /\ tdh' = Slot(tdh, 1) /\ tdh' \in Slots /\ UNCHANGED <<tdt, overrun>>
        /\ Owned' = Owned \ {tdh} /\ tdh \in Owned /\ tdt \notin Owned /\ Owned \subseteq Slots
        /\ \A s \in Owned : Slot(s, 1) # tdh
        /\ tx_ring'[tdh].dd = TRUE
        /\ \A s \in Slots \ {tdh} : tx_ring'[s] = tx_ring[s]
    BY TakenRing
  <1>2. /\ Len(gathered) \in Nat /\ Len(wire) \in Nat /\ Len(Read) = Len(gathered) + 1
        /\ d.call \in Calls
        /\ IF d.eop
           THEN /\ gathered' = <<>>
                /\ Len(wire') = Len(wire) + 1
                /\ \A n \in 1 .. Len(wire) : wire'[n] = wire[n]
                /\ wire'[Len(wire) + 1] = Frame
           ELSE gathered' = Read /\ UNCHANGED wire
    BY TakenFrames
  <1>3. ~overrun
    BY <1>1
  <1>4. /\ Len(Read) = d.seg
        /\ \A n \in 1 .. Len(Read) : Read[n].call = d.call /\ Read[n].seg = n
        /\ \A n \in 1 .. Len(wire) : wire[n].call < d.call
    BY <1>3, ReadIsOne
  <1>5. Frame.call = d.call /\ Frame.whole
    <2>1. IsWhole
      BY <1>4 DEF IsWhole
    <2> QED
      BY <2>1, FrameIs, Zenon
  <1>6. Followed(tdh) /\ \A s \in Owned : Followed(s)
    BY <1>1, <1>3 DEF RingInOrder
  <1> HIDE DEF d
  <1>7. /\ \A m, n \in 1 .. Len(wire) : m < n => wire[m].call < wire[n].call
        /\ \A n \in 1 .. Len(wire) : wire[n].whole
        /\ \A s \in Slots : ~tx_ring[s].dd <=> s \in Owned
    BY <1>3 DEF WireInOrder
  <1>8. WireInOrder'
    <2>1. \A s \in Slots : ~tx_ring'[s].dd <=> s \in Owned'
      BY <1>1, <1>7, Zenon
    <2>2. CASE d.eop
      <3>1. ASSUME NEW m \in 1 .. Len(wire'), NEW n \in 1 .. Len(wire'), m < n
            PROVE  wire'[m].call < wire'[n].call
        <4>1. m \in 1 .. Len(wire) /\ wire'[m] = wire[m]
          BY <1>2, <2>2, <3>1
        <4>2. CASE n \in 1 .. Len(wire)
          BY <1>2, <1>7, <2>2, <3>1, <4>1, <4>2
        <4>3. CASE n = Len(wire) + 1
          <5>1. wire'[n].call = d.call
            BY <1>2, <1>5, <2>2, <4>3
          <5> QED
            BY <1>4, <4>1, <5>1
        <4> QED
          BY <1>2, <2>2, <4>2, <4>3
      <3>2. \A n \in 1 .. Len(wire') : wire'[n].whole
        <4> SUFFICES ASSUME NEW n \in 1 .. Len(wire') PROVE wire'[n].whole
          OBVIOUS
        <4>1. CASE n \in 1 .. Len(wire)
          <5>1. wire'[n] = wire[n]
            BY <1>2, <2>2, <4>1
          <5> QED
            BY <1>7, <4>1, <5>1
        <4>2. CASE n = Len(wire) + 1
          <5>1. wire'[n] = Frame
            BY <1>2, <2>2, <4>2
          <5> QED
            BY <1>5, <5>1
        <4> QED
          BY <1>2, <2>2, <4>1, <4>2
      <3> QED
        BY <2>1, <3>1, <3>2 DEF WireInOrder
    <2>3. CASE ~d.eop
      BY <1>2, <1>7, <2>1, <2>3 DEF WireInOrder
    <2> QED
      BY <2>2, <2>3
  <1>9. ASSUME NEW s \in Owned'
        PROVE  Followed(s)'
    <2>1. s \in Owned /\ s # tdh /\ s \in Slots /\ Slot(s, 1) # tdh
      BY <1>1, <1>9
    <2>2. Slot(s, 1) \in Slots
      BY <1>1, <2>1, LastOwned DEF Owned
    <2>3. tx_ring'[s] = tx_ring[s] /\ tx_ring'[Slot(s, 1)] = tx_ring[Slot(s, 1)]
      BY <1>1, <2>1, <2>2
    <2>4. Slot(s, 1) \in Owned' <=> Slot(s, 1) \in Owned
      BY <1>1, <2>1
    <2> QED
      BY <1>6, <2>1, <2>3, <2>4 DEF Followed, Slot
  <1>10. HeadContinues'
    <2> DEFINE e == tx_ring[tdh']
    <2>1. IF d.eop THEN tdh' \in Owned => e.seg = 1 /\ e.call > d.call
          ELSE tdh' \in Owned /\ e.seg = d.seg + 1 /\ e.call = d.call
      BY <1>1, <1>6 DEF Followed, d
    <2>2. CASE tdh' = tdt'
      <3>1. d.eop
        BY <1>1, <2>1, <2>2
      <3> QED
        BY <1>2, <2>2, <3>1 DEF HeadContinues
    <2>3. CASE tdh' # tdt'
      <3>1. tdh' \in Owned'
        BY <1>1, <2>3, RangeShrinks DEF Owned, Range
      <3>2. tdh' \in Owned /\ tx_ring'[tdh'] = e
        BY <1>1, <3>1
      <3>3. e.call \in Nat /\ d.call \in Nat /\ \A n \in 1 .. Len(wire) : wire[n].call \in Nat
        <4>1. tx_ring[tdh'].call \in Calls \cup {NoCall} /\ \A n \in 1 .. Len(wire) : wire[n].call \in Calls
          BY <1>1 DEF TypeOK, Desc, WireFrame
        <4> QED
          BY <1>2, <4>1, Sizes DEF Calls, NoCall
      <3> HIDE DEF e
      <3>4. CASE d.eop
        <4>1. e.seg = 1 /\ e.call > d.call /\ Len(gathered') = 0
          BY <1>2, <2>1, <3>2, <3>4
        <4>2. \A n \in 1 .. Len(wire') : wire'[n].call < e.call
          BY <1>2, <1>4, <1>5, <3>3, <3>4, <4>1
        <4> QED
          BY <2>3, <3>2, <4>1, <4>2 DEF HeadContinues
      <3>5. CASE ~d.eop
        <4>1. e.seg = d.seg + 1 /\ e.call = d.call
          BY <2>1, <3>5
        <4>2. gathered' = Read /\ wire' = wire
          BY <1>2, <3>5
        <4> QED
          BY <1>4, <2>3, <3>2, <4>1, <4>2 DEF HeadContinues
      <3> QED
        BY <3>4, <3>5
    <2> QED
      BY <2>2, <2>3
  <1> QED
    BY <1>8, <1>9, <1>10 DEF RingInOrder

(* The frame of the call under way is read from the buffers of the call. *)
LEMMA CardCurrent ==
    ASSUME TypeOK, RingFilled, RingInOrder, CallCurrent, CardSends
    PROVE  CallCurrent'
  <1>1. /\ tdh \in Slots
        /\ UNCHANGED <<tx_tail, pc, calls, segs, fallback, overrun>>
        /\ \A s \in Slots \ {tdh} : tx_ring'[s] = tx_ring[s]
        /\ \A s \in Slots : /\ tx_ring'[s].call = tx_ring[s].call
                            /\ tx_ring'[s].copied = tx_ring[s].copied
                            /\ tx_ring'[s].eop = tx_ring[s].eop
    BY TakenRing
  <1>2. /\ Len(gathered) \in Nat /\ Len(wire) \in Nat /\ Len(Read) = Len(gathered) + 1
        /\ \A n \in 1 .. Len(gathered) : Read[n] = gathered[n]
        /\ Read[Len(gathered) + 1] = ReadNow
        /\ IF tx_ring[tdh].eop
           THEN /\ gathered' = <<>>
                /\ Len(wire') = Len(wire) + 1
                /\ \A n \in 1 .. Len(wire) : wire'[n] = wire[n]
                /\ wire'[Len(wire) + 1] = Frame
           ELSE gathered' = Read /\ UNCHANGED wire
    BY TakenFrames
  <1>3. LastIdx' = LastIdx
    BY <1>1 DEF LastIdx, Slot
  <1>4. pc' # "idle" /\ segs' = 0 => fallback' = calls'
    BY <1>1 DEF CallCurrent
  <1> SUFFICES ASSUME pc = "wait"
               PROVE  /\ tx_ring'[LastIdx].call = calls /\ tx_ring'[LastIdx].eop
                      /\ tx_ring'[LastIdx].dd => \E n \in 1 .. Len(wire') :
                            wire'[n].call = calls /\ (~overrun => wire'[n].whole /\ wire'[n].intact)
                      /\ \A s \in Slots : tx_ring'[s].call = calls => tx_ring'[s].copied = (segs = 0)
                      /\ \A n \in 1 .. Len(gathered') : gathered'[n].call = calls => gathered'[n].intact
    BY <1>1, <1>3, <1>4 DEF CallCurrent
  <1>5. /\ segs = 0 => fallback = calls
        /\ tx_ring[LastIdx].call = calls /\ tx_ring[LastIdx].eop
        /\ tx_ring[LastIdx].dd => \E n \in 1 .. Len(wire) :
              wire[n].call = calls /\ (~overrun => wire[n].whole /\ wire[n].intact)
        /\ \A s \in Slots : tx_ring[s].call = calls => tx_ring[s].copied = (segs = 0)
        /\ \A n \in 1 .. Len(gathered) : gathered[n].call = calls => gathered[n].intact
    BY DEF CallCurrent
  <1>6. LastIdx \in Slots
    <2>1. tx_tail \in Slots /\ TX_RING_SIZE - 1 \in 0 .. TX_RING_SIZE
      BY Sizes DEF TypeOK
    <2> QED
      BY <2>1, SlotIs DEF LastIdx
  <1>7. ASSUME NEW n \in 1 .. Len(Read), Read[n].call = calls
        PROVE  Read[n].intact
    <2>1. CASE n \in 1 .. Len(gathered)
      BY <1>2, <1>5, <1>7, <2>1
    <2>2. CASE n = Len(gathered) + 1
      <3>1. Read[n] = ReadNow /\ tx_ring[tdh].call = calls
        BY <1>2, <1>7, <2>2 DEF ReadNow
      <3>2. tx_ring[tdh].copied = (segs = 0)
        BY <1>1, <1>5, <3>1
      <3>3. Intact(tx_ring[tdh])
        BY <1>5, <3>1, <3>2, Zenon DEF Intact
      <3>4. ReadNow.intact = Intact(tx_ring[tdh])
        BY Zenon DEF ReadNow
      <3> QED
        BY <3>1, <3>3, <3>4, Zenon
    <2> QED
      BY <1>2, <2>1, <2>2
  <1>8. \A s \in Slots : tx_ring'[s].call = calls => tx_ring'[s].copied = (segs = 0)
    BY <1>1, <1>5, Zenon
  <1>9. \A n \in 1 .. Len(gathered') : gathered'[n].call = calls => gathered'[n].intact
    <2>1. CASE tx_ring[tdh].eop
      BY <1>2, <2>1
    <2>2. CASE ~tx_ring[tdh].eop
      BY <1>2, <1>7, <2>2
    <2> QED
      BY <2>1, <2>2
  <1>10. ASSUME tx_ring'[LastIdx].dd
         PROVE  \E n \in 1 .. Len(wire') :
                   wire'[n].call = calls /\ (~overrun => wire'[n].whole /\ wire'[n].intact)
    <2>1. CASE LastIdx # tdh
      <3>1. tx_ring[LastIdx].dd
        BY <1>1, <1>6, <1>10, <2>1
      <3>2. PICK n \in 1 .. Len(wire) :
                wire[n].call = calls /\ (~overrun => wire[n].whole /\ wire[n].intact)
        BY <1>5, <3>1
      <3>3. n \in 1 .. Len(wire') /\ wire'[n] = wire[n]
        BY <1>2
      <3> QED
        BY <3>2, <3>3
    <2>2. CASE LastIdx = tdh
      <3>1. /\ Len(wire) + 1 \in 1 .. Len(wire') /\ wire'[Len(wire) + 1] = Frame
            /\ tx_ring[tdh].call = calls
        BY <1>2, <1>5, <2>2
      <3>2. ASSUME ~overrun PROVE IsWhole /\ IsIntact
        <4>1. /\ Len(Read) = tx_ring[tdh].seg
              /\ \A n \in 1 .. Len(Read) : Read[n].call = tx_ring[tdh].call /\ Read[n].seg = n
          BY <3>2, ReadIsOne
        <4> QED
          BY <1>7, <3>1, <4>1 DEF IsWhole, IsIntact
      <3>3. Frame.call = calls /\ (~overrun => Frame.whole /\ Frame.intact)
        BY <3>1, <3>2, FrameIs, Zenon
      <3> QED
        BY <3>1, <3>3
    <2> QED
      BY <2>1, <2>2
  <1>11. tx_ring'[LastIdx].call = calls /\ tx_ring'[LastIdx].eop
    BY <1>1, <1>5, <1>6, Zenon
  <1> QED
    BY <1>8, <1>9, <1>10, <1>11

LEMMA CardIInv ==
    ASSUME IInv, CardSends
    PROVE  IInv'
  <1>1. TypeOK /\ RingFilled /\ WireInOrder /\ RingInOrder /\ CallCurrent /\ ZeroMeansSent
    BY DEF IInv
  <1>2. UNCHANGED <<result, overrun>>
    BY <1>1, TakenRing
  <1>3. \A n \in 1 .. Len(wire) : n \in 1 .. Len(wire') /\ wire'[n] = wire[n]
    <2>1. /\ Len(wire) \in Nat
          /\ \/ Len(wire') = Len(wire) + 1 /\ \A n \in 1 .. Len(wire) : wire'[n] = wire[n]
             \/ wire' = wire
      BY <1>1, TakenFrames
    <2> QED
      BY <2>1
  <1>4. ZeroMeansSent'
    <2> SUFFICES ASSUME NEW k \in Calls, result[k] = "ok"
                 PROVE  \E n \in 1 .. Len(wire') :
                           wire'[n].call = k /\ (~overrun => wire'[n].whole /\ wire'[n].intact)
      BY <1>2 DEF ZeroMeansSent
    <2>1. PICK n \in 1 .. Len(wire) :
              wire[n].call = k /\ (~overrun => wire[n].whole /\ wire[n].intact)
      BY <1>1 DEF ZeroMeansSent
    <2> QED
      BY <1>3, <2>1
  <1> QED
    BY <1>1, <1>4, CardFilled, CardInOrder, CardCurrent DEF IInv

----------------------------------------------------------------------------
LEMMA NextIInv == IInv /\ [Next]_vars => IInv'
  <1> SUFFICES ASSUME IInv, [Next]_vars PROVE IInv'
    OBVIOUS
  <1>1. ASSUME NEW n \in 0 .. MAX_TX_SEGS, low_level_output(n) PROVE IInv'
    BY <1>1, OutputIInv
  <1>2. CASE ScatterFails
    BY <1>2, ReturnIInv DEF ScatterFails
  <1>3. CASE QueueFrame
    BY <1>3, QueueIInv
  <1>4. CASE SendDone
    BY <1>4, ReturnIInv DEF SendDone
  <1>5. CASE SendTimesOut
    BY <1>5, ReturnIInv DEF SendTimesOut
  <1>6. CASE CardSends
    BY <1>6, CardIInv
  <1>7. CASE UNCHANGED vars
    <2>1. /\ UNCHANGED <<tx_ring, tx_tail, tdt, card, overrun>>
          /\ UNCHANGED <<tdh, gathered, wire, pc, calls, segs, fallback, result>>
          /\ TypeOK /\ RingFilled /\ WireInOrder /\ RingInOrder /\ CallCurrent /\ ZeroMeansSent
      BY <1>7 DEF vars, card, IInv
    <2>2. TypeOK'
      BY <2>1 DEF TypeOK
    <2>3. LastQueued' = LastQueued /\ Owned' = Owned /\ LastIdx' = LastIdx
      BY <2>1 DEF LastQueued, Owned, Range, Slots, LastIdx, Slot
    <2>4. RingFilled'
      BY <2>1, <2>3 DEF RingFilled
    <2>5. WireInOrder' /\ RingInOrder'
      BY <2>1, RingStays
    <2>6. CallCurrent'
      BY <2>1, <2>3 DEF CallCurrent
    <2>7. ZeroMeansSent'
      BY <2>1 DEF ZeroMeansSent
    <2> QED
      BY <2>2, <2>4, <2>5, <2>6, <2>7 DEF IInv
  <1> QED
    BY <1>1, <1>2, <1>3, <1>4, <1>5, <1>6, <1>7 DEF Next, Driver

LEMMA Invariance == Spec => []IInv
  BY InitIInv, NextIInv, PTL DEF Spec

(* Every variable of the transmit path keeps its type: TDH, TDT and        *)
(* tx_tail stay inside the ring and only slots that were filled in are     *)
(* given to the card.                                                      *)
THEOREM TypeCorrect == Spec => []TypeOK
  <1>1. IInv => TypeOK
    BY DEF IInv
  <1> QED
    BY Invariance, <1>1, PTL

(* e1000_send_scatter and e1000_send_raw hand the card whole frames, in    *)
(* the order of the calls and none twice, and DD tells exactly which       *)
(* descriptors the card is done with, until TDT catches up with TDH.       *)
THEOREM FramesInOrder == Spec => []WireInOrder
  <1>1. IInv => WireInOrder
    BY DEF IInv
  <1> QED
    BY Invariance, <1>1, PTL

(* The result 0 of the driver means that the frame is on the wire, read    *)
(* while lwIP's buffers were still the driver's.                           *)
THEOREM SentIfZero == Spec => []ZeroMeansSent
  <1>1. IInv => ZeroMeansSent
    BY DEF IInv
  <1> QED
    BY Invariance, <1>1, PTL
=============================================================================

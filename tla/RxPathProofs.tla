---------------------------- MODULE RxPathProofs ----------------------------
(***************************************************************************)
(* Proofs about RxPath, for every ring size from 2 on, every number of     *)
(* polls per pass and every number of frames.                              *)
(***************************************************************************)
EXTENDS RxPath, TLAPS

(* The slot after i, without the remainder. *)
LEMMA NextSlotIs ==
    ASSUME NEW i \in Slots
    PROVE  /\ NextSlot(i) \in Slots
           /\ i < RX_RING_SIZE - 1 => NextSlot(i) = i + 1
           /\ i = RX_RING_SIZE - 1 => NextSlot(i) = 0
  <1>1. RX_RING_SIZE \in Nat /\ RX_RING_SIZE >= 2
    BY RxAssumption
  <1>2. CASE i < RX_RING_SIZE - 1
    <2>1. i + 1 \in 0 .. RX_RING_SIZE - 1
      BY <1>1, <1>2 DEF Slots
    <2>2. (i + 1) % RX_RING_SIZE = i + 1
      BY <1>1, <2>1
    <2> QED
      BY <1>1, <1>2, <2>1, <2>2 DEF NextSlot, Slots
  <1>3. CASE i = RX_RING_SIZE - 1
    <2>1. RX_RING_SIZE % RX_RING_SIZE = 0
      BY <1>1
    <2> QED
      BY <1>1, <1>3, <2>1 DEF NextSlot, Slots
  <1> QED
    BY <1>1, <1>2, <1>3 DEF Slots

(* The slot before rx_idx. *)
LEMMA OldIdxIs ==
    ASSUME rx_idx \in Slots
    PROVE  /\ old_idx \in Slots
           /\ rx_idx > 0 => old_idx = rx_idx - 1
           /\ rx_idx = 0 => old_idx = RX_RING_SIZE - 1
  <1>1. RX_RING_SIZE \in Nat /\ RX_RING_SIZE >= 2
    BY RxAssumption
  <1>2. CASE rx_idx = 0
    BY <1>1, <1>2 DEF old_idx, Slots
  <1>3. CASE rx_idx > 0
    <2>1. rx_idx - 1 \in 0 .. RX_RING_SIZE - 1
      BY <1>1, <1>3 DEF Slots
    <2>2. ((rx_idx - 1) + RX_RING_SIZE) % RX_RING_SIZE = rx_idx - 1
      BY <1>1, <2>1
    <2> QED
      BY <1>1, <1>3, <2>1, <2>2 DEF old_idx, Slots
  <1> QED
    BY <1>1, <1>2, <1>3 DEF Slots

(* Distances on the ring: their range, and what a step of either end does. *)
LEMMA DistFacts ==
    ASSUME NEW i \in Slots, NEW j \in Slots
    PROVE  /\ Dist(i, j) \in 0 .. RX_RING_SIZE - 1
           /\ Dist(i, i) = 0
           /\ Dist(i, j) = 0 => i = j
           /\ Dist(i, j) < RX_RING_SIZE - 1 => Dist(i, NextSlot(j)) = Dist(i, j) + 1
           /\ i # j => Dist(NextSlot(i), j) = Dist(i, j) - 1
           /\ Dist(NextSlot(i), i) = RX_RING_SIZE - 1
  <1>1. RX_RING_SIZE \in Nat /\ RX_RING_SIZE >= 2
    BY RxAssumption
  <1>2. /\ NextSlot(j) \in Slots
        /\ j < RX_RING_SIZE - 1 => NextSlot(j) = j + 1
        /\ j = RX_RING_SIZE - 1 => NextSlot(j) = 0
    BY NextSlotIs
  <1>3. /\ NextSlot(i) \in Slots
        /\ i < RX_RING_SIZE - 1 => NextSlot(i) = i + 1
        /\ i = RX_RING_SIZE - 1 => NextSlot(i) = 0
    BY NextSlotIs
  <1> QED
    BY <1>1, <1>2, <1>3 DEF Dist, Slots

(* Two slots at the same distance are one slot, and distances add up. *)
LEMMA DistOrder ==
    ASSUME NEW i \in Slots, NEW j \in Slots, NEW k \in Slots
    PROVE  /\ Dist(i, j) = Dist(i, k) => j = k
           /\ Dist(i, j) <= Dist(i, k) => Dist(i, j) + Dist(j, k) = Dist(i, k)
  BY RxAssumption DEF Dist, Slots

(* The variables of the card and the driver have their types in the        *)
(* initial state, and the ring is as e1000_init leaves it.                 *)
LEMMA InitIInv == Init => IInv
  <1> SUFFICES ASSUME Init PROVE IInv
    OBVIOUS
  <1>1. RX_RING_SIZE \in Nat /\ RX_RING_SIZE >= 2 /\ PollsPerPass \in Nat \ {0} /\ MaxFrames \in Nat
    BY RxAssumption
  <1>2. TypeOK
    <2>1. dd \in [Slots -> BOOLEAN] /\ frame \in [Slots -> Frames \cup {NoFrame}]
      BY DEF Init
    <2>2. rdh \in Slots /\ rdt \in Slots /\ rx_idx \in Slots
      BY <1>1 DEF Init, InitRegs, Slots
    <2>3. polls \in 0 .. PollsPerPass
      BY <1>1 DEF Init
    <2> QED
      BY <2>1, <2>2, <2>3 DEF Init, TypeOK, NoFrame
  <1>3. RingContents
    BY <1>1 DEF Init, InitRegs, RingContents, Passed, Dist, Slots
  <1>4. TailBehindIdx
    BY <1>1 DEF Init, InitRegs, TailBehindIdx, Dist
  <1>5. BufferCurrent
    BY DEF Init, BufferCurrent, NoFrame
  <1> QED
    BY <1>2, <1>3, <1>4, <1>5 DEF IInv

(* A frame that is stored lands in a free descriptor behind the others. *)
LEMMA NicStoresIInv == IInv /\ NicStores => IInv'
  <1> SUFFICES ASSUME IInv, NicStores PROVE IInv'
    OBVIOUS
  <1>1. RX_RING_SIZE \in Nat /\ RX_RING_SIZE >= 2 /\ PollsPerPass \in Nat \ {0} /\ MaxFrames \in Nat
    BY RxAssumption
  <1>2. /\ rdh \in Slots /\ rdt \in Slots /\ rx_idx \in Slots
        /\ NextSlot(rdh) \in Slots
        /\ stored \in Nat /\ taken \in Nat /\ stored + 1 \in Frames
    BY <1>1, NextSlotIs DEF IInv, TypeOK, NicStores, Frames
  <1>3. TypeOK'
    <2>1. frame' \in [Slots -> Frames \cup {NoFrame}] /\ dd' \in [Slots -> BOOLEAN]
      BY <1>2 DEF IInv, TypeOK, NicStores
    <2>2. irr' \in SUBSET Irqs
      BY DEF IInv, TypeOK, NicStores, Irqs
    <2> QED
      BY <1>2, <2>1, <2>2 DEF IInv, TypeOK, NicStores
  <1>4. Passed' = Passed /\ Passed \in Nat /\ stored - Passed \in Int
    BY <1>2 DEF Passed, NicStores, IInv, RingContents
  <1>5. /\ Dist(rx_idx, rdh) \in Nat /\ Dist(rx_idx, rdt) \in Nat
        /\ Dist(rx_idx, rdt) <= RX_RING_SIZE - 1
        /\ Dist(rx_idx, rdh) < Dist(rx_idx, rdt)
    <2>1. /\ Dist(rx_idx, rdh) \in 0 .. RX_RING_SIZE - 1
          /\ Dist(rx_idx, rdt) \in 0 .. RX_RING_SIZE - 1
      BY <1>2, DistFacts
    <2>2. Dist(rx_idx, rdh) # Dist(rx_idx, rdt)
      BY <1>2, DistOrder DEF NicStores
    <2>3. Dist(rx_idx, rdh) <= Dist(rx_idx, rdt)
      BY DEF IInv, TailBehindIdx
    <2> QED
      BY <1>1, <2>1, <2>2, <2>3
  <1>6. Dist(rx_idx, NextSlot(rdh)) = Dist(rx_idx, rdh) + 1
    BY <1>1, <1>2, <1>5, DistFacts
  <1>7. RingContents'
    <2>1. Dist(rx_idx', rdh') = stored' - Passed'
      BY <1>2, <1>4, <1>6 DEF IInv, RingContents, NicStores
    <2>2. ASSUME NEW i \in Slots
          PROVE  /\ dd'[i] <=> Dist(rx_idx', i) < stored' - Passed'
                 /\ dd'[i] => frame'[i] = Passed' + Dist(rx_idx', i) + 1
      <3>0. Dist(rx_idx, i) \in Nat
        BY <1>1, <1>2, DistFacts
      <3>1. CASE i = rdh
        BY <1>2, <1>4, <1>5, <3>0, <3>1 DEF IInv, TypeOK, RingContents, NicStores
      <3>2. CASE i # rdh
        <4>1. Dist(rx_idx, i) # Dist(rx_idx, rdh)
          BY <1>2, <3>2, DistOrder
        <4>2. dd'[i] = dd[i] /\ frame'[i] = frame[i]
          BY <3>2 DEF NicStores, IInv, TypeOK
        <4> QED
          BY <1>2, <1>4, <1>5, <3>0, <4>1, <4>2 DEF IInv, RingContents, NicStores
      <3> QED
        BY <3>1, <3>2
    <2> QED
      BY <1>2, <1>4, <2>1, <2>2 DEF RingContents, IInv, NicStores
  <1>8. TailBehindIdx'
    BY <1>5, <1>6 DEF IInv, TailBehindIdx, NicStores
  <1>9. BufferCurrent'
    BY DEF IInv, BufferCurrent, NicStores
  <1> QED
    BY <1>3, <1>7, <1>8, <1>9 DEF IInv

(* A step that leaves the ring, its registers and the counters alone keeps *)
(* what is said of them, whether or not the loop moves on.                 *)
LEMMA RingUntouched ==
    ASSUME IInv,
           UNCHANGED <<dd, frame, rdh, rdt, rx_idx, stored, taken>>,
           pc \in {"status", "tail"} \/ pc' \in {"status", "tail"} => pc' = pc
    PROVE  RingContents' /\ TailBehindIdx'
  <1>1. Passed' = Passed
    BY DEF Passed
  <1> QED
    BY <1>1 DEF IInv, RingContents, TailBehindIdx

(* The copy takes the oldest frame. *)
LEMMA PollCopyIInv == IInv /\ PollCopy => IInv' /\ rx_buffer' = taken'
  <1> SUFFICES ASSUME IInv, PollCopy PROVE IInv' /\ rx_buffer' = taken'
    OBVIOUS
  <1>1. RX_RING_SIZE \in Nat /\ RX_RING_SIZE >= 2 /\ MaxFrames \in Nat
    BY RxAssumption
  <1>2. /\ rdh \in Slots /\ rx_idx \in Slots
        /\ stored \in Nat /\ taken \in Nat /\ stored <= MaxFrames
    BY <1>1 DEF IInv, TypeOK, Frames
  <1>3. Passed = taken /\ Passed' = Passed
    BY <1>2 DEF Passed, PollCopy
  <1>4. Dist(rx_idx, rx_idx) = 0
    BY <1>2, DistFacts
  <1>5. frame[rx_idx] = taken + 1 /\ taken < stored
    BY <1>2, <1>3, <1>4 DEF IInv, RingContents, PollCopy
  <1>6. TypeOK'
    <2>1. taken' \in Frames \cup {0}
      BY <1>1, <1>2, <1>5 DEF PollCopy, Frames
    <2>2. rx_buffer' \in Frames \cup {NoFrame}
      BY <1>2 DEF PollCopy, IInv, TypeOK
    <2> QED
      BY <2>1, <2>2 DEF IInv, TypeOK, PollCopy, nic
  <1>7. RingContents' /\ TailBehindIdx'
    BY <1>2, <1>3, <1>5 DEF IInv, RingContents, TailBehindIdx, PollCopy, nic
  <1>8. BufferCurrent'
    <2>1. input \in Nat
      BY <1>1 DEF IInv, TypeOK, Frames, NoFrame
    <2> QED
      BY <1>2, <1>5, <2>1 DEF IInv, BufferCurrent, PollCopy
  <1> QED
    BY <1>5, <1>6, <1>7, <1>8 DEF IInv, PollCopy

(* Clearing DD drops the frame that was copied, and no other. *)
LEMMA PollClearsStatusIInv == IInv /\ PollClearsStatus => IInv'
  <1> SUFFICES ASSUME IInv, PollClearsStatus PROVE IInv'
    OBVIOUS
  <1>1. RX_RING_SIZE \in Nat /\ RX_RING_SIZE >= 2 /\ MaxFrames \in Nat
    BY RxAssumption
  <1>2. /\ rdh \in Slots /\ rdt \in Slots /\ rx_idx \in Slots
        /\ NextSlot(rx_idx) \in Slots
        /\ stored \in Nat /\ taken \in Nat
    BY <1>1, NextSlotIs DEF IInv, TypeOK, Frames
  <1>3. Passed = taken - 1 /\ Passed' = taken /\ Passed \in Nat
    BY <1>2 DEF Passed, PollClearsStatus, IInv, RingContents
  <1>4. Dist(rx_idx, rdt) = RX_RING_SIZE - 1
    BY DEF IInv, TailBehindIdx, PollClearsStatus
  <1>5. rx_idx # rdt
    BY <1>1, <1>2, <1>4, DistFacts
  <1>6. rx_idx # rdh
    <2>1. Dist(rx_idx, rdh) = stored - taken + 1 /\ taken <= stored
      BY <1>2, <1>3 DEF IInv, RingContents
    <2> QED
      BY <1>2, <2>1, DistFacts
  <1>7. /\ Dist(NextSlot(rx_idx), rdh) = Dist(rx_idx, rdh) - 1
        /\ Dist(NextSlot(rx_idx), rdt) = Dist(rx_idx, rdt) - 1
        /\ Dist(rx_idx, rdh) \in 0 .. RX_RING_SIZE - 1
    BY <1>2, <1>5, <1>6, DistFacts
  <1>8. TypeOK'
    BY <1>2 DEF IInv, TypeOK, PollClearsStatus
  <1>9. RingContents'
    <2>1. Dist(rx_idx', rdh') = stored' - Passed'
      BY <1>2, <1>3, <1>7 DEF IInv, RingContents, PollClearsStatus
    <2>2. ASSUME NEW i \in Slots
          PROVE  /\ dd'[i] <=> Dist(rx_idx', i) < stored' - Passed'
                 /\ dd'[i] => frame'[i] = Passed' + Dist(rx_idx', i) + 1
      <3>0. Dist(rx_idx, i) \in Nat
        BY <1>1, <1>2, DistFacts
      <3>1. CASE i = rx_idx
        <4>1. Dist(rx_idx', i) = RX_RING_SIZE - 1
          BY <1>2, <3>1, DistFacts DEF PollClearsStatus
        <4>2. ~dd'[i]
          BY <3>1 DEF PollClearsStatus, IInv, TypeOK
        <4>3. stored' - Passed' <= RX_RING_SIZE - 1
          BY <1>1, <1>2, <1>7, <2>1 DEF PollClearsStatus
        <4> QED
          BY <1>1, <1>2, <1>3, <4>1, <4>2, <4>3 DEF PollClearsStatus
      <3>2. CASE i # rx_idx
        <4>1. Dist(rx_idx', i) = Dist(rx_idx, i) - 1
          BY <1>2, <3>2, DistFacts DEF PollClearsStatus
        <4>2. dd'[i] = dd[i] /\ frame'[i] = frame[i]
          BY <3>2 DEF PollClearsStatus, IInv, TypeOK
        <4>3. /\ dd[i] <=> Dist(rx_idx, i) < stored - Passed
              /\ dd[i] => frame[i] = Passed + Dist(rx_idx, i) + 1
          BY DEF IInv, RingContents
        <4>4. stored' = stored
          BY DEF PollClearsStatus
        <4>5. Dist(rx_idx, i) - 1 < stored - taken <=> Dist(rx_idx, i) < stored - (taken - 1)
          BY <1>2, <3>0
        <4>6. taken + (Dist(rx_idx, i) - 1) + 1 = (taken - 1) + Dist(rx_idx, i) + 1
          BY <1>2, <3>0
        <4> QED
          BY <1>3, <4>1, <4>2, <4>3, <4>4, <4>5, <4>6
      <3> QED
        BY <3>1, <3>2
    <2> QED
      BY <1>2, <1>3, <2>1, <2>2 DEF RingContents, IInv, PollClearsStatus
  <1>10. TailBehindIdx'
    BY <1>1, <1>4, <1>7 DEF IInv, TailBehindIdx, PollClearsStatus
  <1>11. BufferCurrent'
    BY DEF IInv, BufferCurrent, PollClearsStatus
  <1> QED
    BY <1>8, <1>9, <1>10, <1>11 DEF IInv

(* The tail catches up with rx_idx. *)
LEMMA PollMovesTailIInv == IInv /\ PollMovesTail => IInv'
  <1> SUFFICES ASSUME IInv, PollMovesTail PROVE IInv'
    OBVIOUS
  <1>1. RX_RING_SIZE \in Nat /\ RX_RING_SIZE >= 2
    BY RxAssumption
  <1>2. rdh \in Slots /\ rx_idx \in Slots
    BY DEF IInv, TypeOK
  <1>3. /\ old_idx \in Slots
        /\ rx_idx > 0 => old_idx = rx_idx - 1
        /\ rx_idx = 0 => old_idx = RX_RING_SIZE - 1
    BY <1>2, OldIdxIs
  <1>4. Dist(rx_idx, old_idx) = RX_RING_SIZE - 1
    BY <1>1, <1>2, <1>3 DEF Dist, Slots
  <1>5. TypeOK'
    BY <1>3 DEF IInv, TypeOK, PollMovesTail, nic
  <1>6. RingContents'
    <2>1. Passed' = Passed
      BY DEF Passed, PollMovesTail
    <2> QED
      BY <2>1 DEF IInv, RingContents, PollMovesTail, nic
  <1>7. TailBehindIdx'
    <2>1. Dist(rx_idx, rdh) \in 0 .. RX_RING_SIZE - 1
      BY <1>2, DistFacts
    <2> QED
      BY <1>1, <1>4, <2>1 DEF TailBehindIdx, PollMovesTail, nic
  <1>8. BufferCurrent'
    BY DEF IInv, BufferCurrent, PollMovesTail
  <1> QED
    BY <1>5, <1>6, <1>7, <1>8 DEF IInv

(* The invariant is inductive. *)
LEMMA NextIInv == IInv /\ [Next]_vars => IInv'
  <1> SUFFICES ASSUME IInv, [Next]_vars PROVE IInv'
    OBVIOUS
  <1>1. PollsPerPass \in Nat \ {0}
    BY RxAssumption
  <1>2. CASE NicStores
    BY <1>2, NicStoresIInv
  <1>3. CASE TimerTick
    <2>1. TypeOK'
      BY <1>3 DEF IInv, TypeOK, TimerTick, Irqs
    <2>2. RingContents' /\ TailBehindIdx'
      BY <1>3, RingUntouched DEF TimerTick
    <2> QED
      BY <1>3, <2>1, <2>2 DEF IInv, BufferCurrent, TimerTick
  <1>4. ASSUME NEW i \in Irqs, interrupt_handler(i) PROVE IInv'
    <2>1. TypeOK'
      BY <1>4 DEF IInv, TypeOK, interrupt_handler
    <2>2. RingContents' /\ TailBehindIdx'
      BY <1>4, RingUntouched DEF interrupt_handler
    <2> QED
      BY <1>4, <2>1, <2>2 DEF IInv, BufferCurrent, interrupt_handler
  <1>5. CASE TestFlag
    <2>1. TypeOK'
      BY <1>5 DEF IInv, TypeOK, TestFlag, nic
    <2>2. RingContents' /\ TailBehindIdx'
      BY <1>5, RingUntouched DEF TestFlag, nic
    <2> QED
      BY <1>5, <2>1, <2>2 DEF IInv, BufferCurrent, TestFlag
  <1>6. CASE ClearFlag
    <2>1. TypeOK'
      <3>1. polls' \in 0 .. PollsPerPass /\ polls' # 0
        BY <1>1, <1>6 DEF ClearFlag
      <3> QED
        BY <1>6, <3>1 DEF IInv, TypeOK, ClearFlag, nic
    <2>2. RingContents' /\ TailBehindIdx'
      BY <1>6, RingUntouched DEF ClearFlag, nic
    <2> QED
      BY <1>6, <2>1, <2>2 DEF IInv, BufferCurrent, ClearFlag
  <1>7. CASE PollEmpty
    <2>1. TypeOK'
      BY <1>1, <1>7 DEF IInv, TypeOK, PollEmpty, PollReturns, nic
    <2>2. RingContents' /\ TailBehindIdx'
      BY <1>7, RingUntouched DEF PollEmpty, PollReturns, nic
    <2> QED
      BY <1>7, <2>1, <2>2 DEF IInv, BufferCurrent, PollEmpty, PollReturns
  <1>8. CASE PollCopy
    BY <1>8, PollCopyIInv
  <1>9. CASE PollClearsStatus
    BY <1>9, PollClearsStatusIInv
  <1>10. CASE PollMovesTail
    BY <1>10, PollMovesTailIInv
  <1>11. CASE NetifInput
    <2>1. TypeOK'
      BY <1>1, <1>11 DEF IInv, TypeOK, NetifInput, PollReturns, nic
    <2>2. RingContents' /\ TailBehindIdx'
      BY <1>11, RingUntouched DEF NetifInput, PollReturns, nic
    <2>3. BufferCurrent'
      BY <1>11 DEF IInv, TypeOK, BufferCurrent, NetifInput, PollReturns, Frames
    <2> QED
      BY <2>1, <2>2, <2>3 DEF IInv
  <1>12. CASE NoPbuf
    <2>1. TypeOK'
      BY <1>1, <1>12 DEF IInv, TypeOK, NoPbuf, PollReturns, nic
    <2>2. RingContents' /\ TailBehindIdx'
      BY <1>12, RingUntouched DEF NoPbuf, PollReturns, nic
    <2> QED
      BY <1>12, <2>1, <2>2 DEF IInv, BufferCurrent, NoPbuf, PollReturns
  <1>13. CASE UNCHANGED vars
    <2>1. TypeOK'
      BY <1>13 DEF IInv, TypeOK, vars
    <2>2. RingContents' /\ TailBehindIdx'
      BY <1>13, RingUntouched DEF vars
    <2> QED
      BY <1>13, <2>1, <2>2 DEF IInv, BufferCurrent, vars
  <1> QED
    BY <1>2, <1>3, <1>4, <1>5, <1>6, <1>7, <1>8, <1>9, <1>10, <1>11, <1>12, <1>13
    DEF Next, MainLoop

(* Every reachable state satisfies the invariant. *)
LEMMA RingInvariant == Spec => []IInv
  BY InitIInv, NextIInv, PTL DEF Spec

(* Type correctness of the receive path. *)
THEOREM TypeCorrect == Spec => []TypeOK
  <1>1. IInv => TypeOK
    BY DEF IInv
  <1> QED
    BY <1>1, RingInvariant, PTL

(* The card never overwrites a frame the driver has not copied. *)
THEOREM FramesHeld == Spec => []UnreadFramesHeld
  <1>1. IInv => UnreadFramesHeld
    <2> SUFFICES ASSUME IInv, NEW k \in taken + 1 .. stored
                 PROVE  \E i \in Slots : dd[i] /\ frame[i] = k
      BY DEF UnreadFramesHeld
    <2>1. RX_RING_SIZE \in Nat /\ RX_RING_SIZE >= 2
      BY RxAssumption
    <2>2. /\ rdh \in Slots /\ rx_idx \in Slots
          /\ stored \in Nat /\ taken \in Nat /\ Passed \in Nat /\ Passed <= taken
      BY <2>1, RxAssumption DEF IInv, TypeOK, Frames, RingContents, Passed
    <2>3. Dist(rx_idx, rdh) = stored - Passed /\ stored - Passed <= RX_RING_SIZE - 1
      BY <2>1, <2>2, DistFacts DEF IInv, RingContents
    <2> DEFINE d == k - Passed - 1
               j == IF rx_idx + d < RX_RING_SIZE THEN rx_idx + d ELSE rx_idx + d - RX_RING_SIZE
    <2>4. k \in Nat /\ d \in Nat /\ d < stored - Passed /\ k = Passed + d + 1
      BY <2>2
    <2>5. j \in Slots /\ Dist(rx_idx, j) = d
      BY <2>1, <2>2, <2>3, <2>4 DEF Dist, Slots
    <2>6. dd[j] /\ frame[j] = k
      BY <2>2, <2>4, <2>5 DEF IInv, RingContents
    <2> QED
      BY <2>5, <2>6
  <1> QED
    BY <1>1, RingInvariant, PTL

(* The ring never loses a descriptor. *)
THEOREM NoDescriptorLeaks == Spec => []DescriptorsConserved
  <1>1. IInv => DescriptorsConserved
    <2> SUFFICES ASSUME IInv PROVE DescriptorsConserved
      OBVIOUS
    <2>1. RX_RING_SIZE \in Nat /\ RX_RING_SIZE >= 2
      BY RxAssumption
    <2>2. rdh \in Slots /\ rx_idx \in Slots /\ rdt \in Slots
      BY DEF IInv, TypeOK
    <2>3. Dist(rx_idx, rdh) + Dist(rdh, rdt) = Dist(rx_idx, rdt)
      BY <2>2, DistOrder DEF IInv, TailBehindIdx
    <2> QED
      BY <2>1, <2>3 DEF IInv, TailBehindIdx, DescriptorsConserved
  <1> QED
    BY <1>1, RingInvariant, PTL

(* lwIP gets the frames in order, each once. *)
THEOREM InOrder == Spec => InputInOrder
  <1>1. IInv /\ [Next]_vars => [input' # input => input' = taken /\ input' > input]_vars
    <2> SUFFICES ASSUME IInv, [Next]_vars, input' # input
                 PROVE  input' = taken /\ input' > input
      OBVIOUS
    <2>1. NetifInput
      BY DEF Next, MainLoop, vars, NicStores, TimerTick, interrupt_handler,
             TestFlag, ClearFlag, PollEmpty, PollCopy, PollClearsStatus, PollMovesTail, NoPbuf
    <2>2. taken \in Int /\ input \in Int
      BY RxAssumption DEF IInv, TypeOK, Frames, NoFrame
    <2> QED
      BY <2>1, <2>2 DEF NetifInput, IInv, BufferCurrent
  <1> QED
    BY <1>1, RingInvariant, PTL DEF Spec, InputInOrder
=============================================================================

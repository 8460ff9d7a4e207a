------------------------------- MODULE RxPath -------------------------------
(***************************************************************************)
(* How a frame gets from the network card to lwIP: the receive descriptor  *)
(* ring of src/src/drivers/e1000.c, the interrupt handler of               *)
(* src/src/arch/idt.c, angelic_netif_poll of src/src/net/lwip_glue.c and   *)
(* the main loop of src/src/kernel.c.                                      *)
(*                                                                         *)
(* The card and the processor share the ring without a lock: the card owns *)
(* the descriptors from its head register RDH up to, not including, its    *)
(* tail register RDT, and the driver gives one back by moving RDT.  The    *)
(* card writes memory at any moment, between any two writes of the driver. *)
(* The interrupt handler only sets packet_pending; the loop clears it and  *)
(* then polls a fixed number of times, without looking whether the ring is *)
(* empty.                                                                  *)
(*                                                                         *)
(* Frames are numbered in the order in which the card stores them.         *)
(***************************************************************************)
EXTENDS Integers

CONSTANTS
    RX_RING_SIZE,  \* descriptors in the ring
    PollsPerPass,  \* calls of angelic_netif_poll in one pass of the main loop
    MaxFrames      \* bound: frames the card stores in a behaviour

ASSUME RxAssumption ==
    /\ RX_RING_SIZE \in Nat /\ RX_RING_SIZE >= 2
    /\ PollsPerPass \in Nat \ {0}
    /\ MaxFrames \in Nat

Slots == 0 .. RX_RING_SIZE - 1
NoFrame == 0
Frames == 1 .. MaxFrames

(* The interrupt lines that are in use; the timer of the firmware keeps    *)
(* ticking because init_idt unmasks every line.                            *)
Irqs == {"timer", "nic"}

VARIABLES
    dd,              \* rx_ring[i].status has the DD bit
    frame,           \* the frame in the page of rx_ring[i].addr
    rdh,             \* the card's head register
    rdt,             \* its tail register
    icr,             \* the card's interrupt cause register is not empty
    irr,             \* interrupts the PIC holds for the processor
    packet_pending,  \* the flag of the interrupt handler
    pc,              \* where the main loop is
    polls,           \* calls of angelic_netif_poll left in this pass
    rx_idx,          \* the next descriptor the driver looks at
    rx_buffer,       \* the frame memcpy put into rx_buffer
    stored,          \* history: frames the card has stored
    taken,           \* history: frames the driver has copied
    input            \* history: the last frame given to lwIP

nic == <<dd, frame, rdh, icr, stored>>
vars == <<dd, frame, rdh, rdt, icr, irr, packet_pending, pc, polls, rx_idx,
          rx_buffer, stored, taken, input>>

NextSlot(i) == (i + 1) % RX_RING_SIZE

(* Steps from slot i forward to slot j. *)
Dist(i, j) == IF i <= j THEN j - i ELSE j - i + RX_RING_SIZE

----------------------------------------------------------------------------
(* RDH and RDT as e1000_init programs them: one descriptor stays unused.   *)
InitRegs ==
    /\ rdh = 0
    /\ rdt = RX_RING_SIZE - 1

(* After e1000_init and sti, before the first pass of the main loop. *)
Init ==
    /\ dd = [i \in Slots |-> FALSE]
    /\ frame = [i \in Slots |-> NoFrame]
    /\ InitRegs
    /\ icr = FALSE
    /\ irr = {}
    /\ packet_pending = FALSE
    /\ pc = "loop"
    /\ polls = 0
    /\ rx_idx = 0
    /\ rx_buffer = NoFrame
    /\ stored = 0
    /\ taken = 0
    /\ input = NoFrame

(* The card stores a frame in the descriptor at its head and raises its    *)
(* interrupt line.  Nothing in the kernel reads ICR after e1000_init, so   *)
(* the line falls never again and gives one edge only.  Without a free     *)
(* descriptor the card drops the frame; its line is up already.            *)
NicStores ==
    /\ rdh # rdt
    /\ stored < MaxFrames
    /\ frame' = [frame EXCEPT ![rdh] = stored + 1]
    /\ dd' = [dd EXCEPT ![rdh] = TRUE]
    /\ rdh' = NextSlot(rdh)
    /\ stored' = stored + 1
    /\ icr' = TRUE
    /\ irr' = IF icr THEN irr ELSE irr \cup {"nic"}
    /\ UNCHANGED <<rdt, packet_pending, pc, polls, rx_idx, rx_buffer, taken, input>>

(* A tick of the timer. *)
TimerTick ==
    /\ irr' = irr \cup {"timer"}
    /\ UNCHANGED <<dd, frame, rdh, rdt, icr, packet_pending, pc, polls, rx_idx,
                   rx_buffer, stored, taken, input>>

(* Mutant: only the line of the card sets the flag. *)
HandlerIgnoresTimer(i) ==
    /\ i \in irr
    /\ irr' = irr \ {i}
    /\ packet_pending' = (packet_pending \/ i = "nic")
    /\ UNCHANGED <<dd, frame, rdh, rdt, icr, pc, polls, rx_idx, rx_buffer,
                   stored, taken, input>>

(* The handler of vectors 32 to 47: set the flag and acknowledge. *)
interrupt_handler(i) ==
    /\ i \in irr
    /\ irr' = irr \ {i}
    /\ packet_pending' = TRUE
    /\ UNCHANGED <<dd, frame, rdh, rdt, icr, pc, polls, rx_idx, rx_buffer,
                   stored, taken, input>>

----------------------------------------------------------------------------
(* The main loop.                                                          *)

(* if (packet_pending): the test, and the store that follows it, are two   *)
(* steps an interrupt can come between.  The other branch runs the rest of *)
(* the pass, which leaves this state alone.                                *)
TestFlag ==
    /\ pc = "loop"
    /\ packet_pending
    /\ pc' = "clear"
    /\ UNCHANGED <<nic, rdt, irr, packet_pending, polls, rx_idx, rx_buffer, taken, input>>

ClearFlag ==
    /\ pc = "clear"
    /\ packet_pending' = FALSE
    /\ polls' = PollsPerPass
    /\ pc' = "poll"
    /\ UNCHANGED <<nic, rdt, irr, rx_idx, rx_buffer, taken, input>>

(* One call of angelic_netif_poll is over. *)
PollReturns ==
    /\ polls' = polls - 1
    /\ pc' = IF polls = 1 THEN "loop" ELSE "poll"

(* e1000_poll_receive: no DD, return 0. *)
PollEmpty ==
    /\ pc = "poll"
    /\ ~dd[rx_idx]
    /\ PollReturns
    /\ UNCHANGED <<nic, rdt, irr, packet_pending, rx_idx, rx_buffer, taken, input>>

(* e1000_poll_receive: DD is set, copy the frame out. *)
PollCopy ==
    /\ pc = "poll"
    /\ dd[rx_idx]
    /\ rx_buffer' = frame[rx_idx]
    /\ taken' = taken + 1
    /\ pc' = "status"
    /\ UNCHANGED <<nic, rdt, irr, packet_pending, polls, rx_idx, input>>

(* Mutant: rx_idx moves on and DD stays. *)
PollKeepsStatus ==
    /\ pc = "status"
    /\ rx_idx' = NextSlot(rx_idx)
    /\ pc' = "tail"
    /\ UNCHANGED <<nic, rdt, irr, packet_pending, polls, rx_buffer, taken, input>>

(* rx_ring[rx_idx].status = 0; rx_idx moves on. *)
PollClearsStatus ==
    /\ pc = "status"
    /\ dd' = [dd EXCEPT ![rx_idx] = FALSE]
    /\ rx_idx' = NextSlot(rx_idx)
    /\ pc' = "tail"
    /\ UNCHANGED <<frame, rdh, icr, stored, rdt, irr, packet_pending, polls,
                   rx_buffer, taken, input>>

(* Mutant: the tail is moved to the new rx_idx. *)
TailAtNewIdx == rx_idx

(* Mutant: the tail is moved past the descriptor that is read next. *)
TailPastNewIdx == (rx_idx + 1) % RX_RING_SIZE

(* old_idx, which is rx_idx before it moved on. *)
old_idx == (rx_idx + RX_RING_SIZE - 1) % RX_RING_SIZE

(* nic_write(E1000_RDT, old_idx): the descriptor is the card's again. *)
PollMovesTail ==
    /\ pc = "tail"
    /\ rdt' = old_idx
    /\ pc' = "input"
    /\ UNCHANGED <<nic, irr, packet_pending, polls, rx_idx, rx_buffer, taken, input>>

(* angelic_netif_poll gives the frame to lwIP in a pbuf. *)
NetifInput ==
    /\ pc = "input"
    /\ input' = rx_buffer
    /\ PollReturns
    /\ UNCHANGED <<nic, rdt, irr, packet_pending, rx_idx, rx_buffer, taken>>

(* pbuf_alloc fails: the frame is gone. *)
NoPbuf ==
    /\ pc = "input"
    /\ PollReturns
    /\ UNCHANGED <<nic, rdt, irr, packet_pending, rx_idx, rx_buffer, taken, input>>

MainLoop ==
    \/ TestFlag
    \/ ClearFlag
    \/ PollEmpty
    \/ PollCopy
    \/ PollClearsStatus
    \/ PollMovesTail
    \/ NetifInput
    \/ NoPbuf

Next ==
    \/ NicStores
    \/ TimerTick
    \/ \E i \in Irqs : interrupt_handler(i)
    \/ MainLoop

Spec == Init /\ [][Next]_vars

(* The processor keeps executing the loop and takes its interrupts, and    *)
(* the timer keeps ticking.                                                *)
Fairness ==
    /\ WF_vars(MainLoop)
    /\ \A i \in Irqs : WF_vars(interrupt_handler(i))
    /\ WF_vars(TimerTick)

FairSpec == Spec /\ Fairness

----------------------------------------------------------------------------
(* The inductive invariant behind the safety properties.                   *)

(* Descriptors the driver is done with: rx_idx lags behind taken between   *)
(* the copy and the store that clears DD.                                  *)
Passed == IF pc = "status" THEN taken - 1 ELSE taken

(* The frames that wait lie between rx_idx and the head, in order. *)
RingContents ==
    /\ Passed >= 0
    /\ taken <= stored
    /\ Dist(rx_idx, rdh) = stored - Passed
    /\ \A i \in Slots : dd[i] <=> Dist(rx_idx, i) < stored - Passed
    /\ \A i \in Slots : dd[i] => frame[i] = Passed + Dist(rx_idx, i) + 1

(* The tail is the descriptor before rx_idx, and one further back while    *)
(* e1000_poll_receive has not written it.  The head does not pass it.      *)
TailBehindIdx ==
    /\ Dist(rx_idx, rdt) = IF pc = "tail" THEN RX_RING_SIZE - 2 ELSE RX_RING_SIZE - 1
    /\ Dist(rx_idx, rdh) <= Dist(rx_idx, rdt)

(* The frame on its way to lwIP is the last one copied. *)
BufferCurrent ==
    /\ pc \in {"status", "tail", "input"} => rx_buffer = taken /\ input < taken
    /\ input <= taken

----------------------------------------------------------------------------
(* Properties.                                                             *)

(* Each variable has values of its type. *)
TypeOK ==
    /\ dd \in [Slots -> BOOLEAN]
    /\ frame \in [Slots -> Frames \cup {NoFrame}]
    /\ rdh \in Slots
    /\ rdt \in Slots
    /\ icr \in BOOLEAN
    /\ irr \in SUBSET Irqs
    /\ packet_pending \in BOOLEAN
    /\ pc \in {"loop", "clear", "poll", "status", "tail", "input"}
    /\ polls \in 0 .. PollsPerPass
    /\ (pc \in {"loop", "clear"} <=> polls = 0)
    /\ rx_idx \in Slots
    /\ rx_buffer \in Frames \cup {NoFrame}
    /\ stored \in Frames \cup {0}
    /\ taken \in Frames \cup {0}
    /\ input \in Frames \cup {NoFrame}

(* The card never overwrites a frame that e1000_poll_receive has not       *)
(* copied: each one that is stored and not taken is in the ring with DD.   *)
UnreadFramesHeld ==
    \A k \in taken + 1 .. stored : \E i \in Slots : dd[i] /\ frame[i] = k

(* No descriptor leaks: those that wait for the driver, those the card     *)
(* owns and the one e1000_poll_receive holds are always all but one, so an *)
(* empty ring can take RX_RING_SIZE - 1 frames again however often it was  *)
(* full.                                                                   *)
DescriptorsConserved ==
    Dist(rx_idx, rdh) + Dist(rdh, rdt) + (IF pc = "tail" THEN 1 ELSE 0)
        = RX_RING_SIZE - 1

(* lwIP gets the frames in the order in which they arrived and each one    *)
(* once: the one handed over is always the last one taken from the ring.   *)
InputInOrder ==
    [][input' # input => input' = taken /\ input' > input]_vars

(* Every frame that is stored in the ring is taken from it in the end,     *)
(* even when one interrupt stands for a burst longer than PollsPerPass.    *)
EveryFrameTaken ==
    \A k \in Frames : stored >= k ~> taken >= k

(* The safety properties rest on this. *)
IInv ==
    /\ TypeOK
    /\ RingContents
    /\ TailBehindIdx
    /\ BufferCurrent
=============================================================================

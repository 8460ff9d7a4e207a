------------------------------- MODULE TxRing -------------------------------
(***************************************************************************)
(* How a frame gets from lwIP to the wire: low_level_output_zerocopy of    *)
(* src/src/net/lwip_glue.c and the transmit descriptor ring of             *)
(* src/src/drivers/e1000.c.                                                *)
(*                                                                         *)
(* The card owns the descriptors from TDH up to, not including, TDT; it    *)
(* takes them at its own pace, or not at all while the link is down, and   *)
(* sets DD in each one it has sent.  The driver points the descriptors     *)
(* straight at lwIP's buffers, moves TDT and polls DD of the last one a    *)
(* bounded number of times.  Then lwIP has its buffers back, whatever the  *)
(* card has done: low_level_output ignores what the driver returns.        *)
(* The one main loop stands still until a call returns, so the calls do    *)
(* not overlap.                                                            *)
(***************************************************************************)
EXTENDS Integers, Sequences

CONSTANTS
    TX_RING_SIZE,  \* descriptors in the ring
    MAX_TX_SEGS,   \* pbufs of a frame that is sent without a copy
    MaxCalls       \* bound: calls of low_level_output in a behaviour

ASSUME TxAssumption ==
    /\ TX_RING_SIZE \in Nat
    /\ MAX_TX_SEGS \in 1 .. TX_RING_SIZE \div 2
    /\ MaxCalls \in Nat

Slots == 0 .. TX_RING_SIZE - 1
Calls == 1 .. MaxCalls
NoCall == 0

(* tx_ring[i]: the call and the segment its address stands for, whether    *)
(* that is tx_buffer_fallback, and the bits EOP and DD.                    *)
Desc == [call : Calls \cup {NoCall}, seg : 0 .. MAX_TX_SEGS, copied : BOOLEAN,
         eop : BOOLEAN, dd : BOOLEAN]

(* What became of a call: "none" yet, "failed" before anything was queued, *)
(* "timeout" after it was queued (both return -1), "ok" (returns 0).       *)
Results == {"none", "failed", "timeout", "ok"}

(* A frame as it leaves the card: the call of its last segment; its        *)
(* segments are those of that call; they are read while they still hold    *)
(* what lwIP gave.                                                         *)
WireFrame == [call : Calls, whole : BOOLEAN, intact : BOOLEAN]

VARIABLES
    tx_ring,
    tx_tail,
    tdh,       \* the card's head register
    tdt,       \* its tail register
    gathered,  \* segments the card has read of a frame that goes on
    wire,      \* history: the frames the card has sent
    pc,        \* where the driver is: "idle", "slots", "wait"
    calls,     \* calls so far; the last one is under way unless pc = "idle"
    segs,      \* n_segs of that call, or 0 for one that is copied
    fallback,  \* the call whose frame is in tx_buffer_fallback
    result,    \* what each call came to
    overrun    \* history: TDT has once caught up with TDH from behind

card == <<tdh, gathered, wire>>
vars == <<tx_ring, tx_tail, tdh, tdt, gathered, wire, pc, calls, segs, fallback,
          result, overrun>>

Slot(i, n) == (i + n) % TX_RING_SIZE

(* The descriptors from slot i up to slot j. *)
Range(i, j) == {s \in Slots : IF i <= j THEN i <= s /\ s < j ELSE s >= i \/ s < j}

Owned == Range(tdh, tdt)

(* The number of descriptors the call takes, and the last of them. *)
Needed == IF segs = 0 THEN 1 ELSE segs
LastIdx == Slot(tx_tail, TX_RING_SIZE - 1)

----------------------------------------------------------------------------
(* e1000_init: every descriptor is done. *)
Init ==
    /\ tx_ring = [s \in Slots |-> [call |-> NoCall, seg |-> 0, copied |-> FALSE,
                                   eop |-> FALSE, dd |-> TRUE]]
    /\ tx_tail = 0
    /\ tdh = 0
    /\ tdt = 0
    /\ gathered = <<>>
    /\ wire = <<>>
    /\ pc = "idle"
    /\ calls = 0
    /\ segs = 0
    /\ fallback = NoCall
    /\ result = [k \in Calls |-> "none"]
    /\ overrun = FALSE

(* low_level_output_zerocopy with a frame of n pbufs; n = 0 stands for     *)
(* more than MAX_TX_SEGS of them, which are copied into one buffer.        *)
low_level_output(n) ==
    /\ pc = "idle"
    /\ calls < MaxCalls
    /\ calls' = calls + 1
    /\ segs' = n
    /\ fallback' = IF n = 0 THEN calls + 1 ELSE fallback
    /\ pc' = "slots"
    /\ UNCHANGED <<tx_ring, tx_tail, tdt, card, result, overrun>>

(* Mutant: only the first descriptor is looked at. *)
FirstSlotFree == tx_ring[tx_tail].dd

(* DD is set in every descriptor that e1000_send_scatter needs;            *)
(* e1000_send_raw (segs = 0) does not look.                                *)
SlotsFree == \A n \in 0 .. segs - 1 : tx_ring[Slot(tx_tail, n)].dd

(* The call is over: low_level_output returns ERR_OK. *)
Returns(r) ==
    /\ pc' = "idle"
    /\ segs' = 0
    /\ result' = [result EXCEPT ![calls] = r]

(* Mutant: the wait for a free descriptor has no time-out. *)
ScatterWaits ==
    /\ pc = "slots"
    /\ ~SlotsFree
    /\ UNCHANGED vars

(* One of them has been polled E1000_TX_TIMEOUT times: return -1. *)
ScatterFails ==
    /\ pc = "slots"
    /\ ~SlotsFree
    /\ Returns("failed")
    /\ UNCHANGED <<tx_ring, tx_tail, tdt, card, calls, fallback, overrun>>

(* Mutant: DD keeps its value from the last time around. *)
StaleDesc(n) ==
    [call |-> calls, seg |-> n + 1, copied |-> segs = 0, eop |-> n = Needed - 1,
     dd |-> TRUE]

(* The n-th descriptor of the call. *)
NewDesc(n) ==
    [call |-> calls, seg |-> n + 1, copied |-> segs = 0, eop |-> n = Needed - 1,
     dd |-> FALSE]

(* Mutant: TDT is set to the last descriptor of the frame. *)
TailAtLast == Slot(tx_tail, Needed - 1)

(* Mutant: the tail does not wrap. *)
TailNoWrap == tx_tail + Needed

NewTail == Slot(tx_tail, Needed)

(* The descriptors are filled in and TDT is written, by e1000_send_scatter *)
(* or by e1000_send_raw.  The card does not look at them before TDT moves. *)
QueueFrame ==
    /\ pc = "slots"
    /\ SlotsFree
    /\ tx_ring' = [s \in Slots |->
          IF \E n \in 0 .. Needed - 1 : s = Slot(tx_tail, n)
          THEN NewDesc((s - tx_tail) % TX_RING_SIZE)
          ELSE tx_ring[s]]
    /\ tx_tail' = Slot(tx_tail, Needed)
    /\ tdt' = NewTail
    /\ overrun' = (overrun \/ NewTail = tdh)
    /\ pc' = "wait"
    /\ UNCHANGED <<card, calls, segs, fallback, result>>

(* DD of the last descriptor is seen: return 0. *)
SendDone ==
    /\ pc = "wait"
    /\ tx_ring[LastIdx].dd
    /\ Returns("ok")
    /\ UNCHANGED <<tx_ring, tx_tail, tdt, card, calls, fallback, overrun>>

(* It is not seen in E1000_TX_TIMEOUT polls: return -1.  The frame stays   *)
(* in the ring.                                                            *)
SendTimesOut ==
    /\ pc = "wait"
    /\ ~tx_ring[LastIdx].dd
    /\ Returns("timeout")
    /\ UNCHANGED <<tx_ring, tx_tail, tdt, card, calls, fallback, overrun>>

----------------------------------------------------------------------------
(* The card (external).                                                    *)

(* A descriptor still points at what lwIP gave: the pbufs are lwIP's again *)
(* after the call, the buffer of copies changes with the next copy.        *)
Intact(d) ==
    IF d.copied THEN fallback = d.call
    ELSE pc = "wait" /\ calls = d.call

(* The card reads the descriptor at its head, reports it and, at the end   *)
(* of a frame, sends what it has read.                                     *)
CardSends ==
    LET d == tx_ring[tdh]
        read == Append(gathered, [call |-> d.call, seg |-> d.seg, intact |-> Intact(d)])
    IN  /\ tdh # tdt
        /\ tx_ring' = [tx_ring EXCEPT ![tdh].dd = TRUE]
        /\ tdh' = Slot(tdh, 1)
        /\ IF d.eop
           THEN /\ wire' = Append(wire,
                      [call |-> d.call,
                       whole |-> Len(read) = d.seg /\
                                 \A n \in 1 .. Len(read) :
                                    read[n].call = d.call /\ read[n].seg = n,
                       intact |-> \A n \in 1 .. Len(read) : read[n].intact])
                /\ gathered' = <<>>
           ELSE gathered' = read /\ UNCHANGED wire
        /\ UNCHANGED <<tx_tail, tdt, pc, calls, segs, fallback, result, overrun>>

(* The steps of a call, once it has begun. *)
Driver ==
    \/ ScatterFails
    \/ QueueFrame
    \/ SendDone
    \/ SendTimesOut

Next ==
    \/ \E n \in 0 .. MAX_TX_SEGS : low_level_output(n)
    \/ Driver
    \/ CardSends

Spec == Init /\ [][Next]_vars

(* The loops of the driver are bounded, so a call goes on; nothing is      *)
(* assumed of the card.                                                    *)
FairSpec == Spec /\ WF_vars(Driver)

----------------------------------------------------------------------------
(* Properties.                                                             *)

(* Each variable has values of its type. *)
TypeOK ==
    /\ tx_ring \in [Slots -> Desc]
    /\ tx_tail \in Slots
    /\ tdh \in Slots
    /\ tdt \in Slots
    /\ \A n \in 1 .. Len(gathered) :
          gathered[n] \in [call : Calls, seg : 1 .. MAX_TX_SEGS, intact : BOOLEAN]
    /\ \A n \in 1 .. Len(wire) : wire[n] \in WireFrame
    /\ pc \in {"idle", "slots", "wait"}
    /\ calls \in Calls \cup {NoCall}
    /\ segs \in 0 .. MAX_TX_SEGS
    /\ fallback \in Calls \cup {NoCall}
    /\ result \in [Calls -> Results]
    /\ overrun \in BOOLEAN

(* The frames on the wire are whole and in the order of the calls, none    *)
(* twice, and the descriptors without DD are those the card owns, so that  *)
(* each of them is still to be sent and the others are free: although      *)
(* calls time out, fail and come again while the card is in the middle of  *)
(* a frame - until the ring is filled to the last descriptor, when         *)
(* TDT = TDH says to the card that it owns none.                           *)
WireInOrder ==
    ~overrun => /\ \A m, n \in 1 .. Len(wire) : m < n => wire[m].call < wire[n].call
                /\ \A n \in 1 .. Len(wire) : wire[n].whole
                /\ \A s \in Slots : ~tx_ring[s].dd <=> s \in Owned

(* A call for which the driver returns 0 has put its frame on the wire,    *)
(* and as lwIP gave it unless the ring was filled to the last descriptor:  *)
(* what the card reads after lwIP has its buffers back belongs to a call   *)
(* that timed out.                                                         *)
ZeroMeansSent ==
    \A k \in Calls : result[k] = "ok" =>
        \E n \in 1 .. Len(wire) :
            wire[n].call = k /\ (~overrun => wire[n].whole /\ wire[n].intact)

(* Every call returns, even when the card has stopped: the main loop, with *)
(* all its receiving and its timers, does not hang on a link that is down. *)
EveryCallReturns == pc # "idle" ~> pc = "idle"

(* The link works for long enough, again and again. *)
LinkWorks == WF_vars(CardSends)

(* A frame that is in the ring when its call times out is sent in the end, *)
(* if the link comes back and the ring was never filled to the last        *)
(* descriptor.                                                             *)
QueuedIsSent ==
    LinkWorks => \A k \in Calls :
        (result[k] = "timeout") ~>
            (overrun \/ \E n \in 1 .. Len(wire) : wire[n].call = k)

----------------------------------------------------------------------------
(* The invariant that the safety properties rest on.                       *)

(* The last call that may have been queued. *)
LastQueued == IF pc = "slots" THEN calls - 1 ELSE calls

(* Whatever the ring, the card and the wire hold is of a call so far, and  *)
(* the card owns nothing that was never filled in.                         *)
RingFilled ==
    /\ tx_tail = tdt
    /\ pc # "idle" => calls > 0
    /\ gathered \in Seq([call : Calls, seg : 1 .. MAX_TX_SEGS, intact : BOOLEAN])
    /\ wire \in Seq(WireFrame)
    /\ \A s \in Owned : tx_ring[s].call # NoCall /\ tx_ring[s].seg > 0
    /\ \A s \in Slots : tx_ring[s].call <= LastQueued
    /\ \A n \in 1 .. Len(gathered) : gathered[n].call <= LastQueued
    /\ \A n \in 1 .. Len(wire) : wire[n].call <= LastQueued

(* Descriptor s is followed by the next one of its frame, or by the first  *)
(* of a later frame.                                                       *)
Followed(s) ==
    LET d == tx_ring[s]
        e == tx_ring[Slot(s, 1)]
    IN  IF d.eop
        THEN Slot(s, 1) \in Owned => e.seg = 1 /\ e.call > d.call
        ELSE Slot(s, 1) \in Owned /\ e.seg = d.seg + 1 /\ e.call = d.call

(* What the card has read of a frame goes on at its head. *)
HeadContinues ==
    IF tdh = tdt THEN gathered = <<>>
    ELSE /\ tx_ring[tdh].seg = Len(gathered) + 1
         /\ \A n \in 1 .. Len(gathered) :
               gathered[n].call = tx_ring[tdh].call /\ gathered[n].seg = n
         /\ \A n \in 1 .. Len(wire) : wire[n].call < tx_ring[tdh].call

RingInOrder ==
    ~overrun => (\A s \in Owned : Followed(s)) /\ HeadContinues

(* The buffers of the call under way are not given back yet, and DD in its *)
(* last descriptor means that its frame is out.                            *)
CallCurrent ==
    /\ pc # "idle" /\ segs = 0 => fallback = calls
    /\ pc = "wait" =>
          /\ tx_ring[LastIdx].call = calls /\ tx_ring[LastIdx].eop
          /\ tx_ring[LastIdx].dd => \E n \in 1 .. Len(wire) :
                wire[n].call = calls /\ (~overrun => wire[n].whole /\ wire[n].intact)
          /\ \A s \in Slots : tx_ring[s].call = calls => tx_ring[s].copied = (segs = 0)
          /\ \A n \in 1 .. Len(gathered) : gathered[n].call = calls => gathered[n].intact

IInv ==
    /\ TypeOK
    /\ RingFilled
    /\ WireInOrder
    /\ RingInOrder
    /\ CallCurrent
    /\ ZeroMeansSent
=============================================================================

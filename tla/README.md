# AngelicKernel in TLA+

AngelicKernel is a unikernel: a single UEFI program that drives a network card
and a disk, runs lwIP and mbedTLS, and serves XMPP on port 5222. It has one
thread. Concurrency comes from the interrupt handler, from the card that writes
memory on its own, from the drive and its cache, from the many connections whose
callbacks interleave, and from power cuts.

This directory holds TLA+ models of its own code, the TLC configurations that
check them on small instances, and proofs, checked by TLAPS, that hold for every
value of the constants. `PROJECT.json` maps each definition to the lines it
models and lists runs, mutants, findings, hazards and theorems.

## 1. Inventory

Paths are relative to the repository's `src/` unless they start with `include/`.

| Component | State | Operations | Hard behaviour | What makes it correct |
|---|---|---|---|---|
| On-disk store: `xmpp/xmpp_persist.c` | five stores in memory, five regions and a header on disk | `xmpp_persist_save_*`, `xmpp_persist_load_all` | power cut between sectors, failed write or flush | a boot restores one moment of all stores, or none; nothing is lost between saves |
| Disk drivers: `drivers/disk.c`, `ata.c`, `ahci.c` | registers, command slot, DMA buffer | read, write, flush | time-outs, the drive's cache | what a caller is told of a write is true (with ATA it is not always: an error of the last sector or of the flush goes unseen) |
| Receive path: `drivers/e1000.c`, `arch/idt.c`, `net/lwip_glue.c`, `kernel.c` | descriptor ring, `rx_idx`, `packet_pending` | interrupt, poll, hand-over to lwIP | the card runs concurrently, interrupts are edges | stored frames are neither lost, repeated nor reordered, and each is taken in the end |
| Transmit path: `drivers/e1000.c`, `net/lwip_glue.c` | transmit ring, `tx_tail` | `e1000_send_scatter`, `e1000_send_raw` | time-out while the card still reads the buffers | frames go out whole and in order, a call that reports success has sent its frame, and every call returns |
| Connections: `xmpp/xmpp_server.c`, `xmpp_tls.c`, `xmpp_router.c`, login handlers of `xmpp_handlers.c` | `client_registry`, `client_idx`, the argument of each pcb's callbacks | accept, receive, FIN, error, handshake, SASL, bind, session, presence | callbacks of closed connections reach slots that were given away | the rights, TLS context and pcb of a slot are those of its connection |
| Clock and timers: `net/lwip_glue.c`, lwIP's `timeouts.c` | the list of time-outs | `sys_now`, `sys_check_timeouts` | wrap-around | timers run again and again |
| Stream management: `xmpp/xmpp_sm.c` | counters and `sm_want_ack` per client | enable, request, answer | counters wrap, requests count themselves | an answer has the number of stanzas the client sent; a request goes out when it is due |
| Multi-user chat: `xmpp_handlers.c` | `rooms` | presence, owner, admin, group messages | seats outlive sessions, full tables, every change must be saved | nicks, seats and names are unique, owners and bans hold over restarts, a client told to be in a room is in it |
| Rosters, subscriptions, private XML: `xmpp_handlers.c`, `xmpp_store.c` | `roster_store`, `pending_subs`, `private_store` | get, set, subscribe, subscribed, ... | two users' rosters change in different orders, full tables | a contact is listed once, the two sides of a subscription agree, a request for an absent user is kept |
| Offline messages: `xmpp_store.c` | `offline_store` | enqueue, drain | full queue, power cut or full send buffer during a drain | a stored message is kept until it is sent, and sent once |
| Parser: `xmpp_parser.c`, `yxml_sse.c`, `xmpp_memory.c` | `rx_buffer`, stanza pool | `parse_xml_stream` | elements cut anywhere, several in a segment | the elements handled are those sent, whole and in order |
| Memory protection: `arch/mpk.asm`, `mm/vmm.c` | PKRU, page keys | trampolines, `vmm_protect_driver` | interrupts and faults inside a trampoline | driver data is reachable only inside one |
| Memory, boot, PCI, C library | - | straight-line start-up, helpers | - | - |

How they interact: the interrupt handler sets `packet_pending`; the main loop
(`kernel.c:258-282`) then polls the card, which calls lwIP, which calls the
callbacks of `xmpp_server.c`, all in one stack. These call the TLS layer, the
parser, the router and the handlers. Handlers change the stores and call
`xmpp_persist_save_*`, which block in the disk driver. After the poll the loop
retries handshakes that could not write, sends requests for acknowledgement and
runs lwIP's timers. Nothing but the interrupt handler preempts the loop.

## 2. Modules

### Persist, SnapshotStore, MCPersist, PersistProofs

`Persist` models `xmpp_persist.c` over both disk drivers. `ram` is the five
stores, laid out as their regions; `disk` and `hdr` are what the drive reads
back, `mdisk` and `mhdr` what is on the medium without its cache. A save is
`xmpp_persist_save(r)` (the handler's change, the copy to the buffer and the
start of the write), then `WriteSector` for each sector, `FlushOk` or
`FlushFails`, and the same for the header. `WriteFails` stops a write at any
sector. Not every error is seen by the driver. After the last sector of a write and
after the flush, `ata.c` only waits for BSY: a last sector that the drive rejects
(`LastSectorRejected`; the header has no other) and a flush that ends with ERR are
reported as success, and only a flush that times out is an error. With AHCI a failed
flush is a warning (`FlushResults`). `failed` and `stale` (history) record what the
drive did not carry out, noticed or not, and `NothingLostBetweenSaves` is about what
it did carry out: a caller that was told 0 by the ATA driver cannot rely on it.
`backend` is the driver that `disk_init` has found (with neither drive the server runs
without persistence, which is outside the model). `LoadAccepted`,
`LoadRejected` and `LoadReadError` are the outcomes of `try_load`; the last two go on
with `fresh_start`, whose errors are ignored as in the code. `PowerLoss` may happen at any moment; of the sectors in the cache any
subset survives, each as a whole.

Every store is saved by the handler that changes it before it returns, so a
change and the start of its save are one action. The CRC is a function that
tells different contents apart (`CrcAssumption`); a collision of the 32-bit CRC
is outside the model.

`SnapshotStore` says what the disk promises: a store that is restored as a whole
or not at all. `image` is what was last checkpointed, `safe` what is known to
survive a power cut, and `intact` tells whether a boot would accept the disk.
`Persist` implements it under the mapping at the end of the module.

### RxPath, RxPathProofs

The receive ring, the card, the PIC's pending interrupts, the interrupt flag and
the main loop. `e1000_poll_receive` is split where the card can come in between:
the copy (`PollCopy`), the clearing of DD and the move of `rx_idx`
(`PollClearsStatus`), the write of RDT (`PollMovesTail`), the hand-over
(`NetifInput`, or `NoPbuf` when lwIP has no buffer). The test and the clearing of
`packet_pending` are two steps. Frames are numbered in the order the card stores
them.

The driver never reads ICR after `e1000_init`, so the card's interrupt line gives
a single edge for the whole life of the system. What keeps frames moving is that
`init_idt` unmasks all lines and the handler sets the flag for each of them: the
timer of the firmware does the work. `EveryFrameTaken` rests on it, and the mutant
in which the handler ignores the timer breaks it.

### TxRing, TxRingProofs

`low_level_output_zerocopy` and the transmit ring. A call gives up to `MAX_TX_SEGS`
buffers to `e1000_send_scatter`, or has more of them copied into one buffer for
`e1000_send_raw` (`segs = 0`). The card (`CardSends`) takes descriptors between any
two steps, or stops. The polling loops are abstracted to their two outcomes: the bit
is seen, or the bound is reached. After the call the buffers are lwIP's again;
`intact` in `wire` (history) says whether the card read them in time. `overrun`
(history) is set once a call fills the ring to the last descriptor: then TDT = TDH,
the card takes the ring for empty, and frames that follow are sent out of order. With
32 descriptors and at most 8 per frame this takes several calls in a row that time
out, and the properties that it breaks say so.

### Session, MCSession, SessionProofs

A connection is an lwIP pcb; `arg` is the slot its callbacks get. `tcp` is the
state of the pcbs as the server can tell: new, open, closed by the server, by the
peer or by both, freed. `client_registry` has the fields of `xmpp_client_ctx_t`
that decide what the code does, and `by` (history) for the connection that logged
in. A receive callback decrypts or copies the segment (`RecvTls`, `RecvPlain`,
`RecvOverflow`, `RecvHandshake`) and then takes the elements one after the other:
while `cur` is that pcb no other callback runs, and each action of `Element` is one
pass of the loop. `halted` says that an lwIP assertion has failed, which on this
platform is an endless loop.

lwIP is vendored in the repository; the model has of it what it does to the server,
and the map names the lines that do it: `tcp_close` sends a
FIN and keeps the callbacks; data after it, a reset or a time-out frees the pcb
and calls the error callback; after both FINs the pcb is freed silently.

Two things hold whatever arrives: bytes of another connection do not decrypt under
the slot's TLS session, so they end in an error, and they cannot complete its
handshake.

The context of a slot whose pcb was cleared by a failed handshake or decryption is
freed only by the FIN or error callback that is still to come: `accept` clears such a
slot without looking. `OrphanContextReachable` says that such a context can always
still be reached by one of these callbacks as long as the slot has no new occupant;
of a context that `accept` has cleared away it says nothing, and it leaks.

### Stream, MCStream, StreamProofs

The loop of `xmpp_recv_callback` over `rx_buffer` for one encrypted connection, from
the state in which a resource can be bound. The text of a client is a sequence of
symbols, two for a tag; `rx_buffer` is the part of it between `taken` and `arrived`.
`Record` and `Overflow` are what `xmpp_tls_decrypt` does with a record; each of the
actions of `Loop` is one pass. `find_stanza_end` says where the first stanza ends, as
the first tag after which the depth is 0; the vector and the scalar scanner compute the
same, and differ only in how they skip what is not a tag. `SendRaw` counts what goes
out and flags a request, `RequestAck` is the part of the main loop that sends it.
`Push` is a stanza of someone else for this client. What a stanza makes the server do
is any small number of answers. A stanza whose namespace contains "stream" (`restart`;
the one of XEP-0065 does) puts the session back to `STATE_BIND`, from where another
`session` leads out. `handled` and `unasked` are history.

The client's own view of its text (`Finish`, `SentAs`, `Meant`, `Good`, `Rank`,
`SentSinceEnable`) is the reference that the properties compare with: element i of the
script ends at symbol `Finish(i)`, is sent as `SentAs(i)`, and is the `Rank(i)`-th that
the server should handle. There are two exceptions, and both are named in the
properties. An element of stream management that is sent outside a session (`Stray`) is
taken for a stanza, routed as one and counted as one; `Meant` is what the server takes
an element for. So a client that sends `<enable/>`, loses its session and sends `<r/>`
gets an answer later that counts this `<r/>` too. And nothing is said from an element of
stream management on that is written as a pair of tags (`Paired`): the code takes the
start tag for the whole element, and the end tag that is left disturbs what follows.

### Timers, MCTimers

The clock of `lwip_glue.c` and lwIP's list of time-outs, with the timers that
always run (ARP, IP reassembly) and the TCP timer, which runs while there are
connections. It is kind to the code: the loop is never late.

### Muc, MCMuc, MucProofs

The rooms, as the handlers leave them, and their copy on the disk. Each operation
of `handle_muc_presence`, `handle_muc_admin`, `handle_muc_owner` and the subject
part of `handle_chat_message` is an action; sessions come and go without a word to
the rooms (`Login`, `Logout`), and `Restart` reads the disk. A seat is a nick and a
bare jid; its `pcb` is written and never read by the code, and is left out, as is
`locked`, which is never set. Subject and configuration flags that are only stored
and shown are one value, `conf`. No operation asks who the sender is: any user may
kick, ban, configure and destroy, as in the code. `told` (history) is what a
client was told of its place in a room. Failing saves are the matter of `Persist`.

### Offline, MCOffline, OfflineProofs

`offline_store` and its copy on the disk, with `offline_msg_enqueue`,
`offline_msg_is_full` and `offline_msg_drain`, as `handle_chat_message` and
`handle_initial_presence` call them. The drain goes slot by slot, and the power may
be cut between two slots. An address at another domain is stored for the local user
of that name, because only the part before the "@" is kept (`local`). The send
buffer of a connection is counted in messages (`free`); when it is full, mbedtls
keeps one stanza (`held`) and writes it in place of a later one, which `send_raw`
then takes for written. `Acknowledged` empties the buffer, between handlers only.
Pending subscription requests, drained by the same presence, are in `Roster`.

A message is delivered to a session in `STATE_SESSION` or later whose address it has
(`Reached`). A client in `Restless` may ask for a session without binding a resource,
and may send a namespace with "stream" in it, which puts the session back to
`STATE_BIND` (`RouteStream`; `back`); it returns with `Bind` or `AskSession`. Its
`initial_presence_sent` is never reset, so that what is stored for it meanwhile waits
for another session. `steady` (history) are the users whose session had a resource at
its initial presence and was not put back since: `NothingWaits` is about them.

### Roster, MCRoster, RosterProofs

`roster_store` and `pending_subs` with their copies on the disk. A user's list is
changed by the user (`handle_roster_request`, an item as a whole) and by the answers
`subscribed` and `unsubscribed`, which change two entries (`Subscription`,
`subscription_update_roster`): the entry of the sender and that of the user whose name
is in the address. Subscriptions are sets of "to" and "from". Requests and answers for
a user who has no session wait in `pending_subs`, where a full table displaces one,
until the initial presence of a session. `Targets` are the addresses that each client
writes to: users of this server, and namesakes of theirs at another one, which the code
does not tell apart. A client in `Restless` does what it does in `Offline`; without a
resource it sends as the user "". `greeted` is "steady" for a session that had a
resource at its initial presence and was not put back since, and "shaken" for the other
ones that have sent it: `NoneWaitsForPresent` is about the former.

An answer saves the table of requests, the list of its sender and the list of its
recipient, one after the other. `Subscription` is the handler that comes to its end, and
`SubscriptionCut` the one in which the power fails between two of these saves, together
with the boot that follows. `owed` (history) is what absent users have not been told,
`touched` (history) the pairs of users of whom a list was also changed in another way:
by a roster set, by an answer to a namesake, because the table had room for only one of
two entries, or by such a cut.

## 3. Runs

| Run | Bounds | Checks | Result |
|---|---|---|---|
| `persist` | 2 regions of 2 and 1 sectors, 2 values per sector, both drivers | `NothingLostBetweenSaves`, `LoadIsSnapshot`, `ImplementsSnapshotStore` | hold, 1,637,749 states |
| `rx_path` | ring of 4, 2 polls per pass, 7 frames | `UnreadFramesHeld`, `DescriptorsConserved`, `InputInOrder`, `EveryFrameTaken` | hold, 5,986 states |
| `tx` | ring of 4, frames of 1 or 2 buffers or copied, 5 calls | `TypeOK`, `WireInOrder`, `ZeroMeansSent`, `EveryCallReturns`, `QueuedIsSent` | hold, 52,600 states |
| `session` | 2 slots, 3 connections, 1 user, 2 failures allowed | `TlsContextValid`, `StateGates`, `CredentialsOwn`, `OneBindingPerUser`, `OpenIsHeld`, `SlotPcbAlive`, `OrphanContextReachable` | hold, 670,683 states |
| `session_assert` | as `session` | `OutputPcbValid` | violated |
| `stream` | 279 scripts of up to 13 elements, buffer of 11, interval 3, counters modulo 5, records of up to 4, 2 answers per stanza | `TypeOK`, `FramesMatch`, `NothingWaits`, `AckIsExact`, `AskedInTime`, `EveryElementHandled` | hold, 101,969 states |
| `timers` | units of 50 ms: clock of 43, u32 of 256, TCP timer 5, others 20 | `TcpTimerRuns` | violated |
| `muc` | 2 rooms of 2 seats and 1 ban, 2 users, 2 nicks, 2 names, 2 configurations | `TypeOK`, `SeatsUnique`, `RoomNamesUnique`, `BannedStayOut`, `RoomsSaved`, `OwnerKept` | hold, 137,544 states |
| `muc_joined` | 1 room of 1 seat, 2 users, 2 nicks | `ToldIsSeated` | violated |
| `roster` | 2 contacts and 1 request in all, 2 users, one also written to at a namesake's address, the other `Restless` | `TypeOK`, `EntriesUnique`, `SubscriptionsAgree`, `RequestsKept`, `NoneWaitsForPresent`, `RosterSaved` | hold, 147,764 states |
| `offline` | 4 slots, 2 users, one of them `Restless`, 3 messages, buffer of 1, 1 cut | `AcceptedKept`, `HandedOnce`, `NothingWaits` | hold, 603,475 states |
| `offline_delivered` | 6 slots, 3 messages, buffer of 1 | `GivenIsSent` | violated |

Why the bounds are enough. Two regions, one of two sectors, give torn regions,
regions that are newer or older than the header and a header in the cache; more
regions add nothing of another kind, and the theorems hold for any number. A ring
of 4 with 7 frames is filled and wraps almost twice, and two polls per pass leave
bursts that one pass cannot take. In the transmit ring of 4, five calls of up to two
descriptors wrap, meet descriptors that the card has not given back, and fill the
ring. With two slots and three connections a slot gets a new occupant while the old
one's callbacks are due and the other slot is in any state. The scripts of `stream`
have each element before a session, each sequence of up to two elements in one, each
sequence of two of nine kinds between `<enable/>` and `<r/>`, and there are three long
ones: over two of them both counters wrap, and in one the session is lost between two
requests and made again; every way to cut them into records and segments is tried,
and the buffer, smaller than two stanzas, overflows with elements left in it. 256
units of the `u32_t` are more than five times the clock's range, as 2^32 is far
beyond 2147; a due time beyond the clock never comes back into its range in either.
With two users and two seats nicks collide, are exchanged and stay behind; two names
in two rooms are opened, ended and opened again in the other slot, and the second ban
finds the list full; that a room is full for a user with a free nick needs one seat and
two nicks, and is what the trace of `muc_joined` shows.
Two entries are what one answer needs, so that a table with a hole, with room for one
and with none all occur; one slot for requests is displaced by the second. A store of
four slots gives a user two, so that a drain has a slot before and after the cut, and
three messages reach the quota; a full store below the quota needs a third user and is
refused by the same branch. In `offline` the messages are symmetric and the users, of
whom one is `Restless`, are not; its view leaves out `given` and `sent`, which no guard
and none of its properties reads. Every safety property of a passing run is also
proved, for all sizes; `TypeOK` of `Persist`, `RxPath`, `Session` and `Offline` is only
proved (`TypeCorrect`), which makes a run of it superfluous. The inductive invariants
of all modules were model-checked on the instances of the runs before they were proved.

What the four violations show:

* `session_assert`: a pcb's callbacks keep the slot after the slot has been given
  away. The error callback of an evicted connection zeroes its successor, whose
  next `<starttls/>` or header calls `tcp_output(NULL)`: lwIP's assertion, an
  endless loop.
* `timers`: `sys_now` wraps at 2147 ms. A time-out due beyond that never expires;
  the TCP timer stops for good.
* `muc_joined`: a room without a free seat answers a join like one that has assigned
  it. That is TLC's trace. Within the same bounds, in as many steps, the claim is also
  broken by an unavailable presence, which takes the seat of whoever has the nick.
* `offline_delivered`: a drain that fills the send buffer (11,680 bytes, for up to 16
  messages of up to 1,366) removes the remaining messages from the store although
  they were not written.

The passing properties hold in the presence of those callbacks: they disturb
connections (`OpenIsHeld` says nothing once `stale` is set) but never lend rights,
TLS contexts or freed pcbs from one connection to another.

Fairness is assumed in four models. `RxPath`: the processor keeps executing the
loop (`WF` of `MainLoop`: none of its steps waits), takes pending interrupts
(`sti` is executed before the loop and interrupts are never disabled again), and
the firmware's timer keeps ticking (the environment; IRQ 0 is unmasked in
`idt.c:98-99`). `Timers`: the clock runs and the loop runs expired timers.
`TxRing`: the loops of the driver are bounded, so a call goes on (`WF` of `Driver`);
of the card nothing is assumed but in `QueuedIsSent`, which supposes that the link
works again. `Stream`: TCP delivers what the client sent, a callback runs to its end,
and the main loop comes round. The other models have safety properties only.
Deadlock is checked except in the runs of `Session`, where the kernel may halt in an
assertion and the connections of a behaviour are finitely many, of `TxRing`, whose
calls are, and of `Stream`, whose client may have said all it has to say.

## 4. Proofs

All theorems are checked by TLAPS to the last leaf.

**PersistProofs**, from `PersistAssumption` (the regions lie one after the other)
and `CrcAssumption`. `IInv` adds to the properties that every header with our magic
carries the checksum of its `image` (`HeadersHonest`), that the drive agrees with
memory for each region whose last write reached it and, for the one under way, up to
`lba` (`RegionsWritten`), that the header is current when nothing failed, unnoticed or
not (`HeaderCurrent`), and that then the cache is empty unless the last flush failed
(`MediumCurrent`).
`NothingLostBetweenSaves` is not inductive without them: it speaks of the moment
after the power cut only. `TypeCorrect`, `NothingLost`, `LoadRestoresSnapshot` and
`Refinement` (initial states map to initial states, each action to one of
`SnapshotStore` or to a stutter) follow.

**RxPathProofs**, from `RxAssumption`. `RingContents` says that the waiting frames
are those between `rx_idx` and the head, in order; `TailBehindIdx` that the tail
trails `rx_idx` by one, and by two until it is written. Arithmetic modulo the ring
size is confined to lemmas about `Dist` and `NextSlot`. `TypeCorrect`, `FramesHeld`,
`NoDescriptorLeaks` and `InOrder` follow.

**SessionProofs**, from `SessionAssumption`. `IInv` is a conjunction of a predicate
on single slots (`CtxInv`), `LoopInv` (no loop during a handshake; elements of a TLS
session are handled only for the slot's own connection), `OneBindingPerUser` and
`SlotPcbAlive`. `CtxInv` strengthens the properties: a live slot that is
authenticated has TLS and was authenticated by its own pcb, and a live slot with a
jid is at least in the bind state and has the jid of its user. `TypeCorrect`,
`TlsContexts`, `Gates`, `Credentials`, `OneBinding` and `PcbsAlive` follow. `OpenConnections` and
`OrphanContexts` need no stronger invariant than `IInv` and each other (`Held`): an
action either changes one slot, whose pcb it keeps or closes (`SlotStep`), or it gives
the slot to a new connection, or it ends one. That `SlotPcbAlive` is part of `IInv` is
what makes the context of a slot that loses its pcb reachable.

**MucProofs**, from `MucAssumption`. `IInv` says of each room (`RoomInv`) that its
seats and bans are in order and that an unused slot is clean: without the last, a
new room could begin with the bans of an old one. `Allowed` collects what a handler
may leave in a slot, one lemma (`StoresStep`) shows that this keeps `IInv` and the
owner, and one lemma per action that its room is allowed. `TypeCorrect`, `Seating`,
`Naming`, `Bans`, `Saving` and the action property `Owning` follow.

**OfflineProofs**, from `OfflineAssumption`. `StoreInv` says that memory and disk
differ only during a drain, where a slot was emptied, and that its message has then
been given out; that no message is stored twice; and that what is in memory was given
out only before a cut. `WaitsInv` says that mail for a user whose session is `steady`
lies in the slots the drain has yet to visit. `TypeCorrect`, `Kept`, `Once` and `NoneWaits` follow.

**TxRingProofs**, from `TxAssumption`. `WireInOrder` and `ZeroMeansSent` speak of what
has left the card; the invariant adds what is still to leave it. `RingInOrder` says that
each descriptor the card owns is followed by the next one of its frame or by the first
of a later frame (`Followed`), and that what the card has read of a frame goes on at its
head (`HeadContinues`), as long as the ring was not filled. `CallCurrent` says that the
DD bit a call waits for is that of its own frame and that its buffers have not been
given back. As in `RxPathProofs`, arithmetic modulo the ring size is confined to lemmas
about the distance of two slots. `TypeCorrect`, `FramesInOrder` and `SentIfZero` follow.

**RosterProofs**, from `RosterAssumption`. To the properties the invariant adds that no
request waits twice (`WaitingUnique`: a request that a full table displaces is gone, not
still there in another slot), and that requests wait for the user whom their address
names (`WaitsForNamed`). The searches of the code through a table (`FirstIs`, the least
slot with a property) and the changes of one entry and of two (`subscription_update_roster`)
have a lemma each. `SubscriptionsAgree` is kept by an answer because both entries are
changed or the pair is `touched`; by an answer that is cut because it has changed no
list, or has touched the pair. `TypeCorrect`, `OneEntryEach`, `EndsAgree`,
`NoRequestLost`, `PresentAreTold` and `RestartKeepsTables` follow.

**StreamProofs**, from `StreamAssumption`: any script, any way to cut it, any size of
the buffer and width of the counters. `InStepOrOver` says that the callback is between
two elements of the script, with the state, the number of handled elements and the
counters that the client's view has there (`InStep(c)`), and that when it has returned
the next element is not complete; or that the stream is over; or that an element of
stream management was met as a pair of tags. `SessionNext` says how an element changes
whether the next one is sent in a session. The rest of the argument has three parts. `TextLayout` says where each element
lies in the text, which is a fold over the script. `EndFound` says that
`find_stanza_end`, given any prefix of an element and whatever follows it, finds its end
if it is there and nothing otherwise. `SinceGrows` and `Divide` are about counting, with
remainders. `Sends` shows that the flag is set wherever the count passes a multiple of
the interval or wraps (`DueIsFlagged`). `TypeCorrect`, `Framing`, `NothingLeft`,
`AckNumber` and `RequestDue` follow. The last one is the safety half of `AskedInTime`:
what is due is flagged. That what is flagged is sent is liveness, and left to TLC.

Induction over data: the theorems on induction take an operator as a parameter and
cannot be used here. Where the proofs need one, about the fold that `FlattenSeq` is, about
the first slot of a table and about division, they take the least counterexample
(`LeastOf`, from `WFMin` and `NatLessThanWellFounded`, which have none).

Only model-checked: liveness (`EveryFrameTaken`, `TcpTimerRuns`, `EveryCallReturns`,
`QueuedIsSent`, `EveryElementHandled`, `AskedInTime`), which is out of the prover's
reach, and the four violations.

## 5. Not modelled, and the plan

Each component that is left out is listed in `PROJECT.json` with the reason. Most of
the repository is vendored: lwIP, mbedTLS, yxml and their tests are more than nine
tenths of its lines. They are modelled only as far as this code uses them, so that the
lines the map covers are a small share of the repository, and roughly a third of the
kernel's and the server's own code. Of that code are left out: boot, PCI probing and
page tables (straight-line, run once), the register protocol of the two disk drivers,
the memory protection keys (what they guard is decided by the processor), service
discovery and the other queries that change nothing, private storage (a table like the
roster's, saved in the same way), the copying of attributes and payloads, formatting
and logging.

Limits of the models that a reader should know: lengths of payloads are not modelled,
so that neither the cutting of stored messages to 1023 bytes nor the parser's copy of
1023 bytes shows; a stream header that is cut after its name, or sent a second time, is
not modelled; the client of `Stream` escapes each '>' in an attribute and writes neither
CDATA nor comments, since the code takes the first '>' for the end of a tag; in `Roster`
a drain always succeeds (the send buffer that may refuse is in `Offline`); in `Roster`
and `Offline` a user has one session, as `OneBindingPerUser` of `Session` says of those
with a resource.

The plan, in order:

1. Proofs about what the violations leave: in `Timers` that a time-out due beyond the
   clock's range never expires; in `Offline` and `Muc` under which conditions
   `GivenIsSent` and `ToldIsSeated` do hold.
2. `Muc` and `Offline` over `Session`: the order of live and stored messages, payloads
   that are cut.
3. Private storage beside the roster; stream headers that are cut, in `Stream`.
4. The commands of the two disk drivers.

------------------------------ MODULE Persist ------------------------------
(***************************************************************************)
(* The on-disk store of the XMPP server (src/src/xmpp/xmpp_persist.c) over *)
(* the two disk backends (src/src/drivers/disk.c, ata.c, ahci.c).          *)
(*                                                                         *)
(* The five stores live in memory and have a region of sectors each; the   *)
(* header sector holds a checksum over all of them.  A handler that        *)
(* changes a store writes the region of that store and then the header.    *)
(* At boot the regions are loaded and kept only if the header's checksum   *)
(* is theirs; otherwise every store is emptied and the disk rewritten.     *)
(*                                                                         *)
(* The kernel is single-threaded and its interrupt handler touches no      *)
(* store, so a write is disturbed only by a disk error or by a power cut.  *)
(* Sectors are written one at a time, and a power cut keeps any subset of  *)
(* the sectors the drive has not flushed yet.                              *)
(***************************************************************************)
EXTENDS Naturals

CONSTANTS
    NRegions,   \* regions after the header: private, roster, rooms, offline, pending_subs
    Start,      \* first sector of each region (LBA_PRIVATE_START, ...)
    Count,      \* its number of sectors (LBA_PRIVATE_SECTORS, ...)
    Val,        \* what a sector can hold
    Zero,       \* what memset(.., 0, ..) leaves in it
    Crc(_),     \* the checksum of the stores
    CrcVal      \* the checksums there are

Regions == 1 .. NRegions

(* The regions follow the header and each other without overlap or gap. *)
Layout(n, start, count) ==
    /\ n \in Nat \ {0}
    /\ start \in [1 .. n -> Nat]
    /\ count \in [1 .. n -> Nat \ {0}]
    /\ start[1] = 1
    /\ \A q, r \in 1 .. n : q < r => start[q] + count[q] <= start[r]
    /\ \A l \in 1 .. start[n] + count[n] - 1 :
          \E r \in 1 .. n : l \in start[r] .. start[r] + count[r] - 1

End(r) == Start[r] + Count[r] - 1

(* The sectors of the regions, and the sectors of one. *)
Lbas == 1 .. End(NRegions)
LbasOf(r) == Start[r] .. End(r)

(* The five stores laid out as their regions. *)
Stores == [Lbas -> Val]
EmptyStores == [l \in Lbas |-> Zero]

ASSUME PersistAssumption ==
    /\ Layout(NRegions, Start, Count)
    /\ Zero \in Val

(* Two different contents of the stores have different checksums.  The     *)
(* 32-bit CRC of the code only makes a collision unlikely.                 *)
ASSUME CrcAssumption ==
    /\ \A d \in Stores : Crc(d) \in CrcVal
    /\ \A d, e \in Stores : Crc(d) = Crc(e) => d = e

(* A write has one target: a region, or the header in sector 0. *)
HeaderTarget == 0
Targets == 0 .. NRegions
FirstLba(t) == IF t = HeaderTarget THEN 0 ELSE Start[t]
LastLba(t) == IF t = HeaderTarget THEN 0 ELSE End(t)

(* magic: both hdr.magic and hdr.version are what the code writes.  image  *)
(* is history: the stores whose checksum the header carries.               *)
Header == [magic : BOOLEAN, crc : CrcVal, image : Stores]

(* disk_init takes the AHCI port it finds, or else the ATA drive. *)
Backends == {"ata", "ahci"}

VARIABLES
    backend, \* "ata" or "ahci": the driver disk_init finds at every boot
    ram,     \* private_store, roster_store, rooms, offline_store, pending_subs
    disk,    \* the regions as the drive reads them back
    hdr,     \* the header as the drive reads it back
    mdisk,   \* the regions on the medium, without the drive's cache
    mhdr,    \* the header on the medium
    pc,      \* where the kernel is: "boot", "idle", "write", "flush"
    fresh,   \* the write belongs to fresh_start, not to a save
    tgt,     \* target of the write under way
    lba,     \* its next sector
    failed,  \* history: targets whose last write returned -1 or was rejected unnoticed
    stale,   \* history: the last flush failed, whatever the driver made of it
    kept     \* history, while booting: the stores at the power cut, or {} when the cut
             \* hit a save or came after an error of the drive

vars == <<backend, ram, disk, hdr, mdisk, mhdr, pc, fresh, tgt, lba, failed, stale, kept>>

----------------------------------------------------------------------------
(* Checksum, header and the two ways a write can go on.                    *)

(* Mutant: the last region was added to the disk and not to the checksum. *)
CrcWithoutLastRegion(stores) ==
    Crc([l \in Lbas |-> IF l \in LbasOf(NRegions) THEN Zero ELSE stores[l]])

(* The checksum covers every region. *)
compute_full_crc(stores) == Crc([l \in Lbas |-> stores[l]])

(* The header write_header puts on the disk for these stores. *)
NewHeader(stores) ==
    [magic |-> TRUE, crc |-> compute_full_crc(stores), image |-> stores]

(* try_load accepts the disk: the header is ours and so is its checksum. *)
Loadable(d, h) == h.magic /\ h.crc = compute_full_crc(d)

(* Between writes their locals do not exist. *)
NoWrite ==
    /\ fresh' = FALSE
    /\ tgt' = HeaderTarget
    /\ lba' = 0

(* The write of target t starts at its first sector. *)
BeginWrite(t) ==
    /\ pc' = "write"
    /\ tgt' = t
    /\ lba' = FirstLba(t)

(* Mutant: a save returns without rewriting the header. *)
NextTargetNoHeader(ok) ==
    IF tgt = HeaderTarget \/ ~fresh THEN {} ELSE {(tgt + 1) % (NRegions + 1)}

(* The target written after tgt, {} for none.  A save goes on to the       *)
(* header when its region was written; fresh_start ignores errors and      *)
(* writes the regions in order and then the header.                        *)
NextTarget(ok) ==
    CASE tgt = HeaderTarget -> {}
      [] fresh /\ tgt # HeaderTarget -> {(tgt + 1) % (NRegions + 1)}
      [] ~fresh /\ tgt # HeaderTarget -> IF ok THEN {HeaderTarget} ELSE {}

(* disk_write_sectors returns 0 (ok) or -1 to the code that called it. *)
WriteReturns(ok) ==
    /\ failed' = IF ok THEN failed ELSE failed \cup {tgt}
    /\ \/ /\ NextTarget(ok) = {}
          /\ pc' = "idle"
          /\ NoWrite
       \/ \E t \in NextTarget(ok) : BeginWrite(t) /\ UNCHANGED fresh

----------------------------------------------------------------------------
(* Actions.                                                                *)

(* The machine is switched on with an unformatted disk. *)
Init ==
    /\ backend \in Backends
    /\ ram = EmptyStores
    /\ disk \in Stores
    /\ hdr = [magic |-> FALSE, crc |-> Crc(EmptyStores), image |-> EmptyStores]
    /\ mdisk = disk
    /\ mhdr = hdr
    /\ pc = "boot"
    /\ fresh = FALSE
    /\ tgt = HeaderTarget
    /\ lba = 0
    /\ failed = Targets
    /\ stale = FALSE
    /\ kept = {}

(* A handler changes store r and calls its xmpp_persist_save function,     *)
(* which copies the store to a buffer and writes the region.               *)
xmpp_persist_save(r) ==
    /\ pc = "idle"
    /\ \E v \in [LbasOf(r) -> Val] :
          ram' = [l \in Lbas |-> IF l \in LbasOf(r) THEN v[l] ELSE ram[l]]
    /\ fresh' = FALSE
    /\ BeginWrite(r)
    /\ UNCHANGED <<backend, disk, hdr, mdisk, mhdr, failed, stale, kept>>

(* One sector of the target reaches the drive. *)
WriteSector ==
    /\ pc = "write"
    /\ IF tgt = HeaderTarget
       THEN /\ hdr' = NewHeader(ram)
            /\ UNCHANGED disk
       ELSE /\ disk' = [disk EXCEPT ![lba] = ram[lba]]
            /\ UNCHANGED hdr
    /\ IF lba < LastLba(tgt)
       THEN lba' = lba + 1 /\ pc' = "write" /\ UNCHANGED failed
       ELSE lba' = lba /\ pc' = "flush" /\ failed' = failed \ {tgt}
    /\ UNCHANGED <<backend, ram, mdisk, mhdr, fresh, tgt, stale, kept>>

(* The drive ends the last sector with an error.  The ATA driver looks for *)
(* ERR before it sends a sector, so that it never sees this one.           *)
LastSectorRejected ==
    /\ pc = "write"
    /\ backend = "ata"
    /\ lba = LastLba(tgt)
    /\ failed' = failed \cup {tgt}
    /\ pc' = "flush"
    /\ UNCHANGED <<backend, ram, disk, hdr, mdisk, mhdr, fresh, tgt, lba, stale, kept>>

(* The drive stops answering or reports an error before the target is      *)
(* complete.                                                               *)
WriteFails ==
    /\ pc = "write"
    /\ WriteReturns(FALSE)
    /\ UNCHANGED <<backend, ram, disk, hdr, mdisk, mhdr, stale, kept>>

(* Every write ends with a cache flush. *)
FlushOk ==
    /\ pc = "flush"
    /\ mdisk' = disk
    /\ mhdr' = hdr
    /\ stale' = FALSE
    /\ WriteReturns(TRUE)
    /\ UNCHANGED <<backend, ram, disk, hdr, kept>>

(* What disk_write_sectors may return when the flush fails.  It is only a  *)
(* warning to the AHCI driver.  To the ATA driver it is an error if it     *)
(* times out, and goes unnoticed if the drive ends it with ERR: only BSY   *)
(* is waited for.                                                          *)
FlushResults == IF backend = "ahci" THEN {TRUE} ELSE BOOLEAN

FlushFails ==
    /\ pc = "flush"
    /\ stale' = TRUE
    /\ \E ok \in FlushResults : WriteReturns(ok)
    /\ UNCHANGED <<backend, ram, disk, hdr, mdisk, mhdr, kept>>

(* try_load accepts what it reads. *)
LoadAccepted ==
    /\ pc = "boot"
    /\ Loadable(disk, hdr)
    /\ ram' = disk
    /\ pc' = "idle"
    /\ failed' = {}
    /\ kept' = {}
    /\ UNCHANGED <<backend, disk, hdr, mdisk, mhdr, fresh, tgt, lba, stale>>

(* fresh_start: the stores are emptied and the disk is written from the    *)
(* first region on.                                                        *)
fresh_start ==
    /\ ram' = EmptyStores
    /\ fresh' = TRUE
    /\ failed' = Targets
    /\ kept' = {}
    /\ BeginWrite(1)
    /\ UNCHANGED <<backend, disk, hdr, mdisk, mhdr, stale>>

(* try_load reads everything and rejects it. *)
LoadRejected ==
    /\ pc = "boot"
    /\ ~Loadable(disk, hdr)
    /\ fresh_start

(* A sector that try_load wants cannot be read. *)
LoadReadError ==
    /\ pc = "boot"
    /\ fresh_start

(* Of the sectors in the drive's cache, those in K reach the medium. *)
Surviving(K) ==
    [l \in Lbas |-> IF l \in K THEN disk[l] ELSE mdisk[l]]

(* The power goes out and comes back; memory starts as zeros. *)
PowerLoss ==
    /\ \E K \in SUBSET {l \in Lbas : disk[l] # mdisk[l]} : disk' = Surviving(K)
    /\ hdr' \in {hdr, mhdr}
    /\ mdisk' = disk'
    /\ mhdr' = hdr'
    /\ kept' = IF pc = "idle" /\ failed = {} /\ ~stale THEN {ram} ELSE {}
    /\ ram' = EmptyStores
    /\ pc' = "boot"
    /\ stale' = FALSE
    /\ failed' = Targets
    /\ NoWrite
    /\ UNCHANGED backend

Next ==
    \/ \E r \in Regions : xmpp_persist_save(r)
    \/ WriteSector
    \/ LastSectorRejected
    \/ WriteFails
    \/ FlushOk
    \/ FlushFails
    \/ LoadAccepted
    \/ LoadRejected
    \/ LoadReadError
    \/ PowerLoss

Spec == Init /\ [][Next]_vars

----------------------------------------------------------------------------
(* The inductive invariant behind the safety properties.                   *)

(* A header with our magic carries the checksum of the stores it was       *)
(* computed from.                                                          *)
HeadersHonest ==
    /\ hdr.magic => hdr.crc = Crc(hdr.image)
    /\ mhdr.magic => mhdr.crc = Crc(mhdr.image)

(* No write is under way between the handlers and at boot. *)
NoWriteUnderWay ==
    pc \in {"idle", "boot"} => tgt = HeaderTarget /\ lba = 0 /\ fresh = FALSE

(* The drive holds what memory holds, for every region whose last write    *)
(* reached it, and up to lba for the one being written.                    *)
RegionsWritten ==
    /\ pc # "boot" => \A r \in Regions : r \notin failed /\ r # tgt =>
                         \A l \in LbasOf(r) : disk[l] = ram[l]
    /\ pc = "write" /\ tgt # HeaderTarget =>
          \A l \in LbasOf(tgt) : l < lba => disk[l] = ram[l]
    /\ pc = "flush" /\ tgt # HeaderTarget /\ tgt \notin failed =>
          \A l \in LbasOf(tgt) : disk[l] = ram[l]

(* The header is that of the stores when nothing failed, unnoticed or not. *)
HeaderCurrent ==
    /\ pc = "flush" /\ tgt = HeaderTarget /\ tgt \notin failed => hdr = NewHeader(ram)
    /\ pc = "idle" /\ failed = {} => hdr = NewHeader(ram)

(* Nothing is left in the drive's cache after a flush, and at boot. *)
MediumCurrent ==
    /\ pc = "boot" => mdisk = disk /\ mhdr = hdr
    /\ pc = "idle" /\ failed = {} /\ ~stale => mdisk = disk /\ mhdr = hdr

----------------------------------------------------------------------------
(* Properties.                                                             *)

(* Each variable has values of its type, and a write under way is within   *)
(* its target.                                                             *)
TypeOK ==
    /\ backend \in Backends
    /\ ram \in Stores
    /\ disk \in Stores
    /\ mdisk \in Stores
    /\ hdr \in Header
    /\ mhdr \in Header
    /\ pc \in {"boot", "idle", "write", "flush"}
    /\ fresh \in BOOLEAN
    /\ tgt \in Targets
    /\ lba \in FirstLba(tgt) .. LastLba(tgt)
    /\ failed \in SUBSET Targets
    /\ stale \in BOOLEAN
    /\ kept \in SUBSET Stores

(* A boot that accepts the disk (try_load returns 1) restores all five     *)
(* stores exactly as they were in memory when the header it read was       *)
(* written, whatever was torn, lost in the cache or failed before.         *)
LoadIsSnapshot ==
    [][pc = "boot" /\ pc' = "idle" => ram' = hdr.image]_vars

(* A power cut between two saves costs nothing when the drive has carried  *)
(* out the last write of every target and the last flush: the next boot    *)
(* finds a disk that try_load accepts and that holds the stores as they    *)
(* were, whatever failed earlier.  With AHCI these are the writes that     *)
(* were reported as done without a warning.  With ATA they are fewer: its  *)
(* driver returns 0 also when the last sector or the flush ends with ERR.  *)
NothingLostBetweenSaves ==
    pc = "boot" => \A s \in kept : Loadable(disk, hdr) /\ disk = s

(* All of it is inductive. *)
IInv ==
    /\ TypeOK
    /\ HeadersHonest
    /\ NoWriteUnderWay
    /\ RegionsWritten
    /\ HeaderCurrent
    /\ MediumCurrent
    /\ NothingLostBetweenSaves

(* The abstract store, as the disk implements it. *)
serving == pc # "boot"
loadable == Loadable(disk, hdr)

Snap == INSTANCE SnapshotStore
            WITH up <- serving, current <- ram, image <- hdr.image,
                 safe <- mhdr.image, intact <- loadable

(* The sectors, the header and the checksum implement a store that is      *)
(* restored as a whole or not at all.                                      *)
ImplementsSnapshotStore == Snap!SnapSpec
============================================================================

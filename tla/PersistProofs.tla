---------------------------- MODULE PersistProofs ----------------------------
(***************************************************************************)
(* Proofs about Persist, for any layout of the regions, any contents and   *)
(* either disk backend.                                                    *)
(***************************************************************************)
EXTENDS Persist, TLAPS

(* The sectors of a region are sectors of the disk, a sector is in one     *)
(* region only, and targets have a first and a last sector.                *)
LEMMA LayoutFacts ==
    /\ NRegions \in Nat \ {0}
    /\ \A r \in Regions : /\ Start[r] \in Nat \ {0}
                          /\ Count[r] \in Nat \ {0}
                          /\ End(r) \in Nat
                          /\ Start[r] <= End(r)
                          /\ LbasOf(r) \subseteq Lbas
    /\ \A q, r \in Regions : q # r => LbasOf(q) \cap LbasOf(r) = {}
<1>1. NRegions \in Nat \ {0} /\ NRegions \in Regions
  BY PersistAssumption DEF Layout, Regions
<1>2. ASSUME NEW r \in Regions
      PROVE  /\ Start[r] \in Nat \ {0}
             /\ Count[r] \in Nat \ {0}
             /\ End(r) \in Nat
             /\ Start[r] <= End(r)
  <2>1. Start[r] \in Nat /\ Count[r] \in Nat \ {0}
    BY PersistAssumption DEF Layout, Regions
  <2>2. Start[r] >= 1
    <3>1. CASE r = 1
      BY <3>1, PersistAssumption DEF Layout
    <3>2. CASE r # 1
      <4>1. 1 \in 1 .. NRegions /\ 1 < r
        BY <3>2, <1>1 DEF Regions
      <4>2. Start[1] + Count[1] <= Start[r] /\ Count[1] \in Nat \ {0} /\ Start[1] = 1
        BY <4>1, PersistAssumption DEF Layout, Regions
      <4>3. QED
        BY <4>2, <2>1
    <3>3. QED
      BY <3>1, <3>2
  <2>3. QED
    BY <2>1, <2>2 DEF End
<1>3. ASSUME NEW r \in Regions
      PROVE  LbasOf(r) \subseteq Lbas
  <2>1. End(r) <= End(NRegions)
    <3>1. CASE r = NRegions
      BY <3>1, <1>2
    <3>2. CASE r # NRegions
      <4>1. Start[r] + Count[r] <= Start[NRegions]
        BY <3>2, <1>1, PersistAssumption DEF Layout, Regions
      <4>2. Start[r] \in Nat /\ Count[r] \in Nat \ {0} /\ Start[NRegions] \in Nat /\ Count[NRegions] \in Nat \ {0}
        BY <1>1, <1>2
      <4>3. QED
        BY <4>1, <4>2 DEF End
    <3>3. QED
      BY <3>1, <3>2
  <2>2. QED
    BY <2>1, <1>1, <1>2 DEF LbasOf, Lbas
<1>4. ASSUME NEW q \in Regions, NEW r \in Regions, q # r
      PROVE  LbasOf(q) \cap LbasOf(r) = {}
  <2>1. q < r \/ r < q
    BY <1>1, <1>4 DEF Regions
  <2>2. Start[q] + Count[q] <= Start[r] \/ Start[r] + Count[r] <= Start[q]
    BY <2>1, PersistAssumption DEF Layout, Regions
  <2>3. Start[q] \in Nat /\ Count[q] \in Nat /\ Start[r] \in Nat /\ Count[r] \in Nat
    BY <1>2
  <2>4. ASSUME NEW l \in LbasOf(q), l \in LbasOf(r)
        PROVE  FALSE
    <3>1. /\ l \in Nat
          /\ Start[q] <= l /\ l <= Start[q] + Count[q] - 1
          /\ Start[r] <= l /\ l <= Start[r] + Count[r] - 1
      BY <2>3, <2>4 DEF LbasOf, End
    <3>2. QED
      BY <2>2, <2>3, <3>1
  <2>5. QED
    BY <2>4
<1>5. QED
  BY <1>1, <1>2, <1>3, <1>4

(* Every sector after the header is in a region. *)
LEMMA RegionsCover == \A l \in Lbas : \E r \in Regions : l \in LbasOf(r)
BY PersistAssumption DEF Layout, Regions, Lbas, LbasOf, End

(* compute_full_crc is a checksum without collisions. *)
LEMMA CrcFacts ==
    /\ \A d \in Stores : compute_full_crc(d) = Crc(d) /\ Crc(d) \in CrcVal
    /\ \A d, e \in Stores : Crc(d) = Crc(e) => d = e
    /\ EmptyStores \in Stores
<1>1. ASSUME NEW d \in Stores
      PROVE  [l \in Lbas |-> d[l]] = d
  BY DEF Stores
<1>2. EmptyStores \in Stores
  BY PersistAssumption DEF EmptyStores, Stores
<1>3. QED
  BY <1>1, <1>2, CrcAssumption DEF compute_full_crc

(* A write that begins has a target and a sector of it. *)
LEMMA TargetFacts ==
    ASSUME NEW t \in Targets
    PROVE  /\ FirstLba(t) \in Nat
           /\ LastLba(t) \in Nat
           /\ FirstLba(t) <= LastLba(t)
           /\ t # HeaderTarget => t \in Regions /\ FirstLba(t) = Start[t] /\ LastLba(t) = End(t)
           /\ t = HeaderTarget => FirstLba(t) = 0 /\ LastLba(t) = 0
BY LayoutFacts DEF Targets, HeaderTarget, FirstLba, LastLba, Regions

(* The sectors a write starts with, and the one it has when there is none. *)
LEMMA WriteStarts ==
    /\ HeaderTarget \in Targets
    /\ 0 \in FirstLba(HeaderTarget) .. LastLba(HeaderTarget)
    /\ \A t \in Targets : FirstLba(t) \in FirstLba(t) .. LastLba(t)
<1>1. HeaderTarget \in Targets
  BY LayoutFacts DEF Targets, HeaderTarget
<1>2. FirstLba(HeaderTarget) = 0 /\ LastLba(HeaderTarget) = 0
  BY DEF FirstLba, LastLba
<1>3. ASSUME NEW t \in Targets
      PROVE  FirstLba(t) \in FirstLba(t) .. LastLba(t)
  BY TargetFacts
<1>4. QED
  BY <1>1, <1>2, <1>3

(* Every continuation of a write is a target. *)
LEMMA NextTargetFacts ==
    ASSUME tgt \in Targets, fresh \in BOOLEAN, NEW ok \in BOOLEAN, NEW t \in NextTarget(ok)
    PROVE  t \in Targets
<1>1. NRegions \in Nat \ {0}
  BY LayoutFacts
<1>2. (tgt + 1) % (NRegions + 1) \in Targets
  BY <1>1 DEF Targets
<1>3. QED
  BY <1>1, <1>2 DEF NextTarget, Targets, HeaderTarget

------------------------------------------------------------------------------
(* Type correctness.                                                       *)

LEMMA InitTypeOK == Init => TypeOK
<1> SUFFICES ASSUME Init PROVE TypeOK
  OBVIOUS
<1>1. ram \in Stores /\ disk \in Stores /\ mdisk \in Stores
  BY CrcFacts DEF Init
<1>2. hdr \in Header /\ mhdr \in Header
  BY CrcFacts DEF Init, Header
<1>3. tgt \in Targets /\ lba \in FirstLba(tgt) .. LastLba(tgt)
  BY WriteStarts DEF Init
<1>4. QED
  BY <1>1, <1>2, <1>3 DEF Init, TypeOK

(* The header of the stores in memory is a header. *)
LEMMA NewHeaderFacts ==
    ASSUME ram \in Stores
    PROVE  /\ NewHeader(ram) \in Header
           /\ NewHeader(ram).magic = TRUE
           /\ NewHeader(ram).crc = Crc(ram)
           /\ NewHeader(ram).image = ram
BY CrcFacts DEF NewHeader, Header

(* What the caller of a write does next keeps the types. *)
LEMMA WriteReturnsType ==
    ASSUME TypeOK, NEW ok \in BOOLEAN, WriteReturns(ok)
    PROVE  /\ pc' \in {"idle", "write"}
           /\ fresh' \in BOOLEAN
           /\ tgt' \in Targets
           /\ lba' \in FirstLba(tgt') .. LastLba(tgt')
           /\ failed' \in SUBSET Targets
<1>1. failed' \in SUBSET Targets
  BY DEF TypeOK, WriteReturns
<1>3. CASE NextTarget(ok) = {}
  <2>1. pc' = "idle" /\ NoWrite
    BY <1>3 DEF WriteReturns
  <2>2. QED
    BY <1>1, <2>1, WriteStarts DEF NoWrite
<1>4. ASSUME NEW t \in NextTarget(ok), BeginWrite(t), fresh' = fresh
      PROVE  /\ pc' \in {"idle", "write"}
             /\ fresh' \in BOOLEAN
             /\ tgt' \in Targets
             /\ lba' \in FirstLba(tgt') .. LastLba(tgt')
  <2>1. t \in Targets
    BY NextTargetFacts DEF TypeOK
  <2>2. QED
    BY <2>1, <1>4, WriteStarts DEF BeginWrite, TypeOK
<1>5. QED
  BY <1>1, <1>3, <1>4 DEF WriteReturns

LEMMA NextTypeOK == TypeOK /\ [Next]_vars => TypeOK'
<1> SUFFICES ASSUME TypeOK, [Next]_vars
             PROVE  TypeOK'
  OBVIOUS
<1>0. HeaderTarget \in Targets /\ 1 \in Targets /\ Regions \subseteq Targets
  BY LayoutFacts DEF Targets, HeaderTarget, Regions
<1>1. ASSUME NEW r \in Regions, xmpp_persist_save(r)
      PROVE  TypeOK'
  <2>1. ram' \in Stores
    <3>1. PICK v \in [LbasOf(r) -> Val] :
              ram' = [l \in Lbas |-> IF l \in LbasOf(r) THEN v[l] ELSE ram[l]]
      BY <1>1 DEF xmpp_persist_save
    <3>2. QED
      BY <3>1 DEF Stores, TypeOK
  <2>2. r \in Targets
    BY <1>0
  <2>3. tgt' \in Targets /\ lba' \in FirstLba(tgt') .. LastLba(tgt') /\ pc' = "write"
    BY <1>1, <2>2, WriteStarts DEF xmpp_persist_save, BeginWrite
  <2>4. QED
    BY <1>1, <2>1, <2>3 DEF xmpp_persist_save, TypeOK
<1>2. CASE WriteSector
  <2>1. hdr' \in Header
    BY <1>2, NewHeaderFacts DEF WriteSector, TypeOK
  <2>2. disk' \in Stores
    <3>1. CASE tgt = HeaderTarget
      BY <1>2, <3>1 DEF WriteSector, TypeOK
    <3>2. CASE tgt # HeaderTarget
      <4>1. tgt \in Regions /\ lba \in LbasOf(tgt)
        BY <3>2, TargetFacts DEF TypeOK, LbasOf
      <4>2. lba \in Lbas
        BY <4>1, LayoutFacts
      <4>3. QED
        BY <1>2, <3>2, <4>2 DEF WriteSector, TypeOK, Stores
    <3>3. QED
      BY <3>1, <3>2
  <2>3. lba' \in FirstLba(tgt') .. LastLba(tgt') /\ pc' \in {"write", "flush"}
    BY <1>2, TargetFacts DEF WriteSector, TypeOK
  <2>4. failed' \in SUBSET Targets
    BY <1>2 DEF WriteSector, TypeOK
  <2>5. QED
    BY <1>2, <2>1, <2>2, <2>3, <2>4 DEF WriteSector, TypeOK
<1>2a. CASE LastSectorRejected
  BY <1>2a DEF LastSectorRejected, TypeOK
<1>3. CASE WriteFails
  BY <1>3, WriteReturnsType DEF WriteFails, TypeOK
<1>4. CASE FlushOk
  BY <1>4, WriteReturnsType DEF FlushOk, TypeOK
<1>5. CASE FlushFails
  <2>1. PICK ok \in BOOLEAN : WriteReturns(ok)
    BY <1>5 DEF FlushFails, FlushResults
  <2>2. QED
    BY <1>5, <2>1, WriteReturnsType DEF FlushFails, TypeOK
<1>6. CASE LoadAccepted
  BY <1>6 DEF LoadAccepted, TypeOK
<1>7. ASSUME fresh_start
      PROVE  TypeOK'
  <2>1. tgt' \in Targets /\ lba' \in FirstLba(tgt') .. LastLba(tgt') /\ pc' = "write"
    BY <1>0, <1>7, WriteStarts DEF fresh_start, BeginWrite
  <2>2. QED
    BY <1>7, <2>1, CrcFacts DEF fresh_start, TypeOK
<1>8. CASE LoadRejected
  BY <1>7, <1>8 DEF LoadRejected
<1>9. CASE LoadReadError
  BY <1>7, <1>9 DEF LoadReadError
<1>10. CASE PowerLoss
  <2>1. disk' \in Stores
    <3>1. PICK K : disk' = Surviving(K)
      BY <1>10 DEF PowerLoss
    <3>2. QED
      BY <3>1 DEF Surviving, Stores, TypeOK
  <2>2. tgt' \in Targets /\ lba' \in FirstLba(tgt') .. LastLba(tgt') /\ fresh' = FALSE
    BY <1>10, WriteStarts DEF PowerLoss, NoWrite
  <2>3. kept' \in SUBSET Stores
    BY <1>10 DEF PowerLoss, TypeOK
  <2>4. QED
    BY <1>10, <2>1, <2>2, <2>3, CrcFacts DEF PowerLoss, TypeOK
<1>11. CASE UNCHANGED vars
  BY <1>11 DEF vars, TypeOK
<1>12. QED
  BY <1>1, <1>2, <1>2a, <1>3, <1>4, <1>5, <1>6, <1>8, <1>9, <1>10, <1>11 DEF Next

(* The variables of the store keep their types in every behaviour. *)
THEOREM TypeCorrect == Spec => []TypeOK
BY InitTypeOK, NextTypeOK, PTL DEF Spec

------------------------------------------------------------------------------
(* The inductive invariant, one conjunct at a time.                        *)

LEMMA InitIInv == Init => IInv
<1> SUFFICES ASSUME Init PROVE IInv
  OBVIOUS
<1>1. TypeOK
  BY InitTypeOK
<1>2. ~hdr.magic /\ ~mhdr.magic /\ pc = "boot" /\ kept = {} /\ mdisk = disk /\ mhdr = hdr
  BY DEF Init
<1>3. HeadersHonest /\ MediumCurrent /\ NothingLostBetweenSaves
  BY <1>2 DEF HeadersHonest, MediumCurrent, NothingLostBetweenSaves
<1>4. NoWriteUnderWay /\ RegionsWritten /\ HeaderCurrent
  BY DEF Init, NoWriteUnderWay, RegionsWritten, HeaderCurrent
<1>5. QED
  BY <1>1, <1>3, <1>4 DEF IInv

(* Every header that is written carries the checksum of the stores. *)
LEMMA NextHeadersHonest == TypeOK /\ HeadersHonest /\ [Next]_vars => HeadersHonest'
<1> SUFFICES ASSUME TypeOK, HeadersHonest, [Next]_vars
             PROVE  HeadersHonest'
  OBVIOUS
<1>1. CASE WriteSector
  <2>1. hdr' = hdr \/ hdr' = NewHeader(ram)
    BY <1>1 DEF WriteSector
  <2>2. mhdr' = mhdr
    BY <1>1 DEF WriteSector
  <2>3. QED
    BY <2>1, <2>2, NewHeaderFacts DEF HeadersHonest, TypeOK
<1>2. CASE PowerLoss
  BY <1>2 DEF PowerLoss, HeadersHonest
<1>3. CASE FlushOk
  BY <1>3 DEF FlushOk, HeadersHonest
<1>4. CASE hdr' = hdr /\ mhdr' = mhdr
  BY <1>4 DEF HeadersHonest
<1>5. QED
  BY <1>1, <1>2, <1>3, <1>4
     DEF Next, vars, xmpp_persist_save, LastSectorRejected, WriteFails, FlushFails, LoadAccepted, LoadRejected,
         LoadReadError, fresh_start

LEMMA NextNoWriteUnderWay == NoWriteUnderWay /\ [Next]_vars => NoWriteUnderWay'
<1> SUFFICES ASSUME NoWriteUnderWay, [Next]_vars
             PROVE  NoWriteUnderWay'
  OBVIOUS
<1>1. ASSUME NEW ok, WriteReturns(ok)
      PROVE  NoWriteUnderWay'
  BY <1>1 DEF WriteReturns, NoWrite, BeginWrite, NoWriteUnderWay
<1>2. QED
  BY <1>1 DEF Next, vars, xmpp_persist_save, WriteSector, LastSectorRejected, WriteFails, FlushOk, FlushFails,
              LoadAccepted, LoadRejected, LoadReadError, fresh_start, PowerLoss, BeginWrite,
              NoWrite, NoWriteUnderWay

(* A return of the write keeps what the drive holds: the target is in      *)
(* failed, or it has been written to its end.                              *)
LEMMA ReturnsRegionsWritten ==
    ASSUME TypeOK, RegionsWritten, NEW ok \in BOOLEAN, WriteReturns(ok),
           pc \in {"write", "flush"}, ok => pc = "flush", ram' = ram, disk' = disk
    PROVE  RegionsWritten'
<1>1. ASSUME NEW r \in Regions, r \notin failed', NEW l \in LbasOf(r)
      PROVE  disk[l] = ram[l]
  <2>1. CASE r # tgt
    <3>1. r \notin failed
      BY <1>1, <2>1 DEF WriteReturns
    <3>2. QED
      BY <2>1, <3>1 DEF RegionsWritten
  <2>2. CASE r = tgt
    <3>1. ok /\ pc = "flush" /\ tgt \notin failed
      BY <1>1, <2>2 DEF WriteReturns
    <3>2. tgt # HeaderTarget
      BY <2>2, LayoutFacts DEF Regions, HeaderTarget
    <3>3. QED
      BY <2>2, <3>1, <3>2 DEF RegionsWritten
  <2>3. QED
    BY <2>1, <2>2
<1>2. pc' # "flush"
  BY DEF WriteReturns, BeginWrite
<1>3. ASSUME pc' = "write", tgt' # HeaderTarget, NEW l \in LbasOf(tgt'), l < lba'
      PROVE  FALSE
  <2>1. PICK t \in NextTarget(ok) : BeginWrite(t)
    BY <1>3 DEF WriteReturns
  <2>2. t \in Targets /\ t # HeaderTarget
    BY <1>3, <2>1, NextTargetFacts DEF BeginWrite, TypeOK
  <2>3. lba' = Start[t] /\ l \in Start[t] .. End(t) /\ t \in Regions
    BY <1>3, <2>1, <2>2, TargetFacts DEF BeginWrite, LbasOf
  <2>4. QED
    BY <1>3, <2>3, LayoutFacts
<1>4. QED
  BY <1>1, <1>2, <1>3 DEF RegionsWritten

LEMMA NextRegionsWritten ==
    TypeOK /\ NoWriteUnderWay /\ RegionsWritten /\ [Next]_vars => RegionsWritten'
<1> SUFFICES ASSUME TypeOK, NoWriteUnderWay, RegionsWritten, [Next]_vars
             PROVE  RegionsWritten'
  OBVIOUS
<1>1. ASSUME NEW r \in Regions, xmpp_persist_save(r)
      PROVE  RegionsWritten'
  <2>1. PICK v \in [LbasOf(r) -> Val] :
            ram' = [l \in Lbas |-> IF l \in LbasOf(r) THEN v[l] ELSE ram[l]]
    BY <1>1 DEF xmpp_persist_save
  <2>2. pc = "idle" /\ disk' = disk /\ failed' = failed /\ tgt' = r /\ lba' = FirstLba(r) /\ pc' = "write"
    BY <1>1 DEF xmpp_persist_save, BeginWrite
  <2>3. tgt = HeaderTarget /\ r # HeaderTarget /\ r \in Targets
    BY <2>2, LayoutFacts DEF NoWriteUnderWay, Regions, Targets, HeaderTarget
  <2>4. ASSUME NEW q \in Regions, q \notin failed, q # r, NEW l \in LbasOf(q)
        PROVE  disk'[l] = ram'[l]
    <3>1. l \in Lbas /\ l \notin LbasOf(r)
      BY <2>4, LayoutFacts
    <3>2. q # tgt
      BY <2>3, LayoutFacts DEF Regions, HeaderTarget
    <3>3. disk[l] = ram[l]
      BY <2>2, <2>4, <3>2 DEF RegionsWritten
    <3>4. QED
      BY <2>1, <2>2, <3>1, <3>3
  <2>5. ASSUME NEW l \in LbasOf(r), l < lba'
        PROVE  FALSE
    <3>1. lba' = Start[r] /\ l \in Start[r] .. End(r)
      BY <2>2, <2>3, TargetFacts DEF LbasOf
    <3>2. QED
      BY <2>5, <3>1, LayoutFacts
  <2>6. QED
    BY <2>2, <2>4, <2>5 DEF RegionsWritten
<1>2. CASE WriteSector
  <2>1. /\ ram' = ram /\ tgt' = tgt /\ pc = "write" /\ pc' \in {"write", "flush"}
        /\ \A r \in Regions : r # tgt /\ r \notin failed' => r \notin failed
    BY <1>2 DEF WriteSector
  <2>2. CASE tgt = HeaderTarget
    <3>1. disk' = disk
      BY <1>2, <2>2 DEF WriteSector
    <3>2. QED
      BY <2>1, <2>2, <3>1 DEF RegionsWritten
  <2>3. CASE tgt # HeaderTarget
    <3>1. /\ disk' = [disk EXCEPT ![lba] = ram[lba]]
          /\ tgt \in Regions
          /\ lba \in LbasOf(tgt)
          /\ LastLba(tgt) = End(tgt)
      BY <1>2, <2>3, TargetFacts DEF WriteSector, TypeOK, LbasOf
    <3>2. lba \in Nat /\ End(tgt) \in Nat /\ Start[tgt] \in Nat
      BY <3>1, LayoutFacts DEF LbasOf
    <3>3. ASSUME NEW r \in Regions, r \notin failed', r # tgt, NEW l \in LbasOf(r)
          PROVE  disk'[l] = ram[l]
      <4>1. l \in Lbas /\ l # lba
        BY <3>1, <3>3, LayoutFacts
      <4>2. disk[l] = ram[l]
        BY <2>1, <3>3 DEF RegionsWritten
      <4>3. QED
        BY <3>1, <4>1, <4>2 DEF TypeOK, Stores
    <3>4. ASSUME NEW l \in LbasOf(tgt), l <= lba
          PROVE  disk'[l] = ram[l]
      <4>1. l \in Lbas /\ l \in Nat
        BY <3>1, <3>2, LayoutFacts DEF LbasOf
      <4>2. CASE l = lba
        BY <3>1, <4>1, <4>2 DEF TypeOK, Stores
      <4>3. CASE l # lba
        <5>1. l < lba
          BY <3>2, <3>4, <4>1, <4>3
        <5>2. disk[l] = ram[l]
          BY <2>1, <2>3, <5>1 DEF RegionsWritten
        <5>3. QED
          BY <3>1, <4>1, <4>3, <5>2 DEF TypeOK, Stores
      <4>4. QED
        BY <4>2, <4>3
    <3>5. CASE lba < LastLba(tgt)
      <4>1. lba' = lba + 1 /\ pc' = "write"
        BY <1>2, <3>5 DEF WriteSector
      <4>2. ASSUME NEW l \in LbasOf(tgt), l < lba + 1
            PROVE  disk'[l] = ram[l]
        <5>1. l \in Nat
          BY <3>2 DEF LbasOf
        <5>2. QED
          BY <3>2, <3>4, <4>2, <5>1
      <4>3. QED
        BY <2>1, <3>3, <4>1, <4>2 DEF RegionsWritten
    <3>6. CASE ~(lba < LastLba(tgt))
      <4>1. pc' = "flush"
        BY <1>2, <3>6 DEF WriteSector
      <4>2. ASSUME NEW l \in LbasOf(tgt)
            PROVE  disk'[l] = ram[l]
        <5>1. l \in Nat /\ l <= lba
          BY <3>1, <3>2, <3>6 DEF LbasOf
        <5>2. QED
          BY <3>4, <5>1
      <4>3. QED
        BY <2>1, <3>3, <4>1, <4>2 DEF RegionsWritten
    <3>7. QED
      BY <3>5, <3>6
  <2>4. QED
    BY <2>2, <2>3
<1>2a. CASE LastSectorRejected
  BY <1>2a DEF LastSectorRejected, RegionsWritten
<1>3. CASE WriteFails
  BY <1>3, ReturnsRegionsWritten DEF WriteFails
<1>4. CASE FlushOk
  BY <1>4, ReturnsRegionsWritten DEF FlushOk
<1>5. CASE FlushFails
  <2>1. PICK ok \in BOOLEAN : WriteReturns(ok)
    BY <1>5 DEF FlushFails, FlushResults
  <2>2. QED
    BY <1>5, <2>1, ReturnsRegionsWritten DEF FlushFails
<1>6. CASE LoadAccepted
  BY <1>6 DEF LoadAccepted, RegionsWritten
<1>7. ASSUME fresh_start
      PROVE  RegionsWritten'
  <2>1. failed' = Targets /\ Regions \subseteq Targets /\ 1 \in Targets /\ 1 # HeaderTarget
    BY <1>7, LayoutFacts DEF fresh_start, Targets, Regions, HeaderTarget
  <2>2. pc' = "write" /\ tgt' = 1 /\ lba' = FirstLba(1)
    BY <1>7 DEF fresh_start, BeginWrite
  <2>3. ASSUME NEW l \in LbasOf(1), l < lba'
        PROVE  FALSE
    <3>1. lba' = Start[1] /\ l \in Start[1] .. End(1) /\ 1 \in Regions
      BY <2>1, <2>2, TargetFacts DEF LbasOf
    <3>2. QED
      BY <2>3, <3>1, LayoutFacts
  <2>4. QED
    BY <2>1, <2>2, <2>3 DEF RegionsWritten
<1>8. CASE LoadRejected
  BY <1>7, <1>8 DEF LoadRejected
<1>9. CASE LoadReadError
  BY <1>7, <1>9 DEF LoadReadError
<1>10. CASE PowerLoss
  BY <1>10 DEF PowerLoss, RegionsWritten
<1>11. CASE UNCHANGED vars
  BY <1>11 DEF vars, RegionsWritten
<1>12. QED
  BY <1>1, <1>2, <1>2a, <1>3, <1>4, <1>5, <1>6, <1>8, <1>9, <1>10, <1>11 DEF Next

(* A return of the write leaves the kernel idle with nothing failed only   *)
(* when the header was the target and its write succeeded.                 *)
LEMMA ReturnsClean ==
    ASSUME NEW ok \in BOOLEAN, WriteReturns(ok), pc' = "idle", failed' = {}, fresh \in BOOLEAN
    PROVE  ok /\ tgt = HeaderTarget /\ failed = {}
<1>1. ok /\ failed = {}
  BY DEF WriteReturns
<1>2. NextTarget(ok) = {}
  BY DEF WriteReturns, BeginWrite
<1>3. QED
  BY <1>1, <1>2 DEF NextTarget

LEMMA NextHeaderCurrent ==
    TypeOK /\ HeadersHonest /\ HeaderCurrent /\ [Next]_vars => HeaderCurrent'
<1> SUFFICES ASSUME TypeOK, HeadersHonest, HeaderCurrent, [Next]_vars
             PROVE  HeaderCurrent'
  OBVIOUS
<1>1. ASSUME NEW r \in Regions, xmpp_persist_save(r)
      PROVE  HeaderCurrent'
  BY <1>1 DEF xmpp_persist_save, BeginWrite, HeaderCurrent
<1>2. CASE WriteSector
  BY <1>2 DEF WriteSector, HeaderCurrent, NewHeader
<1>2a. CASE LastSectorRejected
  BY <1>2a DEF LastSectorRejected, HeaderCurrent
<1>3. ASSUME NEW ok \in BOOLEAN, WriteReturns(ok), ok => pc = "flush", ram' = ram, hdr' = hdr
      PROVE  HeaderCurrent'
  <2>1. pc' # "flush"
    BY <1>3 DEF WriteReturns, BeginWrite
  <2>2. ASSUME pc' = "idle", failed' = {}
        PROVE  hdr' = NewHeader(ram)'
    <3>1. pc = "flush" /\ tgt = HeaderTarget /\ tgt \notin failed
      BY <1>3, <2>2, ReturnsClean DEF TypeOK
    <3>2. hdr = NewHeader(ram)
      BY <3>1 DEF HeaderCurrent
    <3>3. QED
      BY <1>3, <3>2 DEF NewHeader
  <2>3. QED
    BY <2>1, <2>2 DEF HeaderCurrent
<1>4. CASE WriteFails
  BY <1>3, <1>4 DEF WriteFails
<1>5. CASE FlushOk
  BY <1>3, <1>5 DEF FlushOk
<1>6. CASE FlushFails
  <2>1. PICK ok \in BOOLEAN : WriteReturns(ok)
    BY <1>6 DEF FlushFails, FlushResults
  <2>2. QED
    BY <1>3, <1>6, <2>1 DEF FlushFails
<1>7. CASE LoadAccepted
  <2>1. ram' = disk /\ hdr' = hdr /\ hdr.magic /\ hdr.crc = Crc(disk) /\ pc' = "idle"
    BY <1>7, CrcFacts DEF LoadAccepted, Loadable, TypeOK
  <2>2. hdr.image = disk
    BY <2>1, CrcFacts DEF HeadersHonest, TypeOK, Header
  <2>3. hdr = [magic |-> TRUE, crc |-> Crc(disk), image |-> disk]
    BY <2>1, <2>2 DEF TypeOK, Header
  <2>4. compute_full_crc(disk) = Crc(disk)
    BY CrcFacts DEF TypeOK
  <2>5. hdr = NewHeader(disk)
    BY <2>3, <2>4 DEF NewHeader
  <2>6. NewHeader(ram)' = NewHeader(disk)
    BY <2>1 DEF NewHeader
  <2>7. QED
    BY <2>1, <2>5, <2>6 DEF HeaderCurrent
<1>8. CASE LoadRejected \/ LoadReadError
  BY <1>8 DEF LoadRejected, LoadReadError, fresh_start, BeginWrite, HeaderCurrent
<1>9. CASE PowerLoss
  BY <1>9 DEF PowerLoss, HeaderCurrent
<1>10. CASE UNCHANGED vars
  BY <1>10 DEF vars, HeaderCurrent, NewHeader
<1>11. QED
  BY <1>1, <1>2, <1>2a, <1>4, <1>5, <1>6, <1>7, <1>8, <1>9, <1>10 DEF Next

LEMMA NextMediumCurrent == TypeOK /\ MediumCurrent /\ [Next]_vars => MediumCurrent'
<1> SUFFICES ASSUME TypeOK, MediumCurrent, [Next]_vars
             PROVE  MediumCurrent'
  OBVIOUS
<1>1. ASSUME NEW r \in Regions, xmpp_persist_save(r)
      PROVE  MediumCurrent'
  BY <1>1 DEF xmpp_persist_save, BeginWrite, MediumCurrent
<1>2. CASE WriteSector \/ LastSectorRejected
  BY <1>2 DEF WriteSector, LastSectorRejected, MediumCurrent
<1>3. CASE WriteFails
  <2>1. WriteReturns(FALSE) /\ FALSE \in BOOLEAN
    BY <1>3 DEF WriteFails
  <2>2. ~(pc' = "idle" /\ failed' = {}) /\ pc' # "boot"
    BY <2>1, ReturnsClean DEF WriteReturns, BeginWrite, TypeOK
  <2>3. QED
    BY <2>2 DEF MediumCurrent
<1>4. CASE FlushOk
  BY <1>4 DEF FlushOk, MediumCurrent
<1>5. CASE FlushFails
  BY <1>5 DEF FlushFails, WriteReturns, BeginWrite, MediumCurrent
<1>6. CASE LoadAccepted
  BY <1>6 DEF LoadAccepted, MediumCurrent
<1>7. CASE LoadRejected \/ LoadReadError
  BY <1>7 DEF LoadRejected, LoadReadError, fresh_start, BeginWrite, MediumCurrent
<1>8. CASE PowerLoss
  BY <1>8 DEF PowerLoss, MediumCurrent
<1>9. CASE UNCHANGED vars
  BY <1>9 DEF vars, MediumCurrent
<1>10. QED
  BY <1>1, <1>2, <1>3, <1>4, <1>5, <1>6, <1>7, <1>8, <1>9 DEF Next

LEMMA NextNothingLost == IInv /\ [Next]_vars => NothingLostBetweenSaves'
<1> SUFFICES ASSUME IInv, [Next]_vars
             PROVE  NothingLostBetweenSaves'
  OBVIOUS
<1>1. CASE PowerLoss
  <2> SUFFICES ASSUME NEW s \in kept'
               PROVE  Loadable(disk', hdr') /\ disk' = s
    BY DEF NothingLostBetweenSaves, Loadable, compute_full_crc
  <2>1. pc = "idle" /\ failed = {} /\ ~stale /\ s = ram
    BY <1>1 DEF PowerLoss
  <2>2. mdisk = disk /\ mhdr = hdr /\ hdr = NewHeader(ram) /\ tgt = HeaderTarget
    BY <2>1 DEF IInv, MediumCurrent, HeaderCurrent, NoWriteUnderWay
  <2>3. disk' = disk
    <3>1. PICK K : disk' = Surviving(K)
      BY <1>1 DEF PowerLoss
    <3>2. Surviving(K) = disk
      BY <2>2 DEF Surviving, IInv, TypeOK, Stores
    <3>3. QED
      BY <3>1, <3>2
  <2>4. hdr' = hdr
    BY <1>1, <2>2 DEF PowerLoss
  <2>5. Crc(hdr.image) = hdr.crc /\ hdr.image = ram /\ hdr.magic
    BY <2>2, NewHeaderFacts DEF IInv, TypeOK
  <2>6. disk = ram
    <3>1. ASSUME NEW l \in Lbas
          PROVE  disk[l] = ram[l]
      <4>1. PICK r \in Regions : l \in LbasOf(r)
        BY RegionsCover
      <4>2. r # tgt /\ r \notin failed
        BY <2>1, <2>2, LayoutFacts DEF Regions, HeaderTarget
      <4>3. QED
        BY <2>1, <4>1, <4>2 DEF IInv, RegionsWritten
    <3>2. QED
      BY <3>1 DEF IInv, TypeOK, Stores
  <2>7. compute_full_crc(disk) = Crc(disk)
    BY CrcFacts DEF IInv, TypeOK
  <2>8. Loadable(disk, hdr) /\ disk = s
    BY <2>1, <2>5, <2>6, <2>7 DEF Loadable
  <2>9. QED
    BY <2>3, <2>4, <2>8
<1>2. CASE UNCHANGED vars
  BY <1>2 DEF vars, IInv, NothingLostBetweenSaves, Loadable, compute_full_crc
<1>3. CASE pc' # "boot"
  BY <1>3 DEF NothingLostBetweenSaves
<1>4. QED
  BY <1>1, <1>2, <1>3
     DEF Next, xmpp_persist_save, WriteSector, LastSectorRejected, WriteFails, FlushOk, FlushFails, WriteReturns,
         BeginWrite, LoadAccepted, LoadRejected, LoadReadError, fresh_start

LEMMA NextIInv == IInv /\ [Next]_vars => IInv'
<1> SUFFICES ASSUME IInv, [Next]_vars
             PROVE  IInv'
  OBVIOUS
<1>1. TypeOK' /\ HeadersHonest' /\ NoWriteUnderWay'
  BY NextTypeOK, NextHeadersHonest, NextNoWriteUnderWay DEF IInv
<1>2. RegionsWritten' /\ HeaderCurrent' /\ MediumCurrent'
  BY NextRegionsWritten, NextHeaderCurrent, NextMediumCurrent DEF IInv
<1>3. NothingLostBetweenSaves'
  BY NextNothingLost
<1>4. QED
  BY <1>1, <1>2, <1>3 DEF IInv

LEMMA Invariance == Spec => []IInv
BY InitIInv, NextIInv, PTL DEF Spec

------------------------------------------------------------------------------
(* The safety properties.                                                  *)

(* A power cut between two saves costs nothing, for any layout, contents   *)
(* and backend, when the drive has carried out the last write of every     *)
(* target and the last flush: what the next boot finds is loadable and is  *)
(* the stores as they were.                                                *)
THEOREM NothingLost == Spec => []NothingLostBetweenSaves
<1>1. IInv => NothingLostBetweenSaves
  BY DEF IInv
<1>2. QED
  BY <1>1, Invariance, PTL

(* A load that is accepted restores the stores of one header write. *)
THEOREM LoadRestoresSnapshot == Spec => LoadIsSnapshot
<1>1. IInv /\ [Next]_vars => [pc = "boot" /\ pc' = "idle" => ram' = hdr.image]_vars
  <2> SUFFICES ASSUME IInv, [Next]_vars, pc = "boot", pc' = "idle"
               PROVE  ram' = hdr.image
    OBVIOUS
  <2>1. LoadAccepted
    BY DEF Next, vars, xmpp_persist_save, WriteSector, LastSectorRejected, WriteFails, FlushOk, FlushFails,
           LoadRejected, LoadReadError, fresh_start, BeginWrite, PowerLoss
  <2>2. hdr.magic /\ hdr.crc = Crc(disk) /\ ram' = disk
    BY <2>1, CrcFacts DEF LoadAccepted, Loadable, IInv, TypeOK
  <2>3. hdr.crc = Crc(hdr.image) /\ hdr.image \in Stores /\ disk \in Stores
    BY <2>2 DEF IInv, HeadersHonest, TypeOK, Header
  <2>4. QED
    BY <2>2, <2>3, CrcFacts
<1>2. QED
  BY <1>1, Invariance, PTL DEF Spec, LoadIsSnapshot

------------------------------------------------------------------------------
(* Refinement.                                                             *)

LEMMA InitRefines == Init => Snap!SnapInit
<1> SUFFICES ASSUME Init PROVE Snap!SnapInit
  OBVIOUS
<1>1. serving = FALSE /\ loadable = FALSE
  BY DEF Init, serving, loadable, Loadable
<1>2. hdr.image = EmptyStores /\ mhdr.image = EmptyStores /\ ram = EmptyStores
  BY DEF Init
<1>3. QED
  BY <1>1, <1>2 DEF Snap!SnapInit

LEMMA StepRefines == IInv /\ IInv' /\ [Next]_vars => [Snap!SnapNext]_(Snap!svars)
<1> SUFFICES ASSUME IInv, IInv', [Next]_vars
             PROVE  Snap!SnapNext \/ UNCHANGED Snap!svars
  BY DEF Snap!svars
<1> USE DEF serving
<1>0. loadable \in BOOLEAN /\ loadable' \in BOOLEAN /\ ram' \in Stores
  BY DEF IInv, TypeOK, Header, loadable, Loadable
<1>1. ASSUME NEW r \in Regions, xmpp_persist_save(r)
      PROVE  Snap!Change
  <2>1. loadable' = loadable
    BY <1>1 DEF xmpp_persist_save, loadable, Loadable, compute_full_crc
  <2>2. pc = "idle" /\ pc' = "write" /\ hdr' = hdr /\ mhdr' = mhdr
    BY <1>1 DEF xmpp_persist_save, BeginWrite
  <2>3. QED
    BY <1>0, <2>1, <2>2 DEF Snap!Change
<1>2. CASE WriteSector
  <2>1. pc = "write" /\ pc' \in {"write", "flush"} /\ ram' = ram /\ mhdr' = mhdr
    BY <1>2 DEF WriteSector
  <2>2. CASE tgt = HeaderTarget
    <3>1. hdr'.image = ram
      BY <1>2, <2>2, NewHeaderFacts DEF WriteSector, IInv, TypeOK
    <3>2. Snap!Checkpoint
      BY <1>0, <2>1, <3>1 DEF Snap!Checkpoint
    <3>3. QED
      BY <3>2 DEF Snap!SnapNext
  <2>3. CASE tgt # HeaderTarget
    <3>1. hdr' = hdr
      BY <1>2, <2>3 DEF WriteSector
    <3>2. Snap!Disturb
      BY <1>0, <2>1, <3>1 DEF Snap!Disturb
    <3>3. QED
      BY <3>2 DEF Snap!SnapNext
  <2>4. QED
    BY <2>2, <2>3
<1>3. CASE LastSectorRejected \/ WriteFails \/ FlushFails
  <2>1. disk' = disk /\ hdr' = hdr /\ mhdr' = mhdr /\ ram' = ram /\ pc # "boot" /\ pc' # "boot"
    BY <1>3 DEF LastSectorRejected, WriteFails, FlushFails, WriteReturns, BeginWrite
  <2>2. loadable' = loadable
    BY <2>1 DEF loadable, Loadable, compute_full_crc
  <2>3. QED
    BY <2>1, <2>2 DEF Snap!svars
<1>4. CASE FlushOk
  <2>1. disk' = disk /\ hdr' = hdr /\ mhdr' = hdr /\ ram' = ram /\ pc # "boot" /\ pc' # "boot"
    BY <1>4 DEF FlushOk, WriteReturns, BeginWrite
  <2>2. loadable' = loadable
    BY <2>1 DEF loadable, Loadable, compute_full_crc
  <2>3. Snap!Sync
    BY <2>1, <2>2 DEF Snap!Sync
  <2>4. QED
    BY <2>3 DEF Snap!SnapNext
<1>5. CASE LoadAccepted
  <2>1. /\ disk' = disk /\ hdr' = hdr /\ mhdr' = mhdr /\ ram' = disk
        /\ pc = "boot" /\ pc' = "idle" /\ loadable
    BY <1>5 DEF LoadAccepted, loadable
  <2>2. loadable' = loadable
    BY <2>1 DEF loadable, Loadable, compute_full_crc
  <2>3. hdr.magic /\ hdr.crc = Crc(disk)
    BY <2>1, CrcFacts DEF loadable, Loadable, IInv, TypeOK
  <2>4. disk = hdr.image
    BY <2>3, CrcFacts DEF IInv, HeadersHonest, TypeOK, Header
  <2>5. Snap!Restore
    BY <2>1, <2>2, <2>4 DEF Snap!Restore
  <2>6. QED
    BY <2>5 DEF Snap!SnapNext
<1>6. CASE LoadRejected \/ LoadReadError
  <2>1. /\ disk' = disk /\ hdr' = hdr /\ mhdr' = mhdr /\ ram' = EmptyStores
        /\ pc = "boot" /\ pc' = "write"
    BY <1>6 DEF LoadRejected, LoadReadError, fresh_start, BeginWrite
  <2>2. loadable' = loadable
    BY <2>1 DEF loadable, Loadable, compute_full_crc
  <2>3. Snap!Reset
    BY <2>1, <2>2 DEF Snap!Reset
  <2>4. QED
    BY <2>3 DEF Snap!SnapNext
<1>7. CASE PowerLoss
  <2>1. hdr' \in {hdr, mhdr} /\ mhdr' = hdr' /\ ram' = EmptyStores /\ pc' = "boot"
    BY <1>7 DEF PowerLoss
  <2>2. Snap!PowerCut
    BY <1>0, <2>1 DEF Snap!PowerCut
  <2>3. QED
    BY <2>2 DEF Snap!SnapNext
<1>8. CASE UNCHANGED vars
  <2>1. loadable' = loadable
    BY <1>8 DEF vars, loadable, Loadable, compute_full_crc
  <2>2. QED
    BY <1>8, <2>1 DEF vars, Snap!svars
<1>9. QED
  BY <1>1, <1>2, <1>3, <1>4, <1>5, <1>6, <1>7, <1>8 DEF Next, Snap!SnapNext

(* The store on the disk implements the abstract one: a restart gives back *)
(* a whole checkpoint or nothing.                                          *)
THEOREM Refinement == Spec => ImplementsSnapshotStore
<1>1. Spec => []IInv
  BY Invariance
<1>2. QED
  BY <1>1, InitRefines, StepRefines, PTL DEF Spec, ImplementsSnapshotStore, Snap!SnapSpec
==============================================================================

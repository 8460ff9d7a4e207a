---------------------------- MODULE OfflineProofs ----------------------------
(***************************************************************************)
(* Proofs about Offline, for every size of the store and of the send       *)
(* buffers, and every number of users, messages and power cuts.            *)
(***************************************************************************)
EXTENDS Offline, TLAPS

(***************************************************************************)
(* Lemmas about single steps.                                              *)
(***************************************************************************)

(* What the handlers do to a connection keeps its type. *)
ConnType ==
    /\ free \in [Users -> 0 .. SndBuf]
    /\ held \in [Users -> Msgs \cup {Other, None}]
    /\ sent \subseteq Msgs

LEMMA SendType ==
    ASSUME ConnType, NEW u \in Users, NEW m \in Msgs, send_raw(u, m)
    PROVE  ConnType'
  <1>1. CASE free[u] > 0
    <2>1. free[u] - 1 \in 0 .. SndBuf
      BY <1>1, OfflineAssumption DEF ConnType
    <2> QED
      BY <1>1, <2>1 DEF send_raw, ConnType, Written
  <1>2. CASE ~(free[u] > 0)
    BY <1>2 DEF send_raw, ConnType
  <1> QED
    BY <1>1, <1>2

LEMMA SendsOthersType ==
    ASSUME ConnType, NEW V, SendsOthers(V)
    PROVE  ConnType'
  BY DEF SendsOthers, ConnType, Written

(* The fields of a slot. *)
LEMMA SlotType ==
    ASSUME NEW x \in Mail \cup {NoMail}
    PROVE  /\ x # NoMail <=> x.msg \in Msgs
           /\ x # NoMail => x \in Mail /\ x.to_user \in Users
           /\ x = NoMail => x.msg = None /\ x.to_user = None /\ x.local = FALSE
  BY OfflineAssumption DEF Mail, NoMail

LEMMA NoDrainUser == NoDrain.user = None /\ NoDrain.at = 0
  BY DEF NoDrain

(* Steps that leave the store, the disk and the drain alone. *)
LEMMA QuietStep ==
    ASSUME IInv, TypeOK',
           UNCHANGED <<offline_store, disk, drain, accepted, handed, cuts>>,
           fresh' \subseteq fresh, steady' \subseteq steady
    PROVE  IInv'
  <1>1. StoreInv'
    BY DEF IInv, StoreInv
  <1>2. WaitsInv'
    BY DEF IInv, WaitsInv
  <1>3. AcceptedKept' /\ HandedOnce'
    BY DEF IInv, AcceptedKept, HandedOnce, InStore
  <1> QED
    BY <1>1, <1>2, <1>3 DEF IInv

LEMMA SessionStep ==
    ASSUME IInv, NEW u \in Users, Login(u) \/ Logout(u)
    PROVE  IInv'
  <1>1. SndBuf \in 0 .. SndBuf
    BY OfflineAssumption
  <1>2. TypeOK'
    BY <1>1 DEF IInv, TypeOK, Login, Logout, EndSession, store
  <1> QED
    BY <1>2, QuietStep DEF Login, Logout, EndSession, store

LEMMA RouteStreamStep ==
    ASSUME IInv, NEW u \in Users, RouteStream(u)
    PROVE  IInv'
  <1>1. ConnType'
    BY SendsOthersType DEF IInv, TypeOK, ConnType, RouteStream
  <1>2. TypeOK'
    BY <1>1 DEF IInv, TypeOK, ConnType, RouteStream, store, history
  <1> QED
    BY <1>2, QuietStep DEF RouteStream, store, history

LEMMA ReturnStep ==
    ASSUME IInv, NEW u \in Users, Bind(u) \/ AskSession(u)
    PROVE  IInv'
  <1>1. Return(u) /\ (bound' = bound \cup {u} \/ bound' = bound)
    BY DEF Bind, AskSession
  <1>2. ConnType'
    BY <1>1, SendsOthersType DEF IInv, TypeOK, ConnType, Return
  <1>3. TypeOK'
    BY <1>1, <1>2 DEF IInv, TypeOK, ConnType, Return, store, history
  <1> QED
    BY <1>1, <1>3, QuietStep DEF Return, store, history

LEMMA AcknowledgedStep ==
    ASSUME IInv, NEW u \in Users, Acknowledged(u)
    PROVE  IInv'
  <1>1. SndBuf \in 0 .. SndBuf
    BY OfflineAssumption
  <1>2. TypeOK'
    BY <1>1 DEF IInv, TypeOK, Acknowledged, store, sessions, history
  <1> QED
    BY <1>2, QuietStep DEF Acknowledged, store, sessions, history

LEMMA OtherTrafficStep ==
    ASSUME IInv, NEW u \in Users, OtherTraffic(u)
    PROVE  IInv'
  <1>1. ConnType'
    BY SendsOthersType DEF IInv, TypeOK, ConnType, OtherTraffic
  <1>2. TypeOK'
    BY <1>1 DEF IInv, TypeOK, ConnType, OtherTraffic, store, sessions, history
  <1> QED
    BY <1>2, QuietStep DEF OtherTraffic, store, sessions, history

LEMMA DeliverStep ==
    ASSUME IInv, NEW m \in Msgs, NEW u \in Users, NEW local \in BOOLEAN,
           Deliver(m, u, local)
    PROVE  IInv'
  <1>1. ConnType'
    BY SendType DEF IInv, TypeOK, ConnType, Deliver
  <1>2. TypeOK'
    BY <1>1 DEF IInv, TypeOK, ConnType, Deliver, store, sessions, history
  <1> QED
    BY <1>2, QuietStep DEF Deliver, store, sessions, history

LEMMA RefuseStep ==
    ASSUME IInv, NEW m \in Msgs, NEW u \in Users, NEW local \in BOOLEAN,
           Refuse(m, u, local)
    PROVE  IInv'
  <1>1. TypeOK'
    BY DEF IInv, TypeOK, Refuse, store, sessions, history
  <1> QED
    BY <1>1, QuietStep DEF Refuse, store, sessions, history

(* Between drains the disk has the store. *)
LEMMA ReadySaved ==
    ASSUME IInv, Ready
    PROVE  offline_store = disk
  BY DEF IInv, Ready, StoreInv, TypeOK

LEMMA StoreStep ==
    ASSUME IInv, NEW m \in Msgs, NEW u \in Users, NEW local \in BOOLEAN,
           Store(m, u, local)
    PROVE  IInv'
  <1> DEFINE x == [msg |-> m, to_user |-> u, local |-> local]
  <1>1. PICK i \in FreeSlots : /\ offline_store' = [offline_store EXCEPT ![i] = x]
                               /\ disk' = offline_store'
    BY DEF Store, offline_msg_enqueue
  <1>2. x \in Mail /\ x.msg = m /\ x.to_user = u /\ x.local = local
    BY DEF Mail
  <1> HIDE DEF x
  <1>3. i \in Slots /\ offline_store[i] = NoMail /\ offline_store = disk
    BY ReadySaved DEF FreeSlots, Store
  <1>4. /\ disk \in [Slots -> Mail \cup {NoMail}] /\ m \in fresh /\ handed \in [Msgs -> Nat]
        /\ cuts \in Nat /\ drain = NoDrain
        /\ steady \subseteq online \cap bound /\ steady \subseteq Users /\ fresh \subseteq Msgs
    BY DEF IInv, TypeOK, Store, Ready
  <1>5. TypeOK'
    BY <1>1, <1>2, <1>3, <1>4 DEF IInv, TypeOK, Store, sessions
  <1>6. /\ disk'[i] = x
        /\ \A j \in Slots : j # i => disk'[j] = disk[j]
        /\ \A j \in Slots : disk[j].msg # m
    BY <1>1, <1>3, <1>4 DEF IInv, StoreInv
  <1>7. StoreInv'
    <2>1. \A j \in Slots : disk'[j] # NoMail => handed[disk'[j].msg] <= cuts
      BY <1>2, <1>3, <1>4, <1>6 DEF IInv, StoreInv
    <2>2. \A j, k \in Slots : disk'[j] # NoMail /\ disk'[j].msg = disk'[k].msg => j = k
      BY <1>2, <1>6 DEF IInv, StoreInv
    <2>3. \A j \in Slots : disk'[j].msg \notin fresh'
      BY <1>2, <1>6 DEF IInv, StoreInv, Store
    <2>4. fresh' \subseteq fresh /\ UNCHANGED <<handed, cuts, drain>>
      BY DEF Store
    <2> QED
      BY <1>1, <2>1, <2>2, <2>3, <2>4 DEF IInv, StoreInv
  <1>8. WaitsInv'
    <2>1. ~(local /\ u \in steady)
      BY <1>4 DEF Store, Reached
    <2>2. \A j \in Slots : ~(disk[j].local /\ disk[j].to_user \in steady)
      <3> SUFFICES ASSUME NEW j \in Slots, disk[j].local, disk[j].to_user \in steady
                   PROVE  FALSE
        OBVIOUS
      <3>1. disk[j].to_user = None
        BY <1>3, <1>4, NoDrainUser DEF IInv, WaitsInv
      <3> QED
        BY <1>4, <3>1, OfflineAssumption
    <2> QED
      BY <1>1, <1>2, <1>6, <2>1, <2>2 DEF WaitsInv, Store, sessions
  <1>9. AcceptedKept'
    <2>1. \A k \in Msgs : InStore(disk, k) => InStore(disk', k)
      <3> SUFFICES ASSUME NEW k \in Msgs, NEW j \in Slots, disk[j].msg = k
                   PROVE  InStore(disk', k)
        BY DEF InStore
      <3>1. j # i
        BY <1>3, SlotType, <1>4
      <3> QED
        BY <1>6, <3>1 DEF InStore
    <2>2. InStore(disk', m)
      BY <1>2, <1>3, <1>6 DEF InStore
    <2> QED
      BY <2>1, <2>2 DEF IInv, TypeOK, AcceptedKept, Store
  <1>10. HandedOnce'
    BY DEF IInv, HandedOnce, Store
  <1> QED
    BY <1>5, <1>7, <1>8, <1>9, <1>10 DEF IInv

LEMMA InitialPresenceStep ==
    ASSUME IInv, NEW u \in Users, InitialPresence(u)
    PROVE  IInv'
  <1>1. ConnType'
    BY SendsOthersType DEF IInv, TypeOK, ConnType, InitialPresence
  <1>2. drain' \in [user : Users, at : Slots] /\ drain'.user = u /\ drain'.at = 1
    BY OfflineAssumption DEF InitialPresence, Slots
  <1>3. TypeOK'
    BY <1>1, <1>2 DEF IInv, TypeOK, ConnType, InitialPresence, history
  <1>4. StoreInv'
    BY ReadySaved DEF IInv, StoreInv, InitialPresence, history
  <1>5. WaitsInv'
    <2>1. \A i \in Slots : offline_store[i].local => offline_store[i].to_user \notin steady
      <3> SUFFICES ASSUME NEW i \in Slots, offline_store[i].local,
                          offline_store[i].to_user \in steady
                   PROVE  FALSE
        OBVIOUS
      <3>1. offline_store[i].to_user = None
        BY NoDrainUser DEF IInv, WaitsInv, InitialPresence, Ready
      <3> QED
        BY <3>1, OfflineAssumption DEF IInv, TypeOK
    <2>2. \A i \in Slots : 1 <= i
      BY DEF Slots
    <2> QED
      BY <1>2, <2>1, <2>2 DEF WaitsInv, InitialPresence
  <1>6. AcceptedKept' /\ HandedOnce'
    BY DEF IInv, AcceptedKept, HandedOnce, InStore, InitialPresence, history
  <1> QED
    BY <1>3, <1>4, <1>5, <1>6 DEF IInv

(* The drain has dealt with its slot, and the store is s. *)
LEMMA DrainType ==
    ASSUME TypeOK, drain # NoDrain, NEW s \in [Slots -> Mail \cup {NoMail}], DrainGoesOn(s)
    PROVE  /\ disk' \in [Slots -> Mail \cup {NoMail}]
           /\ drain' \in [user : Users, at : Slots] \cup {NoDrain}
           /\ \/ drain' = NoDrain /\ disk' = s /\ \A i \in Slots : i <= drain.at
              \/ /\ drain' # NoDrain /\ drain'.user = drain.user
                 /\ drain'.at = drain.at + 1 /\ disk' = disk
  <1>1. drain \in [user : Users, at : Slots] /\ drain.at \in Slots /\ drain.user \in Users
    BY DEF TypeOK
  <1>2. CASE drain.at >= LastSlot
    <2>1. drain' = NoDrain /\ disk' = s
      BY <1>2 DEF DrainGoesOn
    <2>2. \A i \in Slots : i <= drain.at
      BY <1>1, <1>2, OfflineAssumption DEF LastSlot, Slots
    <2> QED
      BY <2>1, <2>2
  <1>3. CASE ~(drain.at >= LastSlot)
    <2>1. drain.at + 1 \in Slots
      BY <1>1, <1>3, OfflineAssumption DEF Slots, LastSlot
    <2>2. /\ drain' \in [user : Users, at : Slots]
          /\ drain'.user = drain.user /\ drain'.at = drain.at + 1 /\ disk' = disk
      BY <1>1, <1>3, <2>1 DEF DrainGoesOn
    <2>3. drain' # NoDrain
      BY <1>1, <2>2, NoDrainUser, OfflineAssumption
    <2> QED
      BY <2>2, <2>3 DEF TypeOK
  <1> QED
    BY <1>2, <1>3

LEMMA DrainStep ==
    ASSUME IInv, offline_msg_drain
    PROVE  IInv'
  <1> DEFINE i == drain.at
             m == offline_store[i].msg
  <1>1. /\ drain \in [user : Users, at : Slots] /\ i \in Slots /\ drain.user \in Users
        /\ drain # NoDrain
    BY DEF IInv, TypeOK, offline_msg_drain
  <1>2. offline_store[i] # NoMail /\ m \in Msgs /\ offline_store[i] = disk[i]
    <2>1. offline_store[i] \in Mail \cup {NoMail} /\ offline_store[i].to_user \in Users
      BY <1>1 DEF IInv, TypeOK, offline_msg_drain, Mine, MailOf
    <2>2. offline_store[i] # NoMail
      BY <2>1, SlotType, OfflineAssumption
    <2> QED
      BY <1>1, <2>1, <2>2, SlotType DEF IInv, StoreInv
  <1> HIDE DEF i, m
  <1>3. /\ offline_store' = [offline_store EXCEPT ![i] = NoMail]
        /\ handed' = [handed EXCEPT ![m] = handed[m] + 1]
        /\ given' = given \cup {<<drain.user, m>>}
        /\ send_raw(drain.user, m)
        /\ DrainGoesOn(offline_store')
        /\ UNCHANGED <<online, back, bound, greeted, steady, fresh, accepted, cuts>>
    BY DEF offline_msg_drain, sessions, i, m
  <1>4. /\ offline_store' \in [Slots -> Mail \cup {NoMail}]
        /\ offline_store'[i] = NoMail
        /\ \A j \in Slots : j # i => offline_store'[j] = offline_store[j]
    BY <1>1, <1>3 DEF IInv, TypeOK
  <1>5. /\ disk' \in [Slots -> Mail \cup {NoMail}]
        /\ drain' \in [user : Users, at : Slots] \cup {NoDrain}
        /\ \/ drain' = NoDrain /\ disk' = offline_store' /\ \A j \in Slots : j <= i
           \/ /\ drain' # NoDrain /\ drain'.user = drain.user
              /\ drain'.at = i + 1 /\ disk' = disk
    BY <1>1, <1>3, <1>4, DrainType DEF IInv, i
  <1>6. /\ handed \in [Msgs -> Nat] /\ handed' \in [Msgs -> Nat]
        /\ handed'[m] = handed[m] + 1
        /\ \A k \in Msgs : k # m => handed'[k] = handed[k]
        /\ cuts \in Nat
    BY <1>2, <1>3 DEF IInv, TypeOK
  <1>7. ConnType'
    BY <1>1, <1>2, <1>3, SendType DEF IInv, TypeOK, ConnType
  <1>8. TypeOK'
    BY <1>1, <1>2, <1>3, <1>4, <1>5, <1>6, <1>7 DEF IInv, TypeOK, ConnType
  <1>9. handed[m] <= cuts /\ m \notin fresh
    BY <1>1, <1>2 DEF IInv, StoreInv, m
  <1>10. HandedOnce'
    BY <1>3, <1>6, <1>9 DEF IInv, HandedOnce
  <1>11. \A j \in Slots : j # i => disk[j].msg # m
    BY <1>1, <1>2 DEF IInv, StoreInv, m
  <1>12. StoreInv'
    <2>1. \A j \in Slots : offline_store[j] \in Mail \cup {NoMail} /\ disk[j] \in Mail \cup {NoMail}
      BY DEF IInv, TypeOK
    <2>2. \A j \in Slots : offline_store'[j] # NoMail =>
            j # i /\ offline_store'[j] = disk[j] /\ handed'[disk[j].msg] <= cuts
      <3> SUFFICES ASSUME NEW j \in Slots, offline_store'[j] # NoMail
                   PROVE  j # i /\ offline_store'[j] = disk[j] /\ handed'[disk[j].msg] <= cuts
        OBVIOUS
      <3>1. j # i /\ offline_store'[j] = offline_store[j] /\ offline_store[j] = disk[j]
        BY <1>4 DEF IInv, StoreInv
      <3>2. disk[j].msg \in Msgs /\ handed[disk[j].msg] <= cuts
        BY <2>1, <3>1, SlotType DEF IInv, StoreInv
      <3> QED
        BY <1>6, <1>11, <3>1, <3>2
    <2>3. \A j \in Slots : offline_store'[j] # disk[j] =>
            offline_store'[j] = NoMail /\ handed'[disk[j].msg] > 0
      <3> SUFFICES ASSUME NEW j \in Slots, offline_store'[j] # disk[j]
                   PROVE  offline_store'[j] = NoMail /\ handed'[disk[j].msg] > 0
        OBVIOUS
      <3>1. CASE j = i
        BY <1>2, <1>4, <1>6, <3>1 DEF m
      <3>2. CASE j # i
        <4>1. offline_store'[j] = NoMail /\ handed[disk[j].msg] > 0
          BY <1>4, <3>2 DEF IInv, StoreInv
        <4>2. disk[j].msg \in Msgs
          BY <2>1, <4>1, SlotType
        <4> QED
          BY <1>6, <1>11, <3>2, <4>1, <4>2
      <3> QED
        BY <3>1, <3>2
    <2>4. \A k \in fresh' : handed'[k] = 0
      BY <1>3, <1>6, <1>9 DEF IInv, StoreInv, TypeOK
    <2>5. \A j \in Slots : disk[j].msg \notin fresh'
      BY <1>3 DEF IInv, StoreInv
    <2>6. /\ \A j, k \in Slots : disk'[j] # NoMail /\ disk'[j].msg = disk'[k].msg => j = k
          /\ \A j \in Slots : disk'[j].msg \notin fresh'
      <3>1. CASE disk' = disk
        BY <2>5, <3>1 DEF IInv, StoreInv
      <3>2. CASE disk' = offline_store'
        <4>1. \A j \in Slots : disk'[j] # NoMail => disk'[j] = disk[j]
          BY <2>2, <3>2
        <4>2. \A j \in Slots : disk'[j] = NoMail => disk'[j].msg = None
          BY SlotType
        <4>3. None \notin Msgs /\ fresh' \subseteq Msgs
          BY <1>8, OfflineAssumption DEF TypeOK
        <4>4. \A j \in Slots : disk'[j] # NoMail => disk'[j].msg \in Msgs
          BY <1>5, SlotType
        <4>5. \A j, k \in Slots : disk'[j] # NoMail /\ disk'[j].msg = disk'[k].msg
                                    => disk'[k] # NoMail
          BY <4>2, <4>3, <4>4
        <4> QED
          BY <2>5, <4>1, <4>2, <4>3, <4>5 DEF IInv, StoreInv
      <3> QED
        BY <1>5, <3>1, <3>2
    <2>7. \A j \in Slots : offline_store'[j] # disk'[j] =>
            /\ drain' # NoDrain
            /\ offline_store'[j] = NoMail
            /\ handed'[disk'[j].msg] > 0
      BY <1>5, <2>3
    <2> QED
      BY <1>3, <2>2, <2>4, <2>6, <2>7 DEF StoreInv
  <1>13. WaitsInv'
    <2> SUFFICES ASSUME NEW j \in Slots, offline_store'[j].local,
                        offline_store'[j].to_user \in steady
                 PROVE  offline_store'[j].to_user = drain'.user /\ drain'.at <= j
      BY <1>3 DEF WaitsInv
    <2>1. j # i /\ offline_store'[j] = offline_store[j]
      BY <1>4, SlotType
    <2>2. offline_store[j].to_user = drain.user /\ i <= j
      BY <2>1 DEF IInv, WaitsInv, i
    <2>3. i \in Nat /\ j \in Nat
      BY <1>1 DEF Slots
    <2>4. ~(\A k \in Slots : k <= i)
      BY <2>1, <2>2, <2>3
    <2> QED
      BY <1>5, <2>1, <2>2, <2>3, <2>4
  <1>14. AcceptedKept'
    <2> SUFFICES ASSUME NEW k \in accepted, handed'[k] = 0
                 PROVE  InStore(disk', k)
      BY <1>3 DEF AcceptedKept, InStore
    <2>1. k \in Msgs /\ k # m /\ handed[k] = 0
      BY <1>2, <1>6 DEF IInv, TypeOK
    <2>2. PICK j \in Slots : disk[j].msg = k
      BY <2>1 DEF IInv, AcceptedKept, InStore
    <2>3. j # i /\ offline_store[j] = disk[j]
      BY <1>2, <2>1, <2>2 DEF IInv, StoreInv, m
    <2> QED
      BY <1>4, <1>5, <2>2, <2>3 DEF InStore
  <1> QED
    BY <1>8, <1>10, <1>12, <1>13, <1>14 DEF IInv

LEMMA DrainSkipsStep ==
    ASSUME IInv, DrainSkips
    PROVE  IInv'
  <1>1. drain # NoDrain /\ drain.at \in Slots
    BY DEF IInv, TypeOK, DrainSkips
  <1>2. /\ disk' \in [Slots -> Mail \cup {NoMail}]
        /\ drain' \in [user : Users, at : Slots] \cup {NoDrain}
        /\ \/ drain' = NoDrain /\ disk' = offline_store /\ \A i \in Slots : i <= drain.at
           \/ /\ drain' # NoDrain /\ drain'.user = drain.user
              /\ drain'.at = drain.at + 1 /\ disk' = disk
    BY <1>1, DrainType DEF IInv, TypeOK, DrainSkips
  <1>3. UNCHANGED <<offline_store, online, back, bound, greeted, steady, free, held, fresh,
                    sent, accepted, handed, given, cuts>>
    BY DEF DrainSkips, sessions, history
  <1>4. TypeOK'
    BY <1>2, <1>3 DEF IInv, TypeOK
  <1>5. StoreInv'
    <2>1. CASE disk' = disk /\ drain' # NoDrain
      BY <1>3, <2>1 DEF IInv, StoreInv
    <2>2. CASE disk' = offline_store
      <3>1. \A j \in Slots : offline_store[j] = disk[j] \/ offline_store[j] = NoMail
        BY DEF IInv, StoreInv
      <3>2. \A j \in Slots : /\ offline_store[j] \in Mail \cup {NoMail}
                             /\ offline_store[j] = NoMail => offline_store[j].msg = None
                             /\ offline_store[j] # NoMail => offline_store[j].msg \in Msgs
        BY SlotType DEF IInv, TypeOK
      <3>3. None \notin Msgs /\ fresh \subseteq Msgs
        BY OfflineAssumption DEF IInv, TypeOK
      <3>4. /\ \A j, k \in Slots : offline_store[j] # NoMail
                                   /\ offline_store[j].msg = offline_store[k].msg => j = k
            /\ \A j \in Slots : offline_store[j].msg \notin fresh
        BY <3>1, <3>2, <3>3 DEF IInv, StoreInv
      <3> QED
        BY <1>3, <2>2, <3>4 DEF IInv, StoreInv
    <2> QED
      BY <1>2, <2>1, <2>2
  <1>6. WaitsInv'
    <2> SUFFICES ASSUME NEW j \in Slots, offline_store[j].local,
                        offline_store[j].to_user \in steady
                 PROVE  offline_store[j].to_user = drain'.user /\ drain'.at <= j
      BY <1>3 DEF WaitsInv
    <2>1. offline_store[j].to_user = drain.user /\ drain.at <= j
      BY DEF IInv, WaitsInv
    <2>2. j # drain.at
      BY <2>1 DEF DrainSkips, Mine, MailOf
    <2>3. drain.at \in Nat /\ j \in Nat
      BY <1>1 DEF Slots
    <2>4. ~(\A k \in Slots : k <= drain.at)
      BY <2>1, <2>2, <2>3
    <2> QED
      BY <1>2, <2>1, <2>2, <2>3, <2>4
  <1>7. AcceptedKept'
    <2> SUFFICES ASSUME NEW k \in accepted, handed[k] = 0
                 PROVE  InStore(disk', k)
      BY <1>3 DEF AcceptedKept, InStore
    <2>1. PICK j \in Slots : disk[j].msg = k
      BY DEF IInv, AcceptedKept, InStore
    <2>2. offline_store[j] = disk[j]
      BY <2>1 DEF IInv, StoreInv
    <2> QED
      BY <1>2, <2>1, <2>2 DEF InStore
  <1>8. HandedOnce'
    BY <1>3 DEF IInv, HandedOnce
  <1> QED
    BY <1>4, <1>5, <1>6, <1>7, <1>8 DEF IInv

LEMMA PowerLossStep ==
    ASSUME IInv, PowerLoss
    PROVE  IInv'
  <1>1. /\ offline_store' = disk /\ disk' = disk /\ drain' = NoDrain /\ steady' = {}
        /\ UNCHANGED <<fresh, accepted, handed, sent>>
    BY DEF PowerLoss
  <1>2. cuts \in 0 .. MaxCuts /\ cuts' \in 0 .. MaxCuts /\ cuts \in Nat /\ cuts' \in Nat
        /\ cuts <= cuts' /\ (drain # NoDrain => cuts' = cuts + 1)
    BY OfflineAssumption DEF IInv, TypeOK, PowerLoss
  <1>3. SndBuf \in 0 .. SndBuf
    BY OfflineAssumption
  <1>4. TypeOK'
    BY <1>1, <1>2, <1>3 DEF IInv, TypeOK, PowerLoss
  <1>5. handed \in [Msgs -> Nat]
    BY DEF IInv, TypeOK
  <1>6. HandedOnce'
    BY <1>1, <1>2, <1>5 DEF IInv, HandedOnce
  <1>7. \A i \in Slots : disk[i] # NoMail => handed[disk[i].msg] <= cuts'
    <2> SUFFICES ASSUME NEW i \in Slots, disk[i] # NoMail
                 PROVE  handed[disk[i].msg] <= cuts'
      OBVIOUS
    <2>1. disk[i].msg \in Msgs
      BY SlotType DEF IInv, TypeOK
    <2>2. CASE drain # NoDrain
      BY <1>2, <1>5, <2>1, <2>2 DEF IInv, HandedOnce
    <2>3. CASE drain = NoDrain
      <3>1. handed[disk[i].msg] <= cuts
        BY <2>3 DEF IInv, StoreInv
      <3> QED
        BY <1>2, <1>5, <2>1, <3>1
    <2> QED
      BY <2>2, <2>3
  <1>8. StoreInv'
    BY <1>1, <1>7 DEF IInv, StoreInv
  <1>9. WaitsInv' /\ AcceptedKept'
    BY <1>1 DEF IInv, WaitsInv, AcceptedKept, InStore
  <1> QED
    BY <1>4, <1>6, <1>8, <1>9 DEF IInv

----------------------------------------------------------------------------
(***************************************************************************)
(* The theorems.                                                           *)
(***************************************************************************)

LEMMA InitGood == Init => IInv
  <1> SUFFICES ASSUME Init PROVE IInv
    OBVIOUS
  <1>1. TypeOK
    BY OfflineAssumption DEF Init, TypeOK
  <1>2. NoMail.msg = None /\ NoMail.local = FALSE /\ None \notin Msgs
    BY OfflineAssumption DEF NoMail
  <1>3. StoreInv /\ WaitsInv
    BY <1>2 DEF Init, StoreInv, WaitsInv
  <1>4. AcceptedKept /\ HandedOnce
    BY DEF Init, AcceptedKept, HandedOnce
  <1> QED
    BY <1>1, <1>3, <1>4 DEF IInv

LEMMA StepGood == IInv /\ [Next]_vars => IInv'
  <1> SUFFICES ASSUME IInv, [Next]_vars PROVE IInv'
    OBVIOUS
  <1>1. CASE UNCHANGED vars
    <2>1. TypeOK'
      BY <1>1 DEF IInv, TypeOK, vars, store, sessions, history
    <2> QED
      BY <1>1, <2>1, QuietStep DEF vars, store, sessions, history
  <1>2. ASSUME NEW u \in Users,
               \/ Login(u) \/ Logout(u) \/ RouteStream(u) \/ Bind(u) \/ AskSession(u)
               \/ Acknowledged(u) \/ OtherTraffic(u) \/ InitialPresence(u)
        PROVE  IInv'
    BY <1>2, SessionStep, RouteStreamStep, ReturnStep, AcknowledgedStep, OtherTrafficStep, InitialPresenceStep
  <1>3. ASSUME NEW m \in Msgs, NEW u \in Users, NEW local \in BOOLEAN,
               Deliver(m, u, local) \/ Store(m, u, local) \/ Refuse(m, u, local)
        PROVE  IInv'
    BY <1>3, DeliverStep, StoreStep, RefuseStep
  <1> QED
    BY <1>1, <1>2, <1>3, DrainStep, DrainSkipsStep, PowerLossStep DEF Next

(* Every reachable state satisfies the inductive invariant.                *)
THEOREM Invariance == Spec => []IInv
  BY InitGood, StepGood, PTL DEF Spec

(* The type invariant of the offline messages.                             *)
THEOREM TypeCorrect == Spec => []TypeOK
  <1>1. IInv => TypeOK
    BY DEF IInv
  <1> QED
    BY <1>1, Invariance, PTL

(* A stored message is on the disk until it has been given to send_raw,    *)
(* whenever the power is cut (offline_msg_enqueue, offline_msg_drain).     *)
THEOREM Kept == Spec => []AcceptedKept
  <1>1. IInv => AcceptedKept
    BY DEF IInv
  <1> QED
    BY <1>1, Invariance, PTL

(* offline_msg_drain gives a message out once, and once more for each cut  *)
(* of the power during a drain.                                            *)
THEOREM Once == Spec => []HandedOnce
  <1>1. IInv => HandedOnce
    BY DEF IInv
  <1> QED
    BY <1>1, Invariance, PTL

(* Between drains no message waits in the store for a session that had a   *)
(* resource at its initial presence and has not been put back to           *)
(* STATE_BIND (handle_chat_message, handle_initial_presence).              *)
THEOREM NoneWaits == Spec => []NothingWaits
  <1>1. IInv => NothingWaits
    <2> SUFFICES ASSUME IInv, Ready, NEW i \in Slots, offline_store[i].local,
                        offline_store[i].to_user \in steady
                 PROVE  FALSE
      BY DEF NothingWaits
    <2>1. offline_store[i].to_user = None
      BY NoDrainUser DEF IInv, WaitsInv, Ready
    <2> QED
      BY <2>1, OfflineAssumption DEF IInv, TypeOK
  <1> QED
    BY <1>1, Invariance, PTL
=============================================================================

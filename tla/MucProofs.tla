------------------------------ MODULE MucProofs ------------------------------
(***************************************************************************)
(* Proofs about Muc, for every number of rooms, seats, users and bans.     *)
(***************************************************************************)
EXTENDS Muc, FiniteSetTheorems, TLAPS

(***************************************************************************)
(* What the handlers do to one room keeps the room in order.               *)
(***************************************************************************)

LEMMA NoRoomGood == RoomInv(NoRoom) /\ ~NoRoom.active /\ OnDisk(NoRoom) = NoRoom
  <1>1. NoRoom \in Room
    BY MucAssumption DEF NoRoom, Room, NoSeats, NoSeat, Seat
  <1>2. Taken(NoRoom) = {}
    BY DEF Taken, NoRoom, NoSeats, NoSeat
  <1>3. Cardinality(NoRoom.banned) <= MAX_BANNED_PER_ROOM
    BY FS_EmptySet, MucAssumption DEF NoRoom
  <1>4. RoomInv(NoRoom)
    BY <1>1, <1>2, <1>3 DEF RoomInv
  <1>5. ~NoRoom.active
    BY DEF NoRoom
  <1>6. OnDisk(NoRoom) = NoRoom
    <2>1. NoRoom.users = NoSeats
      BY DEF NoRoom
    <2> QED
      BY <1>1, <2>1 DEF OnDisk, Room
  <1> QED
    BY <1>4, <1>5, <1>6

LEMMA OpenedGood ==
    ASSUME NEW i \in RoomSlots, RoomInv(rooms[i]), NEW n \in Names, NEW u \in Users
    PROVE  LET r == Opened(i, n, u)
           IN  /\ RoomInv(r) /\ r.active
               /\ ~rooms[i].active => r.name = n /\ Taken(r) = {}
               /\ rooms[i].active => r = rooms[i]
  <1>1. CASE rooms[i].active
    BY <1>1 DEF Opened
  <1>2. CASE ~rooms[i].active
    <2> DEFINE r == [NoRoom EXCEPT !.active = TRUE, !.name = n, !.creator = u,
                                   !.conf = DefaultConf]
    <2>1. Opened(i, n, u) = r
      BY <1>2 DEF Opened, RoomInv
    <2>2. NoRoom \in Room /\ Cardinality(NoRoom.banned) <= MAX_BANNED_PER_ROOM
      BY NoRoomGood DEF RoomInv
    <2>3. /\ r \in Room /\ r.active /\ r.name = n /\ r.banned = NoRoom.banned
          /\ r.users = NoRoom.users
      BY <2>2, MucAssumption DEF Room
    <2> HIDE DEF r
    <2>4. Taken(r) = {}
      BY <2>3 DEF Taken, NoRoom, NoSeats, NoSeat
    <2> QED
      BY <1>2, <2>1, <2>2, <2>3, <2>4 DEF RoomInv
  <1> QED
    BY <1>1, <1>2

(* A seat is emptied. *)
LEMMA EmptyGood ==
    ASSUME NEW r, RoomInv(r), r.active, NEW s \in Seats
    PROVE  LET q == [r EXCEPT !.users[s] = NoSeat]
           IN  /\ RoomInv(q) /\ q.active /\ q.name = r.name /\ q.creator = r.creator
               /\ q.banned = r.banned /\ OnDisk(q) = OnDisk(r)
               /\ \A t \in Taken(q) : t # s /\ q.users[t] = r.users[t] /\ t \in Taken(r)
  <1> DEFINE q == [r EXCEPT !.users[s] = NoSeat]
  <1>1. r \in Room /\ NoSeat \in Seat
    BY MucAssumption DEF RoomInv, NoSeat, Seat
  <1>2. /\ q \in Room /\ q.active /\ q.name = r.name /\ q.creator = r.creator
        /\ q.banned = r.banned /\ q.users = [r.users EXCEPT ![s] = NoSeat]
        /\ r.users \in [Seats -> Seat]
    BY <1>1 DEF Room
  <1>3. OnDisk(q) = OnDisk(r)
    BY <1>1 DEF OnDisk, Room
  <1> HIDE DEF q
  <1>4. \A t \in Taken(q) : t # s /\ q.users[t] = r.users[t] /\ t \in Taken(r)
    BY <1>2 DEF Taken, NoSeat
  <1> QED
    BY <1>2, <1>3, <1>4 DEF RoomInv, q

(* A seat is given to a user who has none. *)
LEMMA SeatGood ==
    ASSUME NEW r, RoomInv(r), r.active, NEW s \in Seats \ Taken(r),
           NEW k \in Nicks, NEW u \in Users,
           SeatsOf(r, u) = {}, NickFree(r, k, u), u \notin r.banned
    PROVE  LET q == [r EXCEPT !.users[s] = [nick |-> k, jid |-> u]]
           IN  /\ RoomInv(q) /\ q.active /\ q.name = r.name /\ q.creator = r.creator
               /\ OnDisk(q) = OnDisk(r)
  <1> DEFINE seat == [nick |-> k, jid |-> u]
             q == [r EXCEPT !.users[s] = seat]
  <1>1. r \in Room /\ seat \in Seat /\ seat.nick = k /\ seat.jid = u
    BY DEF RoomInv, Seat
  <1> HIDE DEF seat
  <1>2. /\ q \in Room /\ q.active /\ q.name = r.name /\ q.creator = r.creator
        /\ q.banned = r.banned /\ q.users = [r.users EXCEPT ![s] = seat]
        /\ r.users \in [Seats -> Seat]
    BY <1>1 DEF Room
  <1>3. OnDisk(q) = OnDisk(r)
    BY <1>1 DEF OnDisk, Room
  <1> HIDE DEF q
  <1>4. /\ q.users[s] = seat
        /\ \A t \in Taken(q) : t # s => t \in Taken(r) /\ q.users[t] = r.users[t]
    BY <1>2 DEF Taken
  <1>5. \A t \in Taken(r) : r.users[t].jid # u /\ r.users[t].nick # k
    BY DEF SeatsOf, SeatsWith, NickFree
  <1>6. \A t \in Taken(q) : q.users[t].jid \notin q.banned
    BY <1>1, <1>2, <1>4 DEF RoomInv
  <1>7. \A t, v \in Taken(q) :
          q.users[t].nick = q.users[v].nick \/ q.users[t].jid = q.users[v].jid => t = v
    BY <1>1, <1>4, <1>5 DEF RoomInv
  <1> QED
    BY <1>2, <1>3, <1>6, <1>7 DEF RoomInv, q, seat

(* An occupant gets a nick that nobody else has. *)
LEMMA NickGood ==
    ASSUME NEW r, RoomInv(r), r.active, NEW k \in Nicks, NEW u \in Users,
           NEW s \in SeatsOf(r, u), NickFree(r, k, u)
    PROVE  LET q == [r EXCEPT !.users[s].nick = k]
           IN  /\ RoomInv(q) /\ q.active /\ q.name = r.name /\ q.creator = r.creator
               /\ OnDisk(q) = OnDisk(r)
  <1> DEFINE seat == [r.users[s] EXCEPT !.nick = k]
             q == [r EXCEPT !.users[s] = seat]
  <1>1. /\ r \in Room /\ r.users \in [Seats -> Seat] /\ s \in Seats /\ s \in Taken(r)
        /\ r.users[s].jid = u
    BY DEF RoomInv, Room, SeatsOf, Taken
  <1>2. seat \in Seat /\ seat.nick = k /\ seat.jid = u
    BY <1>1 DEF Seat
  <1>3. q = [r EXCEPT !.users[s].nick = k]
    OBVIOUS
  <1> HIDE DEF seat
  <1>4. /\ q \in Room /\ q.active /\ q.name = r.name /\ q.creator = r.creator
        /\ q.banned = r.banned /\ q.users = [r.users EXCEPT ![s] = seat]
    BY <1>1, <1>2 DEF Room
  <1>5. OnDisk(q) = OnDisk(r)
    BY <1>1 DEF OnDisk, Room
  <1> HIDE DEF q
  <1>6. /\ q.users[s] = seat
        /\ \A t \in Taken(q) : t \in Taken(r) /\ (t # s => q.users[t] = r.users[t])
    BY <1>1, <1>4 DEF Taken
  <1>7. \A t \in Taken(r) : t # s => r.users[t].nick # k
    BY <1>1 DEF SeatsOf, SeatsWith, NickFree, RoomInv
  <1>8. \A t \in Taken(q) : q.users[t].jid = r.users[t].jid
    BY <1>1, <1>2, <1>6
  <1>9. \A t \in Taken(q) : q.users[t].jid \notin q.banned
    BY <1>4, <1>6, <1>8 DEF RoomInv
  <1>10. \A t, v \in Taken(q) :
          q.users[t].nick = q.users[v].nick \/ q.users[t].jid = q.users[v].jid => t = v
    BY <1>1, <1>2, <1>6, <1>7, <1>8 DEF RoomInv
  <1> QED
    BY <1>3, <1>4, <1>5, <1>9, <1>10 DEF RoomInv

(* A user who has lost the seat is put on the list of banned jids. *)
LEMMA BanGood ==
    ASSUME NEW r, RoomInv(r), r.active, NEW w \in Users, BanListOpen(r),
           \A t \in Taken(r) : r.users[t].jid # w
    PROVE  LET q == [r EXCEPT !.banned = @ \cup {w}]
           IN  RoomInv(q) /\ q.active /\ q.name = r.name /\ q.creator = r.creator
  <1> DEFINE q == [r EXCEPT !.banned = r.banned \cup {w}]
  <1>1. r \in Room /\ r.banned \subseteq Users
    BY DEF RoomInv, Room
  <1>2. /\ q \in Room /\ q.active /\ q.name = r.name /\ q.creator = r.creator
        /\ q.users = r.users /\ q.banned = r.banned \cup {w}
    BY <1>1 DEF Room
  <1> HIDE DEF q
  <1>3. IsFiniteSet(r.banned)
    BY <1>1, FS_Subset, MucAssumption
  <1>4. Cardinality(r.banned) \in Nat
    BY <1>3, FS_CardinalityType
  <1>5. Cardinality(q.banned) <= MAX_BANNED_PER_ROOM
    <2> DEFINE card == Cardinality(r.banned)
    <2>1. Cardinality(r.banned \cup {w}) = IF w \in r.banned THEN card ELSE card + 1
      BY <1>3, FS_AddElement
    <2>2. card \in Nat /\ card < MAX_BANNED_PER_ROOM
      BY <1>4 DEF BanListOpen
    <2> HIDE DEF card
    <2> QED
      BY <1>2, <2>1, <2>2, MucAssumption
  <1>6. Taken(q) = Taken(r)
    BY <1>2 DEF Taken
  <1> QED
    BY <1>2, <1>5, <1>6 DEF RoomInv, q

(***************************************************************************)
(* A handler that leaves room r in slot i.                                 *)
(***************************************************************************)

(* What the proofs need of the new room. *)
Allowed(i, r, save) ==
    /\ RoomInv(r)
    /\ ~save => OnDisk(r) = OnDisk(rooms[i])
    /\ r.active => \/ rooms[i].active /\ r.name = rooms[i].name
                   \/ Named(r.name) = {}
    /\ rooms[i].active /\ r.active => r.creator = rooms[i].creator

Kept == \A i \in RoomSlots :
    rooms[i].active /\ rooms'[i].active => rooms'[i].creator = rooms[i].creator

LEMMA StoresStep ==
    ASSUME IInv, NEW i \in RoomSlots, NEW r, NEW save,
           Allowed(i, r, save), Stores(i, r, save),
           online' \subseteq Users, told' \subseteq Users \X Names
    PROVE  IInv' /\ Kept
  <1>1. /\ rooms \in [RoomSlots -> Room] /\ r \in Room
        /\ rooms' = [rooms EXCEPT ![i] = r]
        /\ rooms' \in [RoomSlots -> Room]
    BY DEF IInv, Stores, Allowed, RoomInv
  <1>2. rooms'[i] = r /\ \A j \in RoomSlots : j # i => rooms'[j] = rooms[j]
    BY <1>1
  <1>3. \A j \in RoomSlots : RoomInv(rooms'[j])
    BY <1>2 DEF IInv, Allowed
  <1>4. Kept
    BY <1>2 DEF Kept, Allowed
  <1>5. RoomNamesUnique'
    <2> SUFFICES ASSUME NEW j \in RoomSlots, NEW k \in RoomSlots, j # k,
                        rooms'[j].active, rooms'[k].active,
                        rooms'[j].name = rooms'[k].name
                 PROVE  FALSE
      BY DEF RoomNamesUnique
    <2>1. \A l \in RoomSlots : l # i /\ rooms[l].active => ~(r.active /\ rooms[l].name = r.name)
      BY DEF IInv, RoomNamesUnique, Allowed, Named
    <2> QED
      BY <1>2, <2>1 DEF IInv, RoomNamesUnique
  <1>6. RoomsSaved'
    <2>1. CASE save
      BY <2>1 DEF Stores, RoomsSaved
    <2>2. CASE ~save
      <3>1. \A j \in RoomSlots : OnDisk(rooms'[j]) = OnDisk(rooms[j])
        BY <1>2, <2>2 DEF Allowed
      <3>2. saved' = [j \in RoomSlots |-> OnDisk(rooms[j])]
        BY <2>2 DEF Stores, IInv, RoomsSaved
      <3> QED
        BY <3>1, <3>2 DEF RoomsSaved
    <2> QED
      BY <2>1, <2>2
  <1>7. (\A j \in RoomSlots : RoomInv(rooms[j]))'
    BY <1>3 DEF RoomInv, Taken
  <1> QED
    BY <1>1, <1>4, <1>5, <1>6, <1>7 DEF IInv

(* The room that is found by its name. *)
LEMMA FoundRoom ==
    ASSUME IInv, NEW n \in Names, NEW i \in FirstOf(Named(n))
    PROVE  i \in RoomSlots /\ RoomInv(rooms[i]) /\ rooms[i].active /\ rooms[i].name = n
  BY DEF IInv, FirstOf, Named

(* The room that a presence goes to. *)
LEMMA RoomForGood ==
    ASSUME IInv, NEW n \in Names, NEW i \in RoomFor(n)
    PROVE  /\ i \in RoomSlots /\ RoomInv(rooms[i])
           /\ ~rooms[i].active => Named(n) = {}
  BY DEF IInv, RoomFor, FirstOf, Named

LEMMA JoinStep ==
    ASSUME IInv, NEW u \in Users, NEW n \in Names, NEW k \in Nicks, Join(u, n, k)
    PROVE  IInv' /\ Kept
  <1>1. PICK i \in RoomFor(n) : LET r == Opened(i, n, u) IN
          /\ SeatsOf(r, u) = {}
          /\ ~IsBanned(r, u)
          /\ NickFree(r, k, u)
          /\ \E q \in Seated(r, k, u) : Stores(i, q, ~rooms[i].active)
    BY DEF Join
  <1> DEFINE r == Opened(i, n, u)
  <1>2. PICK q \in Seated(r, k, u) : Stores(i, q, ~rooms[i].active)
    BY <1>1
  <1>3. /\ i \in RoomSlots /\ RoomInv(rooms[i])
        /\ ~rooms[i].active => Named(n) = {}
    BY RoomForGood
  <1>4. /\ RoomInv(r) /\ r.active
        /\ ~rooms[i].active => r.name = n
        /\ rooms[i].active => r = rooms[i]
    BY <1>3, OpenedGood
  <1>5. SeatsOf(r, u) = {} /\ u \notin r.banned /\ NickFree(r, k, u)
    BY <1>1 DEF IsBanned
  <1> HIDE DEF r
  <1>6. /\ RoomInv(q) /\ q.active /\ q.name = r.name /\ q.creator = r.creator
        /\ OnDisk(q) = OnDisk(r)
    <2>1. CASE q = r
      BY <1>4, <2>1
    <2>2. CASE q # r
      <3>1. PICK s \in FirstOf(Seats \ Taken(r)) :
              q = [r EXCEPT !.users[s] = [nick |-> k, jid |-> u]]
        BY <2>2 DEF Seated
      <3>2. s \in Seats \ Taken(r)
        BY DEF FirstOf
      <3> QED
        BY <1>4, <1>5, <3>1, <3>2, SeatGood
    <2> QED
      BY <2>1, <2>2
  <1>7. Allowed(i, q, ~rooms[i].active)
    BY <1>3, <1>4, <1>6 DEF Allowed
  <1>8. online' \subseteq Users /\ told' \subseteq Users \X Names
    BY DEF Join, IInv
  <1> QED
    BY <1>2, <1>3, <1>7, <1>8, StoresStep

LEMMA ChangeNickStep ==
    ASSUME IInv, NEW u \in Users, NEW n \in Names, NEW k \in Nicks, ChangeNick(u, n, k)
    PROVE  IInv' /\ Kept
  <1>1. PICK i \in FirstOf(Named(n)) : \E s \in FirstOf(SeatsOf(rooms[i], u)) :
          /\ NickFree(rooms[i], k, u)
          /\ Stores(i, [rooms[i] EXCEPT !.users[s].nick = k], FALSE)
    BY DEF ChangeNick
  <1>2. PICK s \in SeatsOf(rooms[i], u) :
          /\ NickFree(rooms[i], k, u)
          /\ Stores(i, [rooms[i] EXCEPT !.users[s].nick = k], FALSE)
    BY <1>1 DEF FirstOf
  <1>3. i \in RoomSlots /\ RoomInv(rooms[i]) /\ rooms[i].active
    BY FoundRoom
  <1> DEFINE q == [rooms[i] EXCEPT !.users[s].nick = k]
  <1>4. /\ RoomInv(q) /\ q.active /\ q.name = rooms[i].name
        /\ q.creator = rooms[i].creator /\ OnDisk(q) = OnDisk(rooms[i])
    BY <1>2, <1>3, NickGood
  <1>5. Stores(i, q, FALSE)
    BY <1>2
  <1> HIDE DEF q
  <1>6. Allowed(i, q, FALSE)
    BY <1>3, <1>4 DEF Allowed
  <1>7. online' \subseteq Users /\ told' \subseteq Users \X Names
    BY DEF ChangeNick, IInv
  <1> QED
    BY <1>3, <1>5, <1>6, <1>7, StoresStep

LEMMA LeaveStep ==
    ASSUME IInv, NEW u \in Users, NEW n \in Names, NEW k \in Nicks, Leave(u, n, k)
    PROVE  IInv' /\ Kept
  <1>1. PICK i \in FirstOf(Named(n)) : \E s \in Seats :
          LeftRoom(i, [rooms[i] EXCEPT !.users[s] = NoSeat])
    BY DEF Leave, FirstOf, SeatsWith, Taken
  <1>2. PICK s \in Seats : LeftRoom(i, [rooms[i] EXCEPT !.users[s] = NoSeat])
    BY <1>1
  <1>3. i \in RoomSlots /\ RoomInv(rooms[i]) /\ rooms[i].active
    BY FoundRoom
  <1> DEFINE r == [rooms[i] EXCEPT !.users[s] = NoSeat]
  <1>4. /\ RoomInv(r) /\ r.active /\ r.name = rooms[i].name
        /\ r.creator = rooms[i].creator /\ OnDisk(r) = OnDisk(rooms[i])
    BY <1>3, EmptyGood
  <1>5. LeftRoom(i, r)
    BY <1>2
  <1> HIDE DEF r
  <1>6. online' \subseteq Users /\ told' \subseteq Users \X Names
    BY DEF Leave, IInv
  <1>7. CASE Taken(r) # {}
    <2>1. Allowed(i, r, FALSE) /\ Stores(i, r, FALSE)
      BY <1>3, <1>4, <1>5, <1>7 DEF Allowed, LeftRoom
    <2> QED
      BY <1>3, <1>6, <2>1, StoresStep
  <1>8. CASE Taken(r) = {}
    <2>1. Stores(i, Ended(r), TRUE)
      BY <1>5, <1>8 DEF LeftRoom
    <2>2. Allowed(i, Ended(r), TRUE)
      BY <1>3, <1>4, NoRoomGood DEF Allowed, Ended
    <2> QED
      BY <1>3, <1>6, <2>1, <2>2, StoresStep
  <1> QED
    BY <1>7, <1>8

LEMMA LeaveNewRoomStep ==
    ASSUME IInv, NEW u \in Users, NEW n \in Names, LeaveNewRoom(u, n)
    PROVE  IInv' /\ Kept
  <1>1. PICK i \in RoomFor(n) : Stores(i, Opened(i, n, u), TRUE)
    BY DEF LeaveNewRoom
  <1>2. /\ i \in RoomSlots /\ RoomInv(rooms[i]) /\ ~rooms[i].active
        /\ Named(n) = {}
    BY RoomForGood DEF LeaveNewRoom, RoomFor, FirstOf
  <1>3. RoomInv(Opened(i, n, u)) /\ Opened(i, n, u).name = n
    BY <1>2, OpenedGood
  <1>4. Allowed(i, Opened(i, n, u), TRUE)
    BY <1>2, <1>3 DEF Allowed
  <1>5. online' \subseteq Users /\ told' \subseteq Users \X Names
    BY DEF LeaveNewRoom, IInv
  <1> QED
    BY <1>1, <1>2, <1>4, <1>5, StoresStep

(* A request of handle_muc_admin means a seat that is taken. *)
LEMMA MeantTaken == ASSUME NEW r, NEW k PROVE Meant(r, k) \subseteq Taken(r)
  BY DEF Meant, FirstOf, SeatsWith

LEMMA KickStep ==
    ASSUME IInv, NEW u \in Users, NEW n \in Names, NEW k, Kick(u, n, k)
    PROVE  IInv' /\ Kept
  <1>1. PICK i \in FirstOf(Named(n)) : \E s \in Meant(rooms[i], k) :
          Stores(i, [rooms[i] EXCEPT !.users[s] = NoSeat], FALSE)
    BY DEF Kick
  <1>2. PICK s \in Seats : Stores(i, [rooms[i] EXCEPT !.users[s] = NoSeat], FALSE)
    BY <1>1, MeantTaken DEF Taken
  <1>3. i \in RoomSlots /\ RoomInv(rooms[i]) /\ rooms[i].active
    BY FoundRoom
  <1> DEFINE r == [rooms[i] EXCEPT !.users[s] = NoSeat]
  <1>4. /\ RoomInv(r) /\ r.active /\ r.name = rooms[i].name
        /\ r.creator = rooms[i].creator /\ OnDisk(r) = OnDisk(rooms[i])
    BY <1>3, EmptyGood
  <1>5. Stores(i, r, FALSE)
    BY <1>2
  <1> HIDE DEF r
  <1>6. Allowed(i, r, FALSE)
    BY <1>3, <1>4 DEF Allowed
  <1>7. online' \subseteq Users /\ told' \subseteq Users \X Names
    BY DEF Kick, ToldOut, IInv
  <1> QED
    BY <1>3, <1>5, <1>6, <1>7, StoresStep

LEMMA BanStep ==
    ASSUME IInv, NEW u \in Users, NEW n \in Names, NEW k, Ban(u, n, k)
    PROVE  IInv' /\ Kept
  <1>1. PICK i \in FirstOf(Named(n)) : \E s \in Meant(rooms[i], k) :
          LET w == rooms[i].users[s].jid
              r == [rooms[i] EXCEPT !.users[s] = NoSeat]
          IN  IF BanListOpen(r)
              THEN Stores(i, [r EXCEPT !.banned = @ \cup {w}], TRUE)
              ELSE Stores(i, r, FALSE)
    BY DEF Ban
  <1>2. PICK s \in Taken(rooms[i]) :
          LET w == rooms[i].users[s].jid
              r == [rooms[i] EXCEPT !.users[s] = NoSeat]
          IN  IF BanListOpen(r)
              THEN Stores(i, [r EXCEPT !.banned = @ \cup {w}], TRUE)
              ELSE Stores(i, r, FALSE)
    BY <1>1, MeantTaken
  <1>3. i \in RoomSlots /\ RoomInv(rooms[i]) /\ rooms[i].active /\ s \in Seats
    BY FoundRoom DEF Taken
  <1> DEFINE w == rooms[i].users[s].jid
             r == [rooms[i] EXCEPT !.users[s] = NoSeat]
             q == [r EXCEPT !.banned = @ \cup {w}]
  <1>4. /\ RoomInv(r) /\ r.active /\ r.name = rooms[i].name
        /\ r.creator = rooms[i].creator /\ OnDisk(r) = OnDisk(rooms[i])
        /\ \A t \in Taken(r) : t # s /\ r.users[t] = rooms[i].users[t] /\ t \in Taken(rooms[i])
    BY <1>3, EmptyGood
  <1>5. IF BanListOpen(r) THEN Stores(i, q, TRUE) ELSE Stores(i, r, FALSE)
    BY <1>2
  <1>6. w \in Users
    BY <1>3 DEF RoomInv, Room, Seat, Taken
  <1> HIDE DEF r
  <1>7. \A t \in Taken(r) : r.users[t].jid # w
    BY <1>3, <1>4 DEF RoomInv
  <1>8. online' \subseteq Users /\ told' \subseteq Users \X Names
    BY DEF Ban, ToldOut, IInv
  <1>9. CASE BanListOpen(r)
    <2> HIDE DEF w
    <2>1. RoomInv(q) /\ q.active /\ q.name = r.name /\ q.creator = r.creator
      BY <1>4, <1>6, <1>7, <1>9, BanGood DEF w
    <2>2. Stores(i, q, TRUE)
      BY <1>5, <1>9
    <2> HIDE DEF q
    <2>3. Allowed(i, q, TRUE)
      BY <1>3, <1>4, <2>1 DEF Allowed
    <2> QED
      BY <1>3, <1>8, <2>2, <2>3, StoresStep
  <1>10. CASE ~BanListOpen(r)
    <2>1. Allowed(i, r, FALSE)
      BY <1>3, <1>4 DEF Allowed
    <2> QED
      BY <1>3, <1>5, <1>8, <1>10, <2>1, StoresStep
  <1> QED
    BY <1>9, <1>10

LEMMA DestroyStep ==
    ASSUME IInv, NEW u \in Users, NEW n \in Names, Destroy(u, n)
    PROVE  IInv' /\ Kept
  <1>1. PICK i \in FirstOf(Named(n)) : Stores(i, NoRoom, TRUE) /\ told' \subseteq told
    BY DEF Destroy
  <1>2. i \in RoomSlots
    BY FoundRoom
  <1>3. Allowed(i, NoRoom, TRUE)
    BY NoRoomGood DEF Allowed
  <1>4. online' \subseteq Users /\ told' \subseteq Users \X Names
    BY <1>1 DEF Destroy, IInv
  <1> QED
    BY <1>1, <1>2, <1>3, <1>4, StoresStep

LEMMA ConfStep ==
    ASSUME IInv, NEW u \in Users, NEW n \in Names, NEW p \in BOOLEAN, NEW c \in Confs,
           Configure(u, n, p, c) \/ SetSubject(u, n, c)
    PROVE  IInv' /\ Kept
  <1>1. PICK i \in FirstOf(Named(n)) :
          \/ Stores(i, [rooms[i] EXCEPT !.persistent = p, !.conf = c], TRUE)
          \/ Stores(i, [rooms[i] EXCEPT !.conf = c], TRUE)
    BY DEF Configure, SetSubject
  <1>2. PICK q : /\ \/ q = [rooms[i] EXCEPT !.persistent = p, !.conf = c]
                    \/ q = [rooms[i] EXCEPT !.conf = c]
                 /\ Stores(i, q, TRUE)
    BY <1>1
  <1>3. i \in RoomSlots /\ RoomInv(rooms[i]) /\ rooms[i].active
    BY FoundRoom
  <1>4. /\ RoomInv(q) /\ q.active /\ q.name = rooms[i].name
        /\ q.creator = rooms[i].creator
    <2>1. rooms[i] \in Room
      BY <1>3 DEF RoomInv
    <2>2. /\ q \in Room /\ q.active /\ q.name = rooms[i].name
          /\ q.creator = rooms[i].creator
          /\ q.users = rooms[i].users /\ q.banned = rooms[i].banned
      BY <1>2, <1>3, <2>1 DEF Room
    <2>3. Taken(q) = Taken(rooms[i])
      BY <2>2 DEF Taken
    <2> QED
      BY <1>3, <2>2, <2>3 DEF RoomInv
  <1>5. Allowed(i, q, TRUE)
    BY <1>3, <1>4 DEF Allowed
  <1>6. online' \subseteq Users /\ told' \subseteq Users \X Names
    BY DEF Configure, SetSubject, IInv
  <1> QED
    BY <1>2, <1>3, <1>5, <1>6, StoresStep

LEMMA SessionStep ==
    ASSUME IInv, NEW u \in Users, Login(u) \/ Logout(u)
    PROVE  IInv' /\ Kept
  <1>1. /\ rooms' = rooms /\ saved' = saved
        /\ online' \subseteq Users /\ told' \subseteq Users \X Names
    BY DEF Login, Logout, IInv
  <1>2. (\A j \in RoomSlots : RoomInv(rooms[j]))' /\ RoomNamesUnique' /\ RoomsSaved'
    BY <1>1 DEF IInv, RoomNamesUnique, RoomsSaved, RoomInv, Taken, OnDisk
  <1> QED
    BY <1>1, <1>2 DEF IInv, Kept

(* A room that is written and read back is in order, without occupants. *)
LEMMA OnDiskGood ==
    ASSUME NEW r, RoomInv(r)
    PROVE  LET q == OnDisk(r)
           IN  /\ RoomInv(q) /\ q.active = r.active /\ q.name = r.name
               /\ q.creator = r.creator /\ OnDisk(q) = q
  <1> DEFINE q == OnDisk(r)
  <1>1. r \in Room /\ NoSeats \in [Seats -> Seat]
    BY MucAssumption DEF RoomInv, NoSeats, NoSeat, Seat
  <1>2. /\ q \in Room /\ q.active = r.active /\ q.name = r.name
        /\ q.creator = r.creator /\ q.banned = r.banned /\ q.users = NoSeats
    BY <1>1 DEF OnDisk, Room
  <1>3. ~r.active => q = NoRoom
    BY NoRoomGood DEF RoomInv
  <1> HIDE DEF q
  <1>4. OnDisk(q) = q
    BY <1>2 DEF OnDisk, Room
  <1>5. Taken(q) = {}
    BY <1>2 DEF Taken, NoSeats, NoSeat
  <1> QED
    BY <1>2, <1>3, <1>4, <1>5 DEF RoomInv, q

LEMMA RestartStep ==
    ASSUME IInv, Restart
    PROVE  IInv' /\ Kept
  <1>1. /\ rooms' = [j \in RoomSlots |-> OnDisk(rooms[j])] /\ saved' = rooms'
        /\ online' = {} /\ told' = {}
    BY DEF Restart, IInv, RoomsSaved
  <1>2. \A j \in RoomSlots :
          /\ RoomInv(rooms'[j]) /\ rooms'[j].active = rooms[j].active
          /\ rooms'[j].name = rooms[j].name /\ rooms'[j].creator = rooms[j].creator
          /\ OnDisk(rooms'[j]) = rooms'[j]
    BY <1>1, OnDiskGood DEF IInv
  <1>3. rooms' \in [RoomSlots -> Room]
    BY <1>1, <1>2 DEF RoomInv
  <1>4. RoomNamesUnique' /\ Kept
    BY <1>2 DEF RoomNamesUnique, Kept, IInv
  <1>5. RoomsSaved'
    BY <1>1, <1>2, <1>3 DEF RoomsSaved
  <1>6. (\A j \in RoomSlots : RoomInv(rooms[j]))'
    BY <1>2 DEF RoomInv, Taken
  <1> QED
    BY <1>1, <1>3, <1>4, <1>5, <1>6 DEF IInv

----------------------------------------------------------------------------
(***************************************************************************)
(* The theorems.                                                           *)
(***************************************************************************)

LEMMA InitGood == Init => IInv
  <1> SUFFICES ASSUME Init PROVE IInv
    OBVIOUS
  <1>1. /\ \A i \in RoomSlots : rooms[i] = NoRoom
        /\ rooms = [i \in RoomSlots |-> NoRoom] /\ saved = [i \in RoomSlots |-> NoRoom]
        /\ online = {} /\ told = {}
    BY DEF Init
  <1>2. RoomInv(NoRoom) /\ ~NoRoom.active /\ OnDisk(NoRoom) = NoRoom /\ NoRoom \in Room
    BY NoRoomGood DEF RoomInv
  <1>3. RoomNamesUnique /\ RoomsSaved
    BY <1>1, <1>2 DEF RoomNamesUnique, RoomsSaved
  <1> QED
    BY <1>1, <1>2, <1>3 DEF IInv

LEMMA StepGood == IInv /\ [Next]_vars => IInv' /\ [Kept]_vars
  <1> SUFFICES ASSUME IInv, [Next]_vars PROVE IInv' /\ [Kept]_vars
    OBVIOUS
  <1>1. CASE UNCHANGED vars
    <2>1. (\A j \in RoomSlots : RoomInv(rooms[j]))' /\ RoomNamesUnique' /\ RoomsSaved'
      BY <1>1 DEF vars, IInv, RoomNamesUnique, RoomsSaved, RoomInv, Taken, OnDisk
    <2> QED
      BY <1>1, <2>1 DEF vars, IInv
  <1>2. CASE Next
    <2>1. CASE \E u \in Users : Login(u) \/ Logout(u)
      BY <2>1, SessionStep
    <2>2. CASE Restart
      BY <2>2, RestartStep
    <2>3. ASSUME NEW u \in Users, NEW n \in Names, Request(u, n)
          PROVE  IInv' /\ Kept
      BY <2>3, JoinStep, ChangeNickStep, LeaveStep, LeaveNewRoomStep, KickStep, BanStep,
         DestroyStep, ConfStep
      DEF Request
    <2> QED
      BY <1>2, <2>1, <2>2, <2>3 DEF Next
  <1> QED
    BY <1>1, <1>2

(* Every reachable state has rooms in order, as they are on the disk.      *)
THEOREM Invariance == Spec => []IInv
  BY InitGood, StepGood, PTL DEF Spec

(* The type invariant, and no list of banned jids is overrun               *)
(* (handle_muc_admin).                                                     *)
THEOREM TypeCorrect == Spec => []TypeOK
  <1>1. IInv => TypeOK
    <2> SUFFICES ASSUME IInv PROVE TypeOK
      OBVIOUS
    <2>1. \A i \in RoomSlots : OnDisk(rooms[i]) \in Room
      BY OnDiskGood DEF IInv, RoomInv
    <2> QED
      BY <2>1 DEF IInv, TypeOK, RoomsSaved, RoomInv
  <1> QED
    BY <1>1, Invariance, PTL

(* No two occupants of a room have the same nick or are the same user, for *)
(* every order of the requests (handle_muc_presence).                      *)
THEOREM Seating == Spec => []SeatsUnique
  <1>1. IInv => SeatsUnique
    BY DEF IInv, SeatsUnique, RoomInv
  <1> QED
    BY <1>1, Invariance, PTL

(* A name means one room (handle_muc_presence, try_load).                  *)
THEOREM Naming == Spec => []RoomNamesUnique
  <1>1. IInv => RoomNamesUnique
    BY DEF IInv
  <1> QED
    BY <1>1, Invariance, PTL

(* A banned user has no seat (handle_muc_admin, handle_muc_presence).      *)
THEOREM Bans == Spec => []BannedStayOut
  <1>1. IInv => BannedStayOut
    BY DEF IInv, BannedStayOut, RoomInv
  <1> QED
    BY <1>1, Invariance, PTL

(* Every change of a room that a restart restores is saved by the handler  *)
(* that makes it (xmpp_persist_save_rooms).                                *)
THEOREM Saving == Spec => []RoomsSaved
  <1>1. IInv => RoomsSaved
    BY DEF IInv
  <1> QED
    BY <1>1, Invariance, PTL

(* A room has one owner from its creation to its end, restarts included.   *)
THEOREM Owning == Spec => OwnerKept
  <1>1. [Kept]_vars =>
          [\A i \in RoomSlots : rooms[i].active /\ rooms'[i].active
                                => rooms'[i].creator = rooms[i].creator]_vars
    BY DEF Kept
  <1> QED
    BY <1>1, Invariance, StepGood, PTL DEF Spec, OwnerKept
=============================================================================

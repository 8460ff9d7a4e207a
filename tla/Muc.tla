-------------------------------- MODULE Muc --------------------------------
(***************************************************************************)
(* Multi-user chat: the rooms of src/src/xmpp/xmpp_handlers.c              *)
(* (handle_muc_presence, handle_muc_admin, handle_muc_owner and the group  *)
(* part of handle_chat_message) and their copy on the disk                 *)
(* (xmpp_persist_save_rooms).                                              *)
(*                                                                         *)
(* A handler runs to its end before the next one.  Requests of any user    *)
(* with a session come in any order, sessions end without a word to the    *)
(* rooms, and the machine restarts with the rooms of the disk.             *)
(*                                                                         *)
(* locked is left out: no code ever sets it.  A user is the bare jid of a  *)
(* bound session; a user has one session at a time (see Session).          *)
(***************************************************************************)
EXTENDS Naturals, FiniteSets

CONSTANTS
    MAX_ROOMS,
    MAX_USERS_PER_ROOM,
    MAX_BANNED_PER_ROOM,
    Names, NoName,       \* names of rooms; the empty string
    Nicks, NoNick,
    Users, NoUser,       \* bare jids
    Confs, DefaultConf   \* subject, semi_anon, moderated and members_only, which the
                         \* code only stores and shows

ASSUME MucAssumption ==
    /\ MAX_ROOMS \in Nat
    /\ MAX_USERS_PER_ROOM \in Nat
    /\ MAX_BANNED_PER_ROOM \in Nat
    /\ NoName \notin Names
    /\ NoNick \notin Nicks
    /\ NoUser \notin Users
    /\ IsFiniteSet(Users)
    /\ DefaultConf \in Confs

RoomSlots == 1 .. MAX_ROOMS
Seats == 1 .. MAX_USERS_PER_ROOM

(* participant_t; active is jid # NoUser. *)
Seat == [nick : Nicks \cup {NoNick}, jid : Users \cup {NoUser}]
NoSeat == [nick |-> NoNick, jid |-> NoUser]
NoSeats == [s \in Seats |-> NoSeat]

(* room_t.  banned holds banned_jids[0 .. banned_count - 1].  *)
Room == [active : BOOLEAN, name : Names \cup {NoName}, creator : Users \cup {NoUser},
         persistent : BOOLEAN, conf : Confs, banned : SUBSET Users,
         users : [Seats -> Seat]]

(* A slot without a room: after memset to 0, or after Ended.  Its conf is   *)
(* of no account (Ended leaves semi_anon as it was): a new room starts     *)
(* with the defaults.                                                      *)
NoRoom ==
    [active |-> FALSE, name |-> NoName, creator |-> NoUser, persistent |-> FALSE,
     conf |-> DefaultConf, banned |-> {}, users |-> NoSeats]

(* persist_room_entry_t has everything but the occupants. *)
OnDisk(r) == [r EXCEPT !.users = NoSeats]

VARIABLES
    rooms,
    saved,   \* the rooms on the disk
    online,  \* users with a session: find_client_by_jid finds them
    told     \* history: <<u, n>>, the session of u was told that it is in room n (status
             \* 110) and not that it is out of it

vars == <<rooms, saved, online, told>>

----------------------------------------------------------------------------
(* Looking things up.                                                      *)

(* What a loop over the indices in S that stops at the first finds. *)
FirstOf(S) == {i \in S : \A j \in S : i <= j}

(* Mutant: a room without occupants is not found by its name. *)
NamedOccupied(n) ==
    {i \in RoomSlots : /\ rooms[i].active /\ rooms[i].name = n
                       /\ \E s \in Seats : rooms[i].users[s] # NoSeat}

(* The active rooms of that name. *)
Named(n) == {i \in RoomSlots : rooms[i].active /\ rooms[i].name = n}

(* The room a presence goes to: the one of that name, or one to create. *)
RoomFor(n) ==
    IF Named(n) # {} THEN FirstOf(Named(n))
    ELSE FirstOf({i \in RoomSlots : ~rooms[i].active})

(* That room, created by u if there was none. *)
Opened(i, n, u) ==
    IF rooms[i].active THEN rooms[i]
    ELSE [rooms[i] EXCEPT !.active = TRUE, !.name = n, !.creator = u, !.conf = DefaultConf]

Taken(r) == {s \in Seats : r.users[s].jid # NoUser}
SeatsOf(r, u) == {s \in Taken(r) : r.users[s].jid = u}
SeatsWith(r, k) == {s \in Taken(r) : r.users[s].nick = k}

(* Mutant: a nick is looked for at the user's own seat only. *)
NickFreeAtOwnSeat(r, k, u) == \A s \in SeatsWith(r, k) : s \notin SeatsOf(r, u)

(* No other user has the nick. *)
NickFree(r, k, u) == SeatsWith(r, k) \subseteq SeatsOf(r, u)

(* The handler leaves room r in slot i; with save, it has called           *)
(* xmpp_persist_save_rooms, which writes all rooms.  A save that fails or  *)
(* is cut short is a matter of Persist.                                    *)
Stores(i, r, save) ==
    /\ rooms' = [rooms EXCEPT ![i] = r]
    /\ saved' = IF save THEN [j \in RoomSlots |-> OnDisk(rooms'[j])] ELSE saved

----------------------------------------------------------------------------
Init ==
    /\ rooms = [i \in RoomSlots |-> NoRoom]
    /\ saved = [i \in RoomSlots |-> NoRoom]
    /\ online = {}
    /\ told = {}

(* Sessions come and go.  A new session of a user ends the old one; no     *)
(* handler takes the user's seats away.                                    *)
ToldOf(u) == {t \in told : t[1] = u}

Login(u) ==
    /\ online' = online \cup {u}
    /\ told' = told \ ToldOf(u)
    /\ UNCHANGED <<rooms, saved>>

Logout(u) ==
    /\ u \in online
    /\ online' = online \ {u}
    /\ told' = told \ ToldOf(u)
    /\ UNCHANGED <<rooms, saved>>

(* A restart: try_load reads the rooms back, without occupants. *)
Restart ==
    /\ rooms' = saved
    /\ online' = {}
    /\ told' = {}
    /\ UNCHANGED saved

----------------------------------------------------------------------------
(* handle_muc_presence.                                                    *)

(* Mutant: the list of banned jids is not looked at. *)
NobodyBanned(r, u) == FALSE

IsBanned(r, u) == u \in r.banned

(* The first free seat goes to u; a full room answers in the same way. *)
Seated(r, k, u) ==
    {[r EXCEPT !.users[s] = [nick |-> k, jid |-> u]] : s \in FirstOf(Seats \ Taken(r))}
        \cup (IF Seats = Taken(r) THEN {r} ELSE {})

(* An available presence of a user who has no seat.  A banned user and a   *)
(* nick that is taken are refused.                                         *)
Join(u, n, k) ==
    /\ u \in online
    /\ \E i \in RoomFor(n) : LET r == Opened(i, n, u) IN
          /\ SeatsOf(r, u) = {}
          /\ ~IsBanned(r, u)
          /\ NickFree(r, k, u)
          /\ \E q \in Seated(r, k, u) : Stores(i, q, ~rooms[i].active)
    /\ told' = told \cup {<<u, n>>}
    /\ UNCHANGED online

(* An available presence of a user who has a seat, with another nick.      *)
(* With the same nick it is only passed on.                                *)
ChangeNick(u, n, k) ==
    /\ u \in online
    /\ \E i \in FirstOf(Named(n)) : \E s \in FirstOf(SeatsOf(rooms[i], u)) :
          /\ rooms[i].users[s].nick # k
          /\ NickFree(rooms[i], k, u)
          /\ Stores(i, [rooms[i] EXCEPT !.users[s].nick = k], FALSE)
    /\ UNCHANGED <<online, told>>

(* The last occupant's seat is empty: a room that is not persistent ends. *)
Ended(r) == IF r.persistent THEN r ELSE NoRoom

(* Mutant: only a room that stays is written. *)
LeftRoomSavedIfKept(i, r) ==
    IF Taken(r) = {} THEN Stores(i, Ended(r), r.persistent) ELSE Stores(i, r, FALSE)

(* What is done with a room after one has left it. *)
LeftRoom(i, r) ==
    IF Taken(r) = {} THEN Stores(i, Ended(r), TRUE) ELSE Stores(i, r, FALSE)

(* An unavailable presence takes the seat with that nick away, whoever     *)
(* sits there, and answers the sender.                                     *)
Leave(u, n, k) ==
    /\ u \in online
    /\ \E i \in FirstOf(Named(n)) : \E s \in FirstOf(SeatsWith(rooms[i], k)) :
          LeftRoom(i, [rooms[i] EXCEPT !.users[s] = NoSeat])
    /\ told' = told \ {<<u, n>>}
    /\ UNCHANGED online

(* An unavailable presence for a room that does not exist creates it. *)
LeaveNewRoom(u, n) ==
    /\ u \in online
    /\ Named(n) = {}
    /\ \E i \in RoomFor(n) : Stores(i, Opened(i, n, u), TRUE)
    /\ UNCHANGED <<online, told>>

----------------------------------------------------------------------------
(* handle_muc_admin.                                                       *)

(* The seat that a request means: without a nick, the first one taken. *)
Meant(r, k) == FirstOf(IF k = NoNick THEN Taken(r) ELSE SeatsWith(r, k))

(* The one who loses the seat is told, if online. *)
ToldOut(w, n) == told' = IF w \in online THEN told \ {<<w, n>>} ELSE told

Kick(u, n, k) ==
    /\ u \in online
    /\ \E i \in FirstOf(Named(n)) : \E s \in Meant(rooms[i], k) :
          /\ Stores(i, [rooms[i] EXCEPT !.users[s] = NoSeat], FALSE)
          /\ ToldOut(rooms[i].users[s].jid, n)
    /\ UNCHANGED online

(* Mutant: one more than the array holds. *)
BanListOpenAtMax(r) == Cardinality(r.banned) <= MAX_BANNED_PER_ROOM

BanListOpen(r) == Cardinality(r.banned) < MAX_BANNED_PER_ROOM

(* With a full list the seat is lost and nothing is recorded. *)
Ban(u, n, k) ==
    /\ u \in online
    /\ \E i \in FirstOf(Named(n)) : \E s \in Meant(rooms[i], k) :
          LET w == rooms[i].users[s].jid
              r == [rooms[i] EXCEPT !.users[s] = NoSeat]
          IN  /\ IF BanListOpen(r)
                 THEN Stores(i, [r EXCEPT !.banned = @ \cup {w}], TRUE)
                 ELSE Stores(i, r, FALSE)
              /\ ToldOut(w, n)
    /\ UNCHANGED online

----------------------------------------------------------------------------
(* handle_muc_owner, and a subject in handle_chat_message.                 *)

(* <destroy/>: every occupant who is online is told. *)
Destroy(u, n) ==
    /\ u \in online
    /\ \E i \in FirstOf(Named(n)) :
          /\ Stores(i, NoRoom, TRUE)
          /\ told' = told \ {<<w, n>> : w \in {v \in online : SeatsOf(rooms[i], v) # {}}}
    /\ UNCHANGED online

(* Mutant: whoever submits the form becomes the owner. *)
ConfigureTakesOver(u, n, p, c) ==
    /\ u \in online
    /\ \E i \in FirstOf(Named(n)) :
          Stores(i, [rooms[i] EXCEPT !.persistent = p, !.conf = c, !.creator = u], TRUE)
    /\ UNCHANGED <<online, told>>

(* The form is submitted. *)
Configure(u, n, p, c) ==
    /\ u \in online
    /\ \E i \in FirstOf(Named(n)) :
          Stores(i, [rooms[i] EXCEPT !.persistent = p, !.conf = c], TRUE)
    /\ UNCHANGED <<online, told>>

(* A group message with a subject; the message itself changes nothing. *)
SetSubject(u, n, c) ==
    /\ u \in online
    /\ \E i \in FirstOf(Named(n)) : Stores(i, [rooms[i] EXCEPT !.conf = c], TRUE)
    /\ UNCHANGED <<online, told>>

Request(u, n) ==
    \/ \E k \in Nicks : Join(u, n, k) \/ ChangeNick(u, n, k)
    \/ \E k \in Nicks : Leave(u, n, k)
    \/ \E k \in Nicks \cup {NoNick} :
          \/ Kick(u, n, k)
          \/ Ban(u, n, k)
    \/ LeaveNewRoom(u, n)
    \/ Destroy(u, n)
    \/ \E c \in Confs :
          \/ \E p \in BOOLEAN : Configure(u, n, p, c)
          \/ SetSubject(u, n, c)

Next ==
    \/ \E u \in Users : Login(u) \/ Logout(u)
    \/ Restart
    \/ \E u \in Users, n \in Names : Request(u, n)

Spec == Init /\ [][Next]_vars

----------------------------------------------------------------------------
(* Properties.                                                             *)

(* Each variable has values of its type, and banned_jids is not overrun. *)
TypeOK ==
    /\ rooms \in [RoomSlots -> Room]
    /\ saved \in [RoomSlots -> Room]
    /\ online \subseteq Users
    /\ told \subseteq Users \X Names
    /\ \A i \in RoomSlots : Cardinality(rooms[i].banned) <= MAX_BANNED_PER_ROOM

(* In a room no two occupants have the same nick, and no user has two      *)
(* seats, although seats outlive sessions and nicks change.                *)
SeatsUnique ==
    \A i \in RoomSlots : \A s, t \in Taken(rooms[i]) :
        \/ rooms[i].users[s].nick = rooms[i].users[t].nick
        \/ rooms[i].users[s].jid = rooms[i].users[t].jid
        => s = t

(* A name means one room, over joins, ends and restarts. *)
RoomNamesUnique ==
    \A i, j \in RoomSlots :
        rooms[i].active /\ rooms[j].active /\ rooms[i].name = rooms[j].name => i = j

(* Whoever is on the list of banned jids has no seat, also after a restart *)
(* and in a room that was created in the slot of an earlier one.           *)
BannedStayOut ==
    \A i \in RoomSlots : \A s \in Taken(rooms[i]) :
        rooms[i].users[s].jid \notin rooms[i].banned

(* After each handler the disk has the rooms as they are in memory: every  *)
(* change of what a restart restores has been saved.                       *)
RoomsSaved == saved = [i \in RoomSlots |-> OnDisk(rooms[i])]

(* A room keeps its owner for as long as it exists, over restarts and      *)
(* while nobody is in it.                                                  *)
OwnerKept ==
    [][\A i \in RoomSlots :
          rooms[i].active /\ rooms'[i].active => rooms'[i].creator = rooms[i].creator]_vars

(* What holds in each room: its seats and its list of banned jids are in   *)
(* order, and an unused slot has nothing left of the room it held.         *)
RoomInv(r) ==
    /\ r \in Room
    /\ Cardinality(r.banned) <= MAX_BANNED_PER_ROOM
    /\ ~r.active => r = NoRoom
    /\ \A s \in Taken(r) : r.users[s].jid \notin r.banned
    /\ \A s, t \in Taken(r) :
          r.users[s].nick = r.users[t].nick \/ r.users[s].jid = r.users[t].jid => s = t

(* The inductive invariant. *)
IInv ==
    /\ rooms \in [RoomSlots -> Room]
    /\ \A i \in RoomSlots : RoomInv(rooms[i])
    /\ RoomNamesUnique
    /\ RoomsSaved
    /\ online \subseteq Users
    /\ told \subseteq Users \X Names

(* The tests take the status code 110 for "joined" (raw_xmpp_tester.py:    *)
(* 809) and expect that a group message is then delivered to the client    *)
(* (raw_xmpp_tester.py:970): it has a seat.                                *)
ToldIsSeated ==
    \A t \in told : \E i \in Named(t[2]) : SeatsOf(rooms[i], t[1]) # {}
============================================================================

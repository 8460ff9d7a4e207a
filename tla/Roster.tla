------------------------------- MODULE Roster -------------------------------
(***************************************************************************)
(* Contact lists and presence subscriptions: roster_store of               *)
(* src/src/xmpp/xmpp_store.c, pending_subs, handle_roster_request,         *)
(* subscription_update_roster and the subscription part of                 *)
(* handle_broadcast_presence of src/src/xmpp/xmpp_handlers.c.              *)
(*                                                                         *)
(* Each user's list is a set of entries in one table for all users.  An    *)
(* entry is written by its owner (a roster set replaces it as a whole) and *)
(* by the server, twice for every subscribed and unsubscribed: in the list *)
(* of the sender and in the list of the user whose name the address has.   *)
(* What an absent user should be told waits in pending_subs until the      *)
(* initial presence of a session.  Both tables are loaded at the next      *)
(* boot.  A handler saves a table each time it has changed it, so the      *)
(* answer to a request has up to three saves, and the power may fail       *)
(* between any two of them (SubscriptionCut); no other handler runs there. *)
(*                                                                         *)
(* A user has one session (binding evicts the others: module Session).  A  *)
(* stanza whose namespace has "stream" in it puts the session back to      *)
(* STATE_BIND; it keeps its resource and initial_presence_sent.            *)
(*                                                                         *)
(* A table without a free slot never reports it to the client.  Items are  *)
(* reduced to their subscription attribute: the name and the groups go     *)
(* with it.  roster_version is sent and never compared.                    *)
(***************************************************************************)
EXTENDS Naturals

CONSTANTS
    MAX_ROSTER_ENTRIES,
    MAX_PENDING_SUBS,
    Users,          \* accounts of this server
    Nobody,         \* the empty name: full_jid of a session without a resource
    Restless,       \* users whose client may ask for a session without a resource,
                    \* or send a namespace with "stream" in it
    Targets         \* the addresses that each user's client writes to

ASSUME RosterAssumption ==
    /\ MAX_ROSTER_ENTRIES \in Nat \ {0}
    /\ MAX_PENDING_SUBS \in Nat \ {0}
    /\ Nobody \notin Users
    /\ Restless \subseteq Users
    /\ Targets \in [Users -> SUBSET [name : Users, here : BOOLEAN]]

Entries == 1 .. MAX_ROSTER_ENTRIES
Waiting == 1 .. MAX_PENDING_SUBS

(* A bare address: a user of this server or a namesake elsewhere. *)
Addr(u) == [name |-> u, here |-> TRUE]
Addresses == [name : Users, here : BOOLEAN]
Senders == {Addr(u) : u \in Users \cup {Nobody}}

(* subscription='none', 'to', 'from' and 'both' as sets. *)
Subscriptions == SUBSET {"to", "from"}

Types == {"subscribe", "subscribed", "unsubscribe", "unsubscribed"}

(* roster_entry_t and pending_sub_t.  Nothing reads a slot that is not     *)
(* active.  at is history: the address the request was sent to.            *)
RosterEntry ==
    [active : BOOLEAN, user : Users \cup {Nobody},
     jid : Addresses \cup Senders, sub : Subscriptions]
PendingSub ==
    [active : BOOLEAN, type : Types, from : Senders, to_user : Users \cup {Nobody},
     at : Addresses \cup Senders]

FreeEntry == [active |-> FALSE, user |-> Nobody, jid |-> Addr(Nobody), sub |-> {}]
FreePending == [active |-> FALSE, type |-> "subscribe", from |-> Addr(Nobody),
                to_user |-> Nobody, at |-> Addr(Nobody)]

VARIABLES
    roster_store,
    pending_subs,
    saved,      \* the two tables as the disk has them
    online,     \* users with a session in STATE_SESSION or later
    back,       \* users whose session was put back to STATE_BIND
    bound,      \* those of either whose session has a resource
    greeted,    \* "not" before the initial presence; after it "steady" while the
                \* session can be reached since then, else "shaken"
    owed,       \* history: requests accepted for a user who has not been told
    touched     \* history: pairs of users whose two entries not only whole answers
                \* have set

tables == <<roster_store, pending_subs, saved>>
sessions == <<online, back, bound, greeted>>
vars == <<tables, sessions, owed, touched>>

----------------------------------------------------------------------------
(* The table of contacts.                                                  *)

First(S) == CHOOSE i \in S : \A k \in S : i <= k
Free(t) == {i \in DOMAIN t : ~t[i].active}
Find(t, u, j) == {i \in DOMAIN t : t[i].active /\ t[i].user = u /\ t[i].jid = j}

(* Mutant: the first slot that is free or has the contact is taken. *)
SlotEither(t, u, j) ==
    IF Find(t, u, j) \cup Free(t) = {} THEN {} ELSE {First(Find(t, u, j) \cup Free(t))}

(* The slot for contact j of user u: its own or the first free one. *)
SlotOf(t, u, j) ==
    LET found == Find(t, u, j) IN
    IF found # {} THEN {First(found)}
    ELSE IF Free(t) # {} THEN {First(Free(t))}
    ELSE {}

(* The contact is written to its slot; a full table is left as it is. *)
Put(t, u, j, s) ==
    LET slot == SlotOf(t, u, j) IN
    [i \in DOMAIN t |->
        IF i \in slot
        THEN [active |-> TRUE, user |-> u, jid |-> j, sub |-> s]
        ELSE t[i]]

(* subscription='remove' *)
Removed(t, u, j) ==
    LET found == Find(t, u, j) IN
    [i \in DOMAIN t |-> IF i \in found THEN FreeEntry ELSE t[i]]

(* An item of a roster set: an address and what its subscription attribute *)
(* says ({"remove"} is 'remove'; an item without the attribute is 'none'). *)
Items(u) == [jid : Targets[u], sub : Subscriptions \cup {{"remove"}}]

roster_store_upsert_item(t, u, item) ==
    IF item.sub = {"remove"} THEN Removed(t, u, item.jid)
    ELSE Put(t, u, item.jid, item.sub)

(* cur_sub: an unknown contact has 'none'. *)
CurSub(t, u, j) ==
    LET found == Find(t, u, j) IN IF found = {} THEN {} ELSE t[First(found)].sub

(* Mutant: both entries get the direction of the sender's. *)
BitSame(direction) == "from"

(* The half of a subscription that an answer is about: the owner's contact *)
(* may see the owner ("from"), or the owner the contact ("to").            *)
Bit(direction) == IF direction = "inbound" THEN "to" ELSE "from"

NewSub(cur, direction, ptype) ==
    IF ptype = "subscribed" THEN cur \cup {Bit(direction)} ELSE cur \ {Bit(direction)}

(* The change is needed: the entry differs, or one has to be made. *)
Changes(t, u, j, direction, ptype) ==
    LET cur == CurSub(t, u, j) IN NewSub(cur, direction, ptype) # cur

subscription_update_roster(t, u, j, direction, ptype) ==
    LET cur == CurSub(t, u, j)
        new == NewSub(cur, direction, ptype)
    IN  IF new # cur THEN Put(t, u, j, new) ELSE t

(* The answer of address f to address j changes the list of f's user,      *)
HalfAnswered(t, f, j, ptype) ==
    subscription_update_roster(t, f.name, j, "outbound", ptype)

(* and then the list of the user whose name is in j.                       *)
Answered(t, f, j, ptype) ==
    subscription_update_roster(HalfAnswered(t, f, j, ptype), j.name, f, "inbound", ptype)

(* One of the two is lost because the table is full. *)
AnswerLost(t, f, j, ptype) ==
    LET half == HalfAnswered(t, f, j, ptype) IN
    \/ Changes(t, f.name, j, "outbound", ptype) /\ SlotOf(t, f.name, j) = {}
    \/ Changes(half, j.name, f, "inbound", ptype) /\ SlotOf(half, j.name, f) = {}

----------------------------------------------------------------------------
(* The table of what absent users should be told.                          *)

Same(p, type, f, u) == p.active /\ p.type = type /\ p.from = f /\ p.to_user = u
Request(p) == [type |-> p.type, from |-> p.from, to_user |-> p.to_user]
RequestsOf(t) == {Request(t[i]) : i \in {k \in DOMAIN t : t[k].active}}

(* Mutant: the sender is not compared. *)
DuplicateOfAny(t, type, f, u) ==
    \E i \in DOMAIN t : t[i].active /\ t[i].type = type /\ t[i].to_user = u

Duplicate(t, type, f, u) == \E i \in DOMAIN t : Same(t[i], type, f, u)

(* The first free slot, else the first one for the same user, else the     *)
(* first of all.                                                           *)
PendingSlot(t, u) ==
    LET own == {i \in DOMAIN t : t[i].to_user = u} IN
    CASE Free(t) # {} -> First(Free(t))
      [] Free(t) = {} /\ own # {} -> First(own)
      [] Free(t) = {} /\ own = {} -> 1

pending_sub_enqueue(t, type, f, j) ==
    IF Duplicate(t, type, f, j.name) THEN t
    ELSE [t EXCEPT ![PendingSlot(t, j.name)] =
             [active |-> TRUE, type |-> type, from |-> f, to_user |-> j.name, at |-> j]]

(* What it loses: the request in the slot it takes, when none is free. *)
Displaced(t, type, f, u) ==
    IF Free(t) = {} /\ ~Duplicate(t, type, f, u)
    THEN {Request(t[PendingSlot(t, u)])}
    ELSE {}

(* Mutant: only requests are sent, and no answers. *)
DrainRequests(t, u) ==
    [i \in DOMAIN t |->
        IF t[i].active /\ t[i].to_user = u /\ t[i].type = "subscribe"
        THEN FreePending ELSE t[i]]

pending_sub_drain(t, u) ==
    [i \in DOMAIN t |-> IF t[i].active /\ t[i].to_user = u THEN FreePending ELSE t[i]]

----------------------------------------------------------------------------
Init ==
    /\ roster_store = [i \in Entries |-> FreeEntry]
    /\ pending_subs = [i \in Waiting |-> FreePending]
    /\ saved = [roster |-> roster_store, pending |-> pending_subs]
    /\ online = {}
    /\ back = {}
    /\ bound = {}
    /\ greeted = [u \in Users |-> "not"]
    /\ owed = {}
    /\ touched = {}

(* Mutant: an answer does not save the roster. *)
SavedPending(r, p) == [saved EXCEPT !.pending = p]

(* xmpp_persist_save_roster and xmpp_persist_save_pending_subs. *)
Saved(r, p) == [roster |-> r, pending |-> p]

(* A session reaches STATE_SESSION by binding a resource, or a later state *)
(* without one by asking for a session.                                    *)
Login(u) ==
    /\ u \notin online \cup back
    /\ online' = online \cup {u}
    /\ \/ bound' = bound \cup {u}
       \/ u \in Restless /\ bound' = bound
    /\ UNCHANGED <<tables, back, greeted, owed, touched>>

(* xmpp_route_stanza, a namespace with "stream" in it: STATE_BIND. *)
RouteStream(u) ==
    /\ u \in online \cap Restless
    /\ online' = online \ {u}
    /\ back' = back \cup {u}
    /\ greeted' = [greeted EXCEPT ![u] = IF @ = "not" THEN "not" ELSE "shaken"]
    /\ UNCHANGED <<tables, bound, owed, touched>>

(* handle_core_bind, and handle_core_session with the resource there is:   *)
(* neither resets initial_presence_sent.                                   *)
Return(u) ==
    /\ u \in back
    /\ back' = back \ {u}
    /\ online' = online \cup {u}
    /\ UNCHANGED <<tables, greeted, owed, touched>>
Bind(u) == Return(u) /\ bound' = bound \cup {u}
AskSession(u) == Return(u) /\ bound' = bound

(* Mutant: the address of the session stays in its slot. *)
LogoutKeepsJid(u) ==
    /\ u \in online \cup back
    /\ online' = online \ {u}
    /\ back' = back \ {u}
    /\ greeted' = [greeted EXCEPT ![u] = "not"]
    /\ UNCHANGED <<tables, bound, owed, touched>>

(* The slot of the session is emptied or given away. *)
Logout(u) ==
    /\ u \in online \cup back
    /\ online' = online \ {u}
    /\ back' = back \ {u}
    /\ bound' = bound \ {u}
    /\ greeted' = [greeted EXCEPT ![u] = "not"]
    /\ UNCHANGED <<tables, owed, touched>>

Pairs == {{u, v} : u, v \in Users} \ {{u} : u \in Users}
Touch(pair) == touched \cup ({pair} \cap Pairs)

(* handle_roster_request, type set, with one item; one with several stores *)
(* them in turn.  It is saved, and acknowledged whatever came of it.       *)
handle_roster_request(u, item) ==
    /\ u \in online
    /\ roster_store' = roster_store_upsert_item(roster_store, u, item)
    /\ saved' = [saved EXCEPT !.roster = roster_store']
    /\ touched' = Touch({u, item.jid.name})
    /\ UNCHANGED <<pending_subs, sessions, owed>>

(* handle_initial_presence: what waits for the user is sent. *)
handle_initial_presence(u) ==
    /\ u \in online
    /\ greeted[u] = "not"
    /\ greeted' = [greeted EXCEPT ![u] = IF u \in bound THEN "steady" ELSE "shaken"]
    /\ pending_subs' = pending_sub_drain(pending_subs, u)
    /\ saved' = [saved EXCEPT !.pending = pending_subs']
    /\ owed' = {q \in owed : q.to_user # u}
    /\ UNCHANGED <<roster_store, online, back, bound, touched>>

(* full_jid of the session, without the resource. *)
Sender(u) == Addr(IF u \in bound THEN u ELSE Nobody)

(* A session in STATE_SESSION or later has the address. *)
Delivered(j) == j.here /\ j.name \in online \cap bound

(* The stanza for address j is sent on or waits. *)
SentOrKept(type, f, j) ==
    IF Delivered(j)
    THEN UNCHANGED <<pending_subs, owed>>
    ELSE /\ pending_subs' = pending_sub_enqueue(pending_subs, type, f, j)
         /\ owed' = (owed \ Displaced(pending_subs, type, f, j.name))
                        \cup {[type |-> type, from |-> f, to_user |-> j.name]}

Answers == {"subscribed", "unsubscribed"}

(* handle_broadcast_presence with a subscription stanza for address j: an  *)
(* answer changes the two lists after it was sent on.                      *)
Subscription(u, type, j) ==
    LET f == Sender(u) IN
    /\ u \in online
    /\ SentOrKept(type, f, j)
    /\ roster_store' =
          IF type \in Answers THEN Answered(roster_store, f, j, type) ELSE roster_store
    /\ touched' = IF type \in Answers /\ (~j.here \/ AnswerLost(roster_store, f, j, type))
                  THEN Touch({f.name, j.name})
                  ELSE touched
    /\ saved' = Saved(roster_store', pending_subs')
    /\ UNCHANGED sessions

Unplugged ==
    /\ online' = {}
    /\ back' = {}
    /\ bound' = {}
    /\ greeted' = [u \in Users |-> "not"]

(* The power fails within an answer: what waits was saved, and the list of *)
(* the sender was or was not.  The tables as saved are loaded.             *)
SubscriptionCut(u, type, j) ==
    LET f == Sender(u) IN
    /\ u \in online
    /\ type \in Answers
    /\ SentOrKept(type, f, j)
    /\ roster_store' \in {roster_store, HalfAnswered(roster_store, f, j, type)}
    /\ touched' = IF roster_store' # roster_store THEN Touch({f.name, j.name}) ELSE touched
    /\ saved' = Saved(roster_store', pending_subs')
    /\ Unplugged

(* The machine is restarted between two stanzas and loads the two tables. *)
Restart ==
    /\ roster_store' = saved.roster
    /\ pending_subs' = saved.pending
    /\ Unplugged
    /\ UNCHANGED <<saved, owed, touched>>

Next ==
    \/ \E u \in Users :
          \/ Login(u)
          \/ RouteStream(u)
          \/ Bind(u)
          \/ AskSession(u)
          \/ Logout(u)
          \/ handle_initial_presence(u)
          \/ \E item \in Items(u) : handle_roster_request(u, item)
          \/ \E type \in Types, j \in Targets[u] :
                Subscription(u, type, j) \/ SubscriptionCut(u, type, j)
    \/ Restart

Spec == Init /\ [][Next]_vars

----------------------------------------------------------------------------
(* Properties.                                                             *)

(* Each variable has values of its type. *)
TypeOK ==
    /\ roster_store \in [Entries -> RosterEntry]
    /\ pending_subs \in [Waiting -> PendingSub]
    /\ saved \in [roster : [Entries -> RosterEntry], pending : [Waiting -> PendingSub]]
    /\ online \in SUBSET Users
    /\ back \in SUBSET (Users \ online)
    /\ bound \in SUBSET (online \cup back)
    /\ greeted \in [Users -> {"not", "steady", "shaken"}]
    /\ owed \in SUBSET [type : Types, from : Senders, to_user : Users \cup {Nobody}]
    /\ touched \in SUBSET Pairs

(* A contact is in a user's list once, whatever order of removals and new  *)
(* entries has left holes in the table: roster_store_get_items would list  *)
(* it twice, and each search would find the older one.                     *)
EntriesUnique ==
    \A i, k \in Entries :
        /\ roster_store[i].active /\ roster_store[k].active
        /\ roster_store[i].user = roster_store[k].user
        /\ roster_store[i].jid = roster_store[k].jid
        => i = k

(* The two ends of a subscription agree: a user may see the presence of    *)
(* another ("to") exactly when the other's list says so ("from").  The     *)
(* exceptions: a roster set of either has replaced the entry, an answer    *)
(* went to a namesake elsewhere, the table was too full for one of the two *)
(* entries, or the power failed when the sender's list was saved and the   *)
(* recipient's was not: the two then disagree until another answer.        *)
SubscriptionsAgree ==
    \A u, v \in Users : {u, v} \in Pairs \ touched =>
        ("to" \in CurSub(roster_store, u, Addr(v))
            <=> "from" \in CurSub(roster_store, v, Addr(u)))

(* Every request accepted for an absent user waits until that user's next  *)
(* initial presence, across restarts: only a full table makes it give way. *)
RequestsKept == RequestsOf(pending_subs) = owed /\ RequestsOf(saved.pending) = owed

(* Nothing waits, at the address it was sent to, for a user whose session  *)
(* was greeted with its resource and has stayed in STATE_SESSION or later: *)
(* there will be no other drain in this session.  The exceptions are the   *)
(* sessions that what is sent to the user passes by: one that asked for a  *)
(* session without a resource, and one that was put back to STATE_BIND;    *)
(* both keep initial_presence_sent, so what waited then waits for another. *)
NoneWaitsForPresent ==
    \A i \in Waiting : LET p == pending_subs[i] IN
        p.active /\ p.at.here /\ p.to_user \in Users => greeted[p.to_user] # "steady"

(* A restart between any two handlers changes neither table. *)
RosterSaved == saved.roster = roster_store /\ saved.pending = pending_subs

----------------------------------------------------------------------------
(* The invariant that the safety properties rest on.                       *)

(* No request waits twice: what a full table displaces is gone. *)
WaitingUnique ==
    \A i, k \in Waiting :
        /\ pending_subs[i].active /\ pending_subs[k].active
        /\ Request(pending_subs[i]) = Request(pending_subs[k])
        => i = k

(* A request waits for a user of this server, the one its address names;   *)
(* and a session that has been steady since its greeting can be reached.   *)
WaitsForNamed ==
    /\ \A i \in Waiting : LET p == pending_subs[i] IN
          p.active => p.to_user = p.at.name /\ p.to_user \in Users
    /\ \A u \in Users : greeted[u] = "steady" => u \in online \cap bound

IInv ==
    /\ TypeOK
    /\ EntriesUnique
    /\ WaitingUnique
    /\ WaitsForNamed
    /\ SubscriptionsAgree
    /\ RequestsKept
    /\ NoneWaitsForPresent
    /\ RosterSaved
=============================================================================

------------------------------ MODULE Offline ------------------------------
(***************************************************************************)
(* Messages for users who are away: offline_store and its operations       *)
(* (src/src/xmpp/xmpp_store.c), the one-to-one part of handle_chat_message *)
(* and handle_initial_presence (src/src/xmpp/xmpp_handlers.c).             *)
(*                                                                         *)
(* A handler runs to its end before the next one, but the power may be cut *)
(* inside: the loop of offline_msg_drain is modelled slot by slot.  A save *)
(* is one step; a save that fails or is cut short is a matter of Persist.  *)
(* Requests for subscription, which the initial presence drains as well,   *)
(* are other state.                                                        *)
(*                                                                         *)
(* A user has one session (binding a resource evicts the others: module    *)
(* Session).  It may reach STATE_READY without a resource, and a stanza    *)
(* whose namespace has "stream" in it puts it back to STATE_BIND; it keeps *)
(* its resource and initial_presence_sent then.                            *)
(*                                                                         *)
(* send_raw writes through mbedtls into the buffer of a TCP connection,    *)
(* counted here in messages of one length: TCP_SND_BUF is 11680 bytes, a   *)
(* stored message is sent as up to 1366 bytes, so that 8 of them fit, and  *)
(* a drain may have 16.  No acknowledgement is handled before the handler  *)
(* has returned.                                                           *)
(***************************************************************************)
EXTENDS Naturals, FiniteSets

CONSTANTS
    MAX_OFFLINE_MSGS,
    Users,
    Restless,    \* users whose client may ask for a session without a resource,
                 \* or send a namespace with "stream" in it
    Msgs,        \* messages; each is sent by its client once
    Other,       \* any stanza that is not one of them
    None,
    SndBuf,      \* messages that fit in the send buffer of a connection
    MaxCuts      \* bound: power cuts

ASSUME OfflineAssumption ==
    /\ MAX_OFFLINE_MSGS \in Nat \ {0}
    /\ SndBuf \in Nat
    /\ MaxCuts \in Nat
    /\ Restless \subseteq Users
    /\ Other \notin Msgs
    /\ None \notin Msgs \cup Users \cup {Other}

Slots == 1 .. MAX_OFFLINE_MSGS

(* offline_msg_t: to_user is what stands before the "@" of the address;    *)
(* local tells whether the rest is the server's domain.                    *)
Mail == [msg : Msgs, to_user : Users, local : BOOLEAN]
NoMail == [msg |-> None, to_user |-> None, local |-> FALSE]

NoDrain == [user |-> None, at |-> 0]

VARIABLES
    offline_store,
    disk,        \* offline_store on the disk
    online,      \* users with a session in STATE_SESSION or beyond
    back,        \* users whose session was put back to STATE_BIND
    bound,       \* those of either whose session has a resource
    greeted,     \* those of either whose session has initial_presence_sent
    steady,      \* history: greeted with a resource, and not put back since
    free,        \* messages that still fit in the send buffer of a user's session
    held,        \* the stanza that mbedtls could not write to the session of a user
    drain,       \* the user offline_msg_drain is at work for, and the next slot
    fresh,       \* messages not sent yet
    accepted,    \* history: messages that were stored
    handed,      \* history: how often offline_msg_drain gave a message to send_raw
    given,       \* history: <<u, m>>, m was given to the session that u has now
    sent,        \* history: messages written to a TCP connection
    cuts         \* history: power cuts during a drain

store == <<offline_store, disk, drain>>
sessions == <<online, back, bound, greeted, steady>>
history == <<accepted, handed, given, cuts>>
vars == <<store, sessions, free, held, fresh, sent, history>>

TypeOK ==
    /\ offline_store \in [Slots -> Mail \cup {NoMail}]
    /\ disk \in [Slots -> Mail \cup {NoMail}]
    /\ online \subseteq Users
    /\ back \subseteq Users \ online
    /\ bound \subseteq online \cup back
    /\ greeted \subseteq online \cup back
    /\ steady \subseteq online \cap bound
    /\ free \in [Users -> 0 .. SndBuf]
    /\ held \in [Users -> Msgs \cup {Other, None}]
    /\ drain \in [user : Users, at : Slots] \cup {NoDrain}
    /\ fresh \subseteq Msgs
    /\ accepted \subseteq Msgs
    /\ handed \in [Msgs -> Nat]
    /\ given \subseteq Users \X Msgs
    /\ sent \subseteq Msgs
    /\ cuts \in 0 .. MaxCuts

Init ==
    /\ offline_store = [i \in Slots |-> NoMail]
    /\ disk = [i \in Slots |-> NoMail]
    /\ online = {}
    /\ back = {}
    /\ bound = {}
    /\ greeted = {}
    /\ steady = {}
    /\ free = [u \in Users |-> SndBuf]
    /\ held = [u \in Users |-> None]
    /\ drain = NoDrain
    /\ fresh = Msgs
    /\ accepted = {}
    /\ handed = [m \in Msgs |-> 0]
    /\ given = {}
    /\ sent = {}
    /\ cuts = 0

----------------------------------------------------------------------------
(* send_raw.                                                               *)

Written(m) == {m} \cap Msgs

(* A write that gets ERR_MEM leaves the stanza with mbedtls, if it has     *)
(* none yet; the second try of send_raw gets the same answer.  With a      *)
(* stanza held, a write that succeeds writes that one and reports the new  *)
(* one as written.                                                         *)
send_raw(u, m) ==
    IF free[u] > 0
    THEN /\ free' = [free EXCEPT ![u] = @ - 1]
         /\ held' = [held EXCEPT ![u] = None]
         /\ sent' = sent \cup Written(IF held[u] = None THEN m ELSE held[u])
    ELSE /\ held' = [held EXCEPT ![u] = IF @ = None THEN m ELSE @]
         /\ UNCHANGED <<free, sent>>

(* Other stanzas are sent to each session in V.  They take some of the     *)
(* room, and the last of them may find none.                               *)
SendsOthers(V) ==
    /\ free' \in [Users -> 0 .. SndBuf]
    /\ \A u \in Users : IF u \in V THEN free'[u] <= free[u] ELSE free'[u] = free[u]
    /\ held' \in [Users -> Msgs \cup {Other, None}]
    /\ \A u \in Users :
          IF u \notin V \/ (free[u] = 0 /\ held[u] # None) THEN held'[u] = held[u]
          ELSE held'[u] = None \/ (free'[u] = 0 /\ held'[u] = Other)
    /\ sent' = sent \cup UNION {Written(held[u]) : u \in {v \in V : free[v] > 0}}

----------------------------------------------------------------------------
(* Between drains.                                                         *)

Ready == drain = NoDrain

EndSession(u) ==
    /\ back' = back \ {u}
    /\ greeted' = greeted \ {u}
    /\ steady' = steady \ {u}
    /\ free' = [free EXCEPT ![u] = SndBuf]
    /\ held' = [held EXCEPT ![u] = None]
    /\ given' = given \ ({u} \X Msgs)

(* A session begins by binding a resource, which ends an earlier one of    *)
(* the user, or without one by asking for a session.                       *)
Login(u) ==
    /\ Ready
    /\ online' = online \cup {u}
    /\ \/ bound' = bound \cup {u}
       \/ u \in Restless \ (online \cup back) /\ bound' = bound
    /\ EndSession(u)
    /\ UNCHANGED <<store, fresh, accepted, handed, sent, cuts>>

Logout(u) ==
    /\ Ready
    /\ u \in online \cup back
    /\ online' = online \ {u}
    /\ bound' = bound \ {u}
    /\ EndSession(u)
    /\ UNCHANGED <<store, fresh, accepted, handed, sent, cuts>>

(* xmpp_route_stanza, a namespace with "stream" in it: the server's header *)
(* is sent, and the session is in STATE_BIND.                              *)
RouteStream(u) ==
    /\ Ready
    /\ u \in online \cap Restless
    /\ online' = online \ {u}
    /\ back' = back \cup {u}
    /\ steady' = steady \ {u}
    /\ SendsOthers({u})
    /\ UNCHANGED <<store, bound, greeted, fresh, history>>

(* handle_core_bind, and handle_core_session with the resource there is:   *)
(* neither resets initial_presence_sent.                                   *)
Return(u) ==
    /\ Ready
    /\ u \in back
    /\ back' = back \ {u}
    /\ online' = online \cup {u}
    /\ SendsOthers({u})
    /\ UNCHANGED <<store, greeted, steady, fresh, history>>
Bind(u) == Return(u) /\ bound' = bound \cup {u}
AskSession(u) == Return(u) /\ bound' = bound

(* The client acknowledges what it has got. *)
Acknowledged(u) ==
    /\ Ready
    /\ u \in online \cup back
    /\ free' = [free EXCEPT ![u] = SndBuf]
    /\ UNCHANGED <<store, sessions, held, fresh, sent, history>>

(* Any handler that sends other stanzas. *)
OtherTraffic(u) ==
    /\ Ready
    /\ u \in online \cup back
    /\ SendsOthers({u})
    /\ UNCHANGED <<store, sessions, fresh, history>>

FreeSlots == {i \in Slots : offline_store[i] = NoMail}

MailOf(u) == {i \in Slots : offline_store[i].to_user = u}

offline_msg_is_full(u) == Cardinality(MailOf(u)) >= MAX_OFFLINE_MSGS \div 2

(* Mutant: the message is not saved. *)
EnqueueUnsaved(m, u, local) ==
    \E i \in FreeSlots :
        /\ \A j \in FreeSlots : i <= j
        /\ offline_store' = [offline_store EXCEPT
                               ![i] = [msg |-> m, to_user |-> u, local |-> local]]
        /\ UNCHANGED disk

offline_msg_enqueue(m, u, local) ==
    \E i \in FreeSlots :
        /\ \A j \in FreeSlots : i <= j
        /\ offline_store' = [offline_store EXCEPT
                               ![i] = [msg |-> m, to_user |-> u, local |-> local]]
        /\ disk' = offline_store'

(* A session in STATE_SESSION or later has the address.  The initial       *)
(* presence is not asked for.                                              *)
Reached(u, local) == u \in online \cap bound /\ local

(* Somebody sends m to user u, at this server's domain or at another one. *)
Deliver(m, u, local) ==
    /\ Ready
    /\ online # {}
    /\ m \in fresh
    /\ Reached(u, local)
    /\ send_raw(u, m)
    /\ fresh' = fresh \ {m}
    /\ UNCHANGED <<store, sessions, history>>

Store(m, u, local) ==
    /\ Ready
    /\ online # {}
    /\ m \in fresh
    /\ ~Reached(u, local)
    /\ ~offline_msg_is_full(u)
    /\ offline_msg_enqueue(m, u, local)
    /\ accepted' = accepted \cup {m}
    /\ fresh' = fresh \ {m}
    /\ UNCHANGED <<sessions, free, held, drain, handed, given, sent, cuts>>

(* The sender gets an error. *)
Refuse(m, u, local) ==
    /\ Ready
    /\ online # {}
    /\ m \in fresh
    /\ ~Reached(u, local)
    /\ offline_msg_is_full(u) \/ FreeSlots = {}
    /\ fresh' = fresh \ {m}
    /\ UNCHANGED <<store, sessions, free, held, sent, history>>

----------------------------------------------------------------------------
(* handle_initial_presence.                                                *)

(* The presences of u to all and of all to u are sent, then the drain      *)
(* begins.                                                                 *)
InitialPresence(u) ==
    /\ Ready
    /\ u \in online \ greeted
    /\ greeted' = greeted \cup {u}
    /\ steady' = steady \cup ({u} \cap bound)
    /\ SendsOthers(online)
    /\ drain' = [user |-> u, at |-> 1]
    /\ UNCHANGED <<offline_store, disk, online, back, bound, fresh, history>>

(* Mutant: only as many slots as a user may fill are looked at. *)
LastSlotOfQuota == MAX_OFFLINE_MSGS \div 2

LastSlot == MAX_OFFLINE_MSGS

(* Mutant: the emptied slots are not saved. *)
DrainGoesOnUnsaved(s) ==
    IF drain.at >= LastSlot THEN drain' = NoDrain /\ UNCHANGED disk
    ELSE drain' = [drain EXCEPT !.at = @ + 1] /\ UNCHANGED disk

(* The next slot; after the last one the store, now s, is saved. *)
DrainGoesOn(s) ==
    IF drain.at >= LastSlot THEN drain' = NoDrain /\ disk' = s
    ELSE drain' = [drain EXCEPT !.at = @ + 1] /\ UNCHANGED disk

Mine == drain.at \in MailOf(drain.user)

offline_msg_drain ==
    /\ drain # NoDrain
    /\ Mine
    /\ send_raw(drain.user, offline_store[drain.at].msg)
    /\ handed' = [handed EXCEPT ![offline_store[drain.at].msg] = @ + 1]
    /\ given' = given \cup {<<drain.user, offline_store[drain.at].msg>>}
    /\ offline_store' = [offline_store EXCEPT ![drain.at] = NoMail]
    /\ DrainGoesOn(offline_store')
    /\ UNCHANGED <<sessions, fresh, accepted, cuts>>

DrainSkips ==
    /\ drain # NoDrain
    /\ ~Mine
    /\ DrainGoesOn(offline_store)
    /\ UNCHANGED <<offline_store, sessions, free, held, fresh, sent, history>>

----------------------------------------------------------------------------
(* The power is cut and the machine boots with the store of the disk. *)
PowerLoss ==
    /\ drain # NoDrain => cuts < MaxCuts
    /\ offline_store' = disk
    /\ online' = {}
    /\ back' = {}
    /\ bound' = {}
    /\ greeted' = {}
    /\ steady' = {}
    /\ free' = [u \in Users |-> SndBuf]
    /\ held' = [u \in Users |-> None]
    /\ drain' = NoDrain
    /\ given' = {}
    /\ cuts' = IF drain # NoDrain THEN cuts + 1 ELSE cuts
    /\ UNCHANGED <<disk, fresh, accepted, handed, sent>>

Next ==
    \/ \E u \in Users : Login(u) \/ Logout(u) \/ RouteStream(u) \/ Bind(u)
                        \/ AskSession(u) \/ Acknowledged(u) \/ OtherTraffic(u)
                        \/ InitialPresence(u)
    \/ \E m \in Msgs, u \in Users, local \in BOOLEAN :
          Deliver(m, u, local) \/ Store(m, u, local) \/ Refuse(m, u, local)
    \/ offline_msg_drain
    \/ DrainSkips
    \/ PowerLoss

Spec == Init /\ [][Next]_vars

----------------------------------------------------------------------------
(* Properties.                                                             *)

InStore(s, m) == \E i \in Slots : s[i].msg = m

(* A message that was stored is on the disk until it has been given to     *)
(* send_raw, whenever the power is cut.                                    *)
AcceptedKept == \A m \in accepted : handed[m] = 0 => InStore(disk, m)

(* A message is given out once, and once more for each power cut that came *)
(* between a send and the save at the end of the drain.                    *)
HandedOnce == \A m \in Msgs : handed[m] <= 1 + cuts

(* Between drains no message for an address of this server waits for a     *)
(* user whose session had a resource at its initial presence and has       *)
(* stayed in STATE_SESSION or later: nothing would drain it as long as the *)
(* session lasts.  The exceptions are the sessions that a message passes   *)
(* by: one that asked for a session without a resource, and one that was   *)
(* put back to STATE_BIND; what is stored for them meanwhile waits for     *)
(* another session.                                                        *)
NothingWaits ==
    Ready => \A i \in Slots : offline_store[i].local => offline_store[i].to_user \notin steady

(* The properties rest on this.  The store differs from the disk only      *)
(* where the drain has been, and what it has emptied was given out; no     *)
(* message is stored twice; what is in the store has been given out only   *)
(* before a cut.                                                           *)
StoreInv ==
    /\ \A i \in Slots :
          offline_store[i] # disk[i] =>
              /\ drain # NoDrain
              /\ offline_store[i] = NoMail
              /\ handed[disk[i].msg] > 0
    /\ \A i, j \in Slots : disk[i] # NoMail /\ disk[i].msg = disk[j].msg => i = j
    /\ \A i \in Slots : disk[i].msg \notin fresh
    /\ \A i \in Slots : offline_store[i] # NoMail => handed[offline_store[i].msg] <= cuts
    /\ \A m \in fresh : handed[m] = 0

(* During the drain, what waits for a user whose session is steady is in   *)
(* the slots to come.                                                      *)
WaitsInv ==
    \A i \in Slots :
        offline_store[i].local /\ offline_store[i].to_user \in steady
            => offline_store[i].to_user = drain.user /\ drain.at <= i

IInv == TypeOK /\ StoreInv /\ WaitsInv /\ AcceptedKept /\ HandedOnce

(* The test expects "offline message delivered after receiver comes        *)
(* online" (raw_xmpp_tester.py:735): what offline_msg_drain took out of    *)
(* the store for a session that is still there was written to it, or is    *)
(* still with mbedtls.                                                     *)
GivenIsSent == \A t \in given : t[2] \in sent \/ held[t[1]] = t[2]
============================================================================

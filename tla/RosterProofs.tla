---------------------------- MODULE RosterProofs ----------------------------
(***************************************************************************)
(* Proofs about Roster, for every number of users and entries.             *)
(***************************************************************************)
EXTENDS Roster, WellFoundedInduction, TLAPS

(* The search of a table ends at an entry of the set it looks for. *)
LEMMA FirstIs ==
    ASSUME NEW S, S \subseteq Nat, S # {}
    PROVE  First(S) \in S
  <1>1. \E x \in S : \A y \in S : ~(<<y, x>> \in OpToRel(<, Nat))
    BY WFMin, NatLessThanWellFounded, Zenon
  <1>2. PICK x \in S : \A y \in S : ~(<<y, x>> \in OpToRel(<, Nat))
    BY <1>1, Zenon
  <1>3. ASSUME NEW y \in S PROVE x <= y
    <2>1. <<y, x>> \in Nat \X Nat
      OBVIOUS
    <2>2. ~(<<y, x>>[1] < <<y, x>>[2])
      BY <1>2, <2>1, Zenon DEF OpToRel
    <2>3. x \in Nat /\ y \in Nat /\ <<y, x>>[1] = y /\ <<y, x>>[2] = x
      OBVIOUS
    <2> QED
      BY <2>2, <2>3
  <1> QED
    BY <1>3 DEF First

----------------------------------------------------------------------------
(* The table of contacts.                                                  *)

Table == [Entries -> RosterEntry]
Owners == Users \cup {Nobody}
Contacts == Addresses \cup Senders

Unique(t) ==
    \A i, k \in Entries :
        /\ t[i].active /\ t[k].active
        /\ t[i].user = t[k].user /\ t[i].jid = t[k].jid
        => i = k

LEMMA Fields ==
    ASSUME NEW t \in Table, NEW i \in Entries
    PROVE  /\ t[i] \in RosterEntry /\ t[i].active \in BOOLEAN /\ t[i].user \in Owners
           /\ t[i].jid \in Contacts /\ t[i].sub \in Subscriptions
           /\ i \in Nat /\ DOMAIN t = Entries
  BY RosterAssumption DEF Table, RosterEntry, Owners, Contacts, Entries

(* The address of a user here is among the addresses. *)
LEMMA AddressIs ==
    /\ \A u, v : Addr(u) = Addr(v) <=> u = v
    /\ \A u : Addr(u).name = u /\ Addr(u).here = TRUE
    /\ \A u \in Users : Addr(u) \in Addresses
    /\ \A u \in Owners : Addr(u) \in Senders
    /\ \A j \in Addresses : j.name \in Users /\ (j.here => j = Addr(j.name))
    /\ \A f \in Senders : f.name \in Owners /\ f = Addr(f.name)
  <1>1. \A u : Addr(u).name = u /\ Addr(u).here = TRUE
    BY DEF Addr
  <1>2. \A u, v : Addr(u) = Addr(v) <=> u = v
    BY <1>1
  <1>3. ASSUME NEW j \in Addresses
        PROVE  j.name \in Users /\ (j.here => j = Addr(j.name))
    BY DEF Addresses, Addr
  <1>4. ASSUME NEW f \in Senders
        PROVE  f.name \in Owners /\ f = Addr(f.name)
    BY <1>1 DEF Senders, Owners
  <1>5. \A u \in Users : Addr(u) \in Addresses
    BY DEF Addresses, Addr
  <1>6. \A u \in Owners : Addr(u) \in Senders
    BY DEF Senders, Owners
  <1> QED
    BY <1>1, <1>2, <1>3, <1>4, <1>5, <1>6

LEMMA FreeEntryIs == FreeEntry \in RosterEntry /\ FreeEntry.active = FALSE
  <1>1. Addr(Nobody) \in Contacts /\ Nobody \in Owners
    BY AddressIs DEF Contacts, Owners
  <1> QED
    BY <1>1 DEF FreeEntry, RosterEntry, Contacts, Owners, Subscriptions

(* A search finds what is there, and the one entry when there is only one. *)
LEMMA FindIs ==
    ASSUME NEW t \in Table, NEW u, NEW j
    PROVE  /\ \A i : i \in Find(t, u, j) <=>
                        i \in Entries /\ t[i].active /\ t[i].user = u /\ t[i].jid = j
           /\ \A i : i \in Free(t) <=> i \in Entries /\ ~t[i].active
           /\ Find(t, u, j) # {} => First(Find(t, u, j)) \in Find(t, u, j)
           /\ Free(t) # {} => First(Free(t)) \in Free(t)
  <1>1. DOMAIN t = Entries /\ Entries \subseteq Nat
    BY RosterAssumption DEF Table, Entries
  <1>2. \A i : i \in Find(t, u, j) <=>
                   i \in Entries /\ t[i].active /\ t[i].user = u /\ t[i].jid = j
    BY <1>1 DEF Find
  <1>3. \A i : i \in Free(t) <=> i \in Entries /\ ~t[i].active
    BY <1>1 DEF Free
  <1>4. Find(t, u, j) \subseteq Nat /\ Free(t) \subseteq Nat
    BY <1>1, <1>2, <1>3
  <1> QED
    BY <1>2, <1>3, <1>4, FirstIs

LEMMA CurSubIs ==
    ASSUME NEW t \in Table, Unique(t), NEW u, NEW j
    PROVE  /\ \A i \in Find(t, u, j) : CurSub(t, u, j) = t[i].sub
           /\ Find(t, u, j) = {} => CurSub(t, u, j) = {}
           /\ CurSub(t, u, j) \in Subscriptions
  <1>1. ASSUME NEW i \in Find(t, u, j)
        PROVE  CurSub(t, u, j) = t[i].sub /\ t[i].sub \in Subscriptions
    <2>1. First(Find(t, u, j)) \in Find(t, u, j) /\ i \in Entries
      BY FindIs
    <2>2. First(Find(t, u, j)) = i
      BY <2>1, FindIs DEF Unique
    <2> QED
      BY <1>1, <2>1, <2>2, Fields DEF CurSub
  <1>2. Find(t, u, j) = {} => CurSub(t, u, j) = {}
    BY DEF CurSub
  <1>3. {} \in Subscriptions
    BY DEF Subscriptions
  <1> QED
    BY <1>1, <1>2, <1>3

(* The slot that a contact is written to is its own or a free one. *)
LEMMA SlotOfIs ==
    ASSUME NEW t \in Table, NEW u, NEW j
    PROVE  /\ SlotOf(t, u, j) \subseteq Entries
           /\ \A i, k \in SlotOf(t, u, j) : i = k
           /\ \A i \in SlotOf(t, u, j) : \/ i \in Find(t, u, j)
                                         \/ Find(t, u, j) = {} /\ i \in Free(t)
           /\ SlotOf(t, u, j) = {} => Find(t, u, j) = {}
  BY FindIs DEF SlotOf

(* Table r differs from t at most in what it says of contact j of user u. *)
Differs(t, r, u, j) ==
    /\ r \in Table
    /\ Unique(r)
    /\ \A v, k : v # u \/ k # j => CurSub(r, v, k) = CurSub(t, v, k)

(* If the entries of all other contacts are where they were. *)
LEMMA DiffersIf ==
    ASSUME NEW t \in Table, NEW r \in Table, Unique(r), NEW u, NEW j,
           \A i \in Entries : r[i] = t[i] \/
               /\ r[i].active => r[i].user = u /\ r[i].jid = j
               /\ t[i].active => t[i].user = u /\ t[i].jid = j
    PROVE  Differs(t, r, u, j)
  <1> SUFFICES ASSUME NEW v, NEW k, v # u \/ k # j
               PROVE  CurSub(r, v, k) = CurSub(t, v, k)
    BY DEF Differs
  <1>1. ASSUME NEW i \in Entries
        PROVE  i \in Find(r, v, k) <=> i \in Find(t, v, k)
    BY FindIs
  <1>2. \A i \in Find(r, v, k) : r[i] = t[i]
    BY FindIs
  <1>3. Find(r, v, k) = Find(t, v, k)
    <2>1. Find(r, v, k) \subseteq Entries /\ Find(t, v, k) \subseteq Entries
      BY FindIs
    <2> QED
      BY <1>1, <2>1
  <1>4. Find(r, v, k) # {} => First(Find(r, v, k)) \in Find(r, v, k)
    BY FindIs
  <1> QED
    BY <1>2, <1>3, <1>4 DEF CurSub

LEMMA PutIs ==
    ASSUME NEW t \in Table, Unique(t), NEW u \in Owners, NEW j \in Contacts,
           NEW s \in Subscriptions
    PROVE  /\ Differs(t, Put(t, u, j, s), u, j)
           /\ SlotOf(t, u, j) # {} => CurSub(Put(t, u, j, s), u, j) = s
           /\ SlotOf(t, u, j) = {} => Put(t, u, j, s) = t
  <1> DEFINE e == [active |-> TRUE, user |-> u, jid |-> j, sub |-> s]
             r == Put(t, u, j, s)
  <1>1. e \in RosterEntry
    BY DEF RosterEntry, Owners, Contacts
  <1>2. e.active /\ e.user = u /\ e.jid = j /\ e.sub = s
    OBVIOUS
  <1> HIDE DEF e
  <1>3. DOMAIN t = Entries /\ \A i \in Entries : t[i] \in RosterEntry
    BY DEF Table
  <1>4. r = [i \in Entries |-> IF i \in SlotOf(t, u, j) THEN e ELSE t[i]]
    BY <1>3 DEF Put, e
  <1>5. r \in Table
    BY <1>1, <1>3, <1>4 DEF Table
  <1>6. \A i \in Entries : r[i] = IF i \in SlotOf(t, u, j) THEN e ELSE t[i]
    BY <1>4
  <1> HIDE DEF r
  <1>7. \A i \in Entries : i \in SlotOf(t, u, j) =>
            (t[i].active => t[i].user = u /\ t[i].jid = j)
    BY SlotOfIs, FindIs
  <1>8. Unique(r)
    <2> SUFFICES ASSUME NEW i \in Entries, NEW k \in Entries,
                        r[i].active, r[k].active, r[i].user = r[k].user, r[i].jid = r[k].jid
                 PROVE  i = k
      BY DEF Unique
    <2>1. \A m \in Entries : m \notin SlotOf(t, u, j) /\ SlotOf(t, u, j) # {} =>
              ~(t[m].active /\ t[m].user = u /\ t[m].jid = j)
      <3> SUFFICES ASSUME NEW m \in Entries, m \notin SlotOf(t, u, j), SlotOf(t, u, j) # {},
                          m \in Find(t, u, j)
                   PROVE  FALSE
        BY FindIs
      <3>1. PICK n \in SlotOf(t, u, j) : n \in Find(t, u, j) /\ n \in Entries
        BY SlotOfIs, FindIs
      <3>2. n = m
        BY <3>1, FindIs DEF Unique
      <3> QED
        BY <3>1, <3>2
    <2>2. CASE i \in SlotOf(t, u, j) /\ k \in SlotOf(t, u, j)
      BY <2>2, SlotOfIs
    <2>3. CASE i \in SlotOf(t, u, j) /\ k \notin SlotOf(t, u, j)
      BY <1>2, <1>6, <2>1, <2>3
    <2>4. CASE i \notin SlotOf(t, u, j) /\ k \in SlotOf(t, u, j)
      BY <1>2, <1>6, <2>1, <2>4
    <2>5. CASE i \notin SlotOf(t, u, j) /\ k \notin SlotOf(t, u, j)
      BY <1>6, <2>5 DEF Unique
    <2> QED
      BY <2>2, <2>3, <2>4, <2>5
  <1>9. Differs(t, r, u, j)
    <2>1. \A i \in Entries : r[i] = t[i] \/
               /\ r[i].active => r[i].user = u /\ r[i].jid = j
               /\ t[i].active => t[i].user = u /\ t[i].jid = j
      BY <1>2, <1>6, <1>7
    <2> QED
      BY <1>5, <1>8, <2>1, DiffersIf
  <1>10. ASSUME SlotOf(t, u, j) # {} PROVE CurSub(r, u, j) = s
    <2>1. PICK i \in SlotOf(t, u, j) : i \in Entries
      BY <1>10, SlotOfIs
    <2>2. r[i] = e
      BY <1>6, <2>1
    <2>3. i \in Find(r, u, j)
      BY <1>2, <1>5, <2>1, <2>2, FindIs
    <2> QED
      BY <1>2, <1>5, <1>8, <2>2, <2>3, CurSubIs
  <1>11. ASSUME SlotOf(t, u, j) = {} PROVE r = t
    <2>1. r = [i \in Entries |-> t[i]]
      BY <1>4, <1>11 DEF r
    <2> QED
      BY <2>1 DEF Table
  <1> QED
    BY <1>9, <1>10, <1>11 DEF r

LEMMA RemovedIs ==
    ASSUME NEW t \in Table, Unique(t), NEW u, NEW j
    PROVE  Differs(t, Removed(t, u, j), u, j)
  <1> DEFINE r == Removed(t, u, j)
  <1>1. DOMAIN t = Entries /\ \A i \in Entries : t[i] \in RosterEntry
    BY DEF Table
  <1>2. r = [i \in Entries |-> IF i \in Find(t, u, j) THEN FreeEntry ELSE t[i]]
    BY <1>1 DEF Removed
  <1>3. r \in Table
    BY <1>1, <1>2, FreeEntryIs DEF Table
  <1>4. \A i \in Entries : r[i] = IF i \in Find(t, u, j) THEN FreeEntry ELSE t[i]
    BY <1>2
  <1> HIDE DEF r
  <1>5. \A i \in Entries : r[i].active => r[i] = t[i]
    BY <1>4, FreeEntryIs
  <1>6. Unique(r)
    BY <1>5 DEF Unique
  <1>7. \A i \in Entries : r[i] = t[i] \/
               /\ r[i].active => r[i].user = u /\ r[i].jid = j
               /\ t[i].active => t[i].user = u /\ t[i].jid = j
    BY <1>4, FindIs, FreeEntryIs
  <1>8. Differs(t, r, u, j)
    BY <1>3, <1>6, <1>7, DiffersIf
  <1> QED
    BY <1>8 DEF r

(* An item of a roster set changes the entry it names. *)
LEMMA UpsertIs ==
    ASSUME NEW t \in Table, Unique(t), NEW u \in Users, NEW item \in Items(u)
    PROVE  Differs(t, roster_store_upsert_item(t, u, item), u, item.jid)
  <1>1. /\ item.jid \in Contacts /\ u \in Owners
        /\ item.sub # {"remove"} => item.sub \in Subscriptions
    BY RosterAssumption DEF Items, Addresses, Contacts, Owners
  <1>2. CASE item.sub = {"remove"}
    BY <1>2, RemovedIs DEF roster_store_upsert_item
  <1>3. CASE item.sub # {"remove"}
    BY <1>1, <1>3, PutIs DEF roster_store_upsert_item
  <1> QED
    BY <1>2, <1>3

LEMMA NewSubIs ==
    ASSUME NEW cur \in Subscriptions, NEW direction \in {"inbound", "outbound"}, NEW ptype \in Types
    PROVE  /\ NewSub(cur, direction, ptype) \in Subscriptions
           /\ direction = "outbound" =>
                /\ "from" \in NewSub(cur, direction, ptype) <=> ptype = "subscribed"
                /\ "to" \in NewSub(cur, direction, ptype) <=> "to" \in cur
           /\ direction = "inbound" =>
                /\ "to" \in NewSub(cur, direction, ptype) <=> ptype = "subscribed"
                /\ "from" \in NewSub(cur, direction, ptype) <=> "from" \in cur
  BY DEF NewSub, Bit, Subscriptions, Types

(* An answer changes one entry, and as it should unless the table is full. *)
LEMMA UpdateIs ==
    ASSUME NEW t \in Table, Unique(t), NEW u \in Owners, NEW j \in Contacts,
           NEW direction \in {"inbound", "outbound"}, NEW ptype \in Types
    PROVE  LET r == subscription_update_roster(t, u, j, direction, ptype)
           IN  /\ Differs(t, r, u, j)
               /\ ~(Changes(t, u, j, direction, ptype) /\ SlotOf(t, u, j) = {}) =>
                     CurSub(r, u, j) = NewSub(CurSub(t, u, j), direction, ptype)
  <1> DEFINE s == NewSub(CurSub(t, u, j), direction, ptype)
             r == subscription_update_roster(t, u, j, direction, ptype)
  <1>1. s \in Subscriptions
    BY CurSubIs, NewSubIs
  <1>2. CASE Changes(t, u, j, direction, ptype)
    <2>1. r = Put(t, u, j, s)
      BY <1>2 DEF subscription_update_roster, Changes
    <2> HIDE DEF s, r
    <2>2. Differs(t, r, u, j) /\ (SlotOf(t, u, j) # {} => CurSub(r, u, j) = s)
      BY <1>1, <2>1, PutIs
    <2> QED
      BY <1>2, <2>2 DEF s, r
  <1>3. CASE ~Changes(t, u, j, direction, ptype)
    <2>1. r = t /\ s = CurSub(t, u, j)
      BY <1>3 DEF subscription_update_roster, Changes
    <2> HIDE DEF s, r
    <2>2. Differs(t, r, u, j)
      BY <2>1 DEF Differs
    <2> QED
      BY <2>1, <2>2 DEF s, r
  <1> QED
    BY <1>2, <1>3

(* An answer changes the two entries of the two users, and both as it      *)
(* should unless the table is full.                                        *)
LEMMA AnsweredIs ==
    ASSUME NEW t \in Table, Unique(t), NEW f \in Senders, NEW j \in Addresses, NEW ptype \in Types
    PROVE  LET r == Answered(t, f, j, ptype)
           IN  /\ Differs(t, HalfAnswered(t, f, j, ptype), f.name, j)
               /\ r \in Table /\ Unique(r)
               /\ \A v, k : ~(v = f.name /\ k = j) /\ ~(v = j.name /\ k = f) =>
                     CurSub(r, v, k) = CurSub(t, v, k)
               /\ f.name # j.name /\ ~AnswerLost(t, f, j, ptype) =>
                     /\ CurSub(r, f.name, j) = NewSub(CurSub(t, f.name, j), "outbound", ptype)
                     /\ CurSub(r, j.name, f) = NewSub(CurSub(t, j.name, f), "inbound", ptype)
  <1> DEFINE h == subscription_update_roster(t, f.name, j, "outbound", ptype)
             r == subscription_update_roster(h, j.name, f, "inbound", ptype)
  <1>1. f.name \in Owners /\ j.name \in Owners /\ f \in Contacts /\ j \in Contacts
    BY AddressIs DEF Owners, Contacts
  <1>2. /\ Differs(t, h, f.name, j)
        /\ ~(Changes(t, f.name, j, "outbound", ptype) /\ SlotOf(t, f.name, j) = {}) =>
              CurSub(h, f.name, j) = NewSub(CurSub(t, f.name, j), "outbound", ptype)
    BY <1>1, UpdateIs
  <1>3. ~AnswerLost(t, f, j, ptype) =>
            /\ ~(Changes(t, f.name, j, "outbound", ptype) /\ SlotOf(t, f.name, j) = {})
            /\ ~(Changes(h, j.name, f, "inbound", ptype) /\ SlotOf(h, j.name, f) = {})
    BY DEF AnswerLost, HalfAnswered
  <1>4. Answered(t, f, j, ptype) = r /\ HalfAnswered(t, f, j, ptype) = h
    BY DEF Answered, HalfAnswered
  <1> HIDE DEF h
  <1>5. h \in Table /\ Unique(h)
    BY <1>2 DEF Differs
  <1>6. /\ Differs(h, r, j.name, f)
        /\ ~(Changes(h, j.name, f, "inbound", ptype) /\ SlotOf(h, j.name, f) = {}) =>
              CurSub(r, j.name, f) = NewSub(CurSub(h, j.name, f), "inbound", ptype)
    BY <1>1, <1>5, UpdateIs
  <1> HIDE DEF r
  <1>7. r \in Table /\ Unique(r)
    BY <1>6 DEF Differs
  <1>8. \A v, k : ~(v = f.name /\ k = j) /\ ~(v = j.name /\ k = f) =>
            CurSub(r, v, k) = CurSub(t, v, k)
    BY <1>2, <1>6 DEF Differs
  <1>9. ASSUME f.name # j.name, ~AnswerLost(t, f, j, ptype)
        PROVE  /\ CurSub(r, f.name, j) = NewSub(CurSub(t, f.name, j), "outbound", ptype)
               /\ CurSub(r, j.name, f) = NewSub(CurSub(t, j.name, f), "inbound", ptype)
    <2>1. CurSub(r, f.name, j) = CurSub(h, f.name, j) /\ CurSub(h, j.name, f) = CurSub(t, j.name, f)
      BY <1>2, <1>6, <1>9 DEF Differs
    <2> QED
      BY <1>2, <1>3, <1>6, <1>9, <2>1
  <1> QED
    BY <1>2, <1>4, <1>7, <1>8, <1>9

----------------------------------------------------------------------------
(* The two ends of a subscription.                                         *)

LEMMA PairIs ==
    /\ \A u, v \in Users : {u, v} \in Pairs <=> u # v
    /\ \A u, v : {u, v} \in Pairs => u \in Users /\ v \in Users /\ u # v
  <1>1. ASSUME NEW u \in Users, NEW v \in Users, u # v PROVE {u, v} \in Pairs
    <2>1. \A w : {u, v} # {w}
      BY <1>1
    <2> QED
      BY <2>1 DEF Pairs
  <1>2. ASSUME NEW u, NEW v, {u, v} \in Pairs PROVE u \in Users /\ v \in Users /\ u # v
    <2>1. PICK a \in Users, b \in Users : {u, v} = {a, b}
      BY <1>2 DEF Pairs
    <2>2. u \in {a, b} /\ v \in {a, b}
      BY <2>1
    <2>3. u # v
      <3> SUFFICES ASSUME u = v PROVE FALSE
        OBVIOUS
      <3>1. {u, v} = {u} /\ u \in Users
        BY <2>2
      <3> QED
        BY <1>2, <3>1 DEF Pairs
    <2> QED
      BY <2>2, <2>3
  <1> QED
    BY <1>1, <1>2

(* The two entries of each pair that is not in T agree. *)
Agree(t, T) ==
    \A u, v \in Users : {u, v} \in Pairs \ T =>
        ("to" \in CurSub(t, u, Addr(v)) <=> "from" \in CurSub(t, v, Addr(u)))

LEMMA TouchIs ==
    ASSUME NEW pair
    PROVE  touched \subseteq Touch(pair) /\ (pair \in Pairs => pair \in Touch(pair))
           /\ (touched \subseteq Pairs => Touch(pair) \subseteq Pairs)
  BY DEF Touch

LEMMA RosterSetAgrees ==
    ASSUME NEW t \in Table, Unique(t), NEW u \in Users, NEW item \in Items(u), Agree(t, touched)
    PROVE  Agree(roster_store_upsert_item(t, u, item), Touch({u, item.jid.name}))
  <1> DEFINE r == roster_store_upsert_item(t, u, item)
  <1>1. Differs(t, r, u, item.jid)
    BY UpsertIs
  <1> HIDE DEF r
  <1>2. ASSUME NEW a \in Users, NEW b \in Users, {a, b} \in Pairs \ Touch({u, item.jid.name})
        PROVE  CurSub(r, a, Addr(b)) = CurSub(t, a, Addr(b))
    <2>1. {a, b} # {u, item.jid.name}
      BY <1>2, TouchIs
    <2>2. ~(a = u /\ Addr(b) = item.jid)
      BY <2>1, AddressIs
    <2> QED
      BY <1>1, <2>2 DEF Differs
  <1>3. \A a, b : {a, b} = {b, a}
    OBVIOUS
  <1> SUFFICES ASSUME NEW a \in Users, NEW b \in Users,
                      {a, b} \in Pairs \ Touch({u, item.jid.name})
               PROVE  "to" \in CurSub(r, a, Addr(b)) <=> "from" \in CurSub(r, b, Addr(a))
    BY DEF Agree, r
  <1>4. {a, b} \in Pairs \ touched
    BY TouchIs
  <1>5. CurSub(r, a, Addr(b)) = CurSub(t, a, Addr(b)) /\ CurSub(r, b, Addr(a)) = CurSub(t, b, Addr(a))
    BY <1>2, <1>3
  <1> QED
    BY <1>4, <1>5 DEF Agree

LEMMA AnswerAgrees ==
    ASSUME NEW t \in Table, Unique(t), NEW f \in Senders, NEW j \in Addresses,
           NEW ptype \in Types, Agree(t, touched)
    PROVE  Agree(Answered(t, f, j, ptype),
                 IF ~j.here \/ AnswerLost(t, f, j, ptype) THEN Touch({f.name, j.name}) ELSE touched)
  <1> DEFINE r == Answered(t, f, j, ptype)
             T == IF ~j.here \/ AnswerLost(t, f, j, ptype) THEN Touch({f.name, j.name}) ELSE touched
  <1>1. /\ \A v, k : ~(v = f.name /\ k = j) /\ ~(v = j.name /\ k = f) =>
              CurSub(r, v, k) = CurSub(t, v, k)
        /\ f.name # j.name /\ ~AnswerLost(t, f, j, ptype) =>
              /\ CurSub(r, f.name, j) = NewSub(CurSub(t, f.name, j), "outbound", ptype)
              /\ CurSub(r, j.name, f) = NewSub(CurSub(t, j.name, f), "inbound", ptype)
    BY AnsweredIs
  <1>2. touched \subseteq T
        /\ ({f.name, j.name} \in Pairs \ T => j.here /\ ~AnswerLost(t, f, j, ptype))
    BY TouchIs
  <1> HIDE DEF r, T
  <1> SUFFICES ASSUME NEW a \in Users, NEW b \in Users, {a, b} \in Pairs \ T
               PROVE  "to" \in CurSub(r, a, Addr(b)) <=> "from" \in CurSub(r, b, Addr(a))
    BY DEF Agree, r, T
  <1>3. {a, b} \in Pairs \ touched /\ a # b
    BY <1>2, PairIs
  <1>4. "to" \in CurSub(t, a, Addr(b)) <=> "from" \in CurSub(t, b, Addr(a))
    BY <1>3 DEF Agree
  <1>5. f = Addr(f.name) /\ j.name \in Users
    BY AddressIs
  <1>6. CASE {a, b} # {f.name, j.name}
    <2>1. ~(a = f.name /\ b = j.name) /\ ~(b = f.name /\ a = j.name)
      BY <1>6
    <2>2. Addr(a).name = a /\ Addr(b).name = b
      BY AddressIs
    <2>3. CurSub(r, a, Addr(b)) = CurSub(t, a, Addr(b)) /\ CurSub(r, b, Addr(a)) = CurSub(t, b, Addr(a))
      BY <1>1, <2>1, <2>2
    <2> QED
      BY <1>4, <2>3
  <1>7. CASE {a, b} = {f.name, j.name}
    <2>1. j.here /\ ~AnswerLost(t, f, j, ptype) /\ j = Addr(j.name)
      BY <1>2, <1>7, AddressIs
    <2>2. \/ a = f.name /\ b = j.name
          \/ b = f.name /\ a = j.name
      BY <1>3, <1>7
    <2>3. f.name # j.name
      BY <1>3, <2>2
    <2> DEFINE x == CurSub(t, f.name, j)
               y == CurSub(t, j.name, f)
    <2>4. x \in Subscriptions /\ y \in Subscriptions
      BY CurSubIs
    <2>5. /\ CurSub(r, f.name, j) = NewSub(x, "outbound", ptype)
          /\ CurSub(r, j.name, f) = NewSub(y, "inbound", ptype)
      BY <1>1, <2>1, <2>3
    <2> HIDE DEF x, y
    <2>6. /\ "from" \in CurSub(r, f.name, j) <=> ptype = "subscribed"
          /\ "to" \in CurSub(r, f.name, j) <=> "to" \in x
          /\ "to" \in CurSub(r, j.name, f) <=> ptype = "subscribed"
          /\ "from" \in CurSub(r, j.name, f) <=> "from" \in y
      BY <2>4, <2>5, NewSubIs
    <2>7. CASE a = f.name /\ b = j.name
      <3>1. "to" \in x <=> "from" \in y
        BY <1>4, <1>5, <2>1, <2>7 DEF x, y
      <3> QED
        BY <1>5, <2>1, <2>6, <2>7, <3>1
    <2>8. CASE b = f.name /\ a = j.name
      BY <1>5, <2>1, <2>6, <2>8
    <2> QED
      BY <2>2, <2>7, <2>8
  <1> QED
    BY <1>6, <1>7

----------------------------------------------------------------------------
(* The table of what absent users should be told.                          *)

PendingTable == [Waiting -> PendingSub]
Requests == [type : Types, from : Senders, to_user : Owners]

UniqueRequests(t) ==
    \A i, k \in Waiting :
        t[i].active /\ t[k].active /\ Request(t[i]) = Request(t[k]) => i = k

LEMMA RequestsOfIs ==
    ASSUME NEW t \in PendingTable
    PROVE  /\ \A q : q \in RequestsOf(t) <=>
                        \E i \in Waiting : t[i].active /\ q = Request(t[i])
           /\ RequestsOf(t) \subseteq Requests
           /\ \A i : i \in Free(t) <=> i \in Waiting /\ ~t[i].active
  <1>1. DOMAIN t = Waiting /\ \A i \in Waiting : t[i] \in PendingSub
    BY DEF PendingTable
  <1>2. \A q : q \in RequestsOf(t) <=> \E i \in Waiting : t[i].active /\ q = Request(t[i])
    BY <1>1 DEF RequestsOf
  <1>3. \A i \in Waiting : Request(t[i]) \in Requests
    BY <1>1 DEF Request, Requests, PendingSub, Owners
  <1>4. \A i : i \in Free(t) <=> i \in Waiting /\ ~t[i].active
    BY <1>1 DEF Free
  <1> QED
    BY <1>2, <1>3, <1>4

LEMMA FreePendingIs == FreePending \in PendingSub /\ FreePending.active = FALSE
  <1>1. Addr(Nobody) \in Senders /\ Nobody \in Owners
    BY AddressIs DEF Owners
  <1> QED
    BY <1>1 DEF FreePending, PendingSub, Owners, Types

LEMMA PendingSlotIs ==
    ASSUME NEW t \in PendingTable, NEW u
    PROVE  /\ PendingSlot(t, u) \in Waiting
           /\ Free(t) # {} => PendingSlot(t, u) \in Free(t)
  <1> DEFINE own == {i \in DOMAIN t : t[i].to_user = u}
  <1>1. DOMAIN t = Waiting /\ Waiting \subseteq Nat /\ 1 \in Waiting
    BY RosterAssumption DEF PendingTable, Waiting
  <1>2. Free(t) \subseteq Waiting /\ own \subseteq Waiting
    BY <1>1 DEF Free
  <1>3. Free(t) # {} => First(Free(t)) \in Free(t)
    BY <1>1, <1>2, FirstIs
  <1>4. own # {} => First(own) \in own
    BY <1>1, <1>2, FirstIs
  <1>5. CASE Free(t) # {}
    <2>1. PendingSlot(t, u) = First(Free(t))
      BY <1>5 DEF PendingSlot
    <2> QED
      BY <1>2, <1>3, <1>5, <2>1
  <1>6. CASE Free(t) = {} /\ own # {}
    <2>1. PendingSlot(t, u) = First(own)
      BY <1>6 DEF PendingSlot
    <2> QED
      BY <1>2, <1>4, <1>6, <2>1
  <1>7. CASE Free(t) = {} /\ own = {}
    <2>1. PendingSlot(t, u) = 1
      BY <1>7 DEF PendingSlot
    <2> QED
      BY <1>1, <1>7, <2>1
  <1> QED
    BY <1>5, <1>6, <1>7

(* A request is added, at the price of one other when no slot is free. *)
LEMMA EnqueueIs ==
    ASSUME NEW t \in PendingTable, UniqueRequests(t),
           NEW type \in Types, NEW f \in Senders, NEW j \in Addresses
    PROVE  LET r == pending_sub_enqueue(t, type, f, j)
               q == [type |-> type, from |-> f, to_user |-> j.name]
           IN  /\ r \in PendingTable /\ UniqueRequests(r)
               /\ RequestsOf(r) = (RequestsOf(t) \ Displaced(t, type, f, j.name)) \cup {q}
               /\ \A i \in Waiting : r[i].active =>
                     r[i] = t[i] \/ (r[i].to_user = j.name /\ r[i].at = j)
  <1> DEFINE r == pending_sub_enqueue(t, type, f, j)
             q == [type |-> type, from |-> f, to_user |-> j.name]
             e == [active |-> TRUE, type |-> type, from |-> f, to_user |-> j.name, at |-> j]
             n == PendingSlot(t, j.name)
             lost == Displaced(t, type, f, j.name)
  <1>1. j.name \in Owners /\ j \in Contacts
    BY AddressIs DEF Owners, Contacts
  <1>2. e \in PendingSub /\ e.active = TRUE /\ e.to_user = j.name /\ e.at = j /\ Request(e) = q
    BY <1>1 DEF PendingSub, Owners, Contacts, Request
  <1>3. n \in Waiting /\ (Free(t) # {} => n \in Free(t))
    BY PendingSlotIs
  <1>4. \A i \in Waiting : t[i] \in PendingSub /\ (Request(t[i]) = q <=>
            t[i].type = type /\ t[i].from = f /\ t[i].to_user = j.name)
    BY DEF PendingTable, Request
  <1>5. Duplicate(t, type, f, j.name) <=> \E i \in Waiting : t[i].active /\ Request(t[i]) = q
    <2>1. DOMAIN t = Waiting
      BY DEF PendingTable
    <2> QED
      BY <1>4, <2>1 DEF Duplicate, Same
  <1>6. CASE Duplicate(t, type, f, j.name)
    <2>1. r = t /\ lost = {}
      BY <1>6 DEF pending_sub_enqueue, Displaced
    <2>2. q \in RequestsOf(t)
      BY <1>5, <1>6, RequestsOfIs
    <2> HIDE DEF r, q, lost
    <2>3. RequestsOf(r) = (RequestsOf(t) \ lost) \cup {q}
      BY <2>1, <2>2
    <2>4. r \in PendingTable /\ UniqueRequests(r) /\ \A i \in Waiting : r[i] = t[i]
      BY <2>1
    <2> QED
      BY <2>3, <2>4 DEF r, q, lost
  <1>7. CASE ~Duplicate(t, type, f, j.name)
    <2>1. r = [t EXCEPT ![n] = e]
      BY <1>7 DEF pending_sub_enqueue
    <2>2. lost = IF Free(t) = {} THEN {Request(t[n])} ELSE {}
      BY <1>7 DEF Displaced
    <2> HIDE DEF r, q, e, n, lost
    <2>3. r \in PendingTable /\ r[n] = e /\ \A i \in Waiting : i # n => r[i] = t[i]
      BY <1>2, <1>3, <2>1 DEF PendingTable
    <2>4. \A i \in Waiting : t[i].active => Request(t[i]) # q
      BY <1>5, <1>7
    <2>5. UniqueRequests(r)
      <3> SUFFICES ASSUME NEW i \in Waiting, NEW k \in Waiting,
                          r[i].active, r[k].active, Request(r[i]) = Request(r[k])
                   PROVE  i = k
        BY DEF UniqueRequests
      <3>1. CASE i # n /\ k # n
        BY <2>3, <3>1 DEF UniqueRequests
      <3>2. CASE i = n /\ k # n
        BY <1>2, <2>3, <2>4, <3>2
      <3>3. CASE i # n /\ k = n
        BY <1>2, <2>3, <2>4, <3>3
      <3> QED
        BY <3>1, <3>2, <3>3
    <2>6. RequestsOf(r) = (RequestsOf(t) \ lost) \cup {q}
      <3>1. ASSUME NEW x \in RequestsOf(r) PROVE x \in (RequestsOf(t) \ lost) \cup {q}
        <4>1. PICK i \in Waiting : r[i].active /\ x = Request(r[i])
          BY <2>3, <3>1, RequestsOfIs
        <4>2. CASE i = n
          BY <1>2, <2>3, <4>1, <4>2
        <4>3. CASE i # n
          <5>1. t[i].active /\ x = Request(t[i]) /\ x \in RequestsOf(t)
            BY <2>3, <4>1, <4>3, RequestsOfIs
          <5>2. x \notin lost
            <6>1. CASE Free(t) = {}
              <7>1. t[n].active
                BY <1>3, <6>1, RequestsOfIs
              <7>2. Request(t[n]) # x
                BY <1>3, <4>3, <5>1, <7>1 DEF UniqueRequests
              <7> QED
                BY <2>2, <6>1, <7>2
            <6>2. CASE Free(t) # {}
              BY <2>2, <6>2
            <6> QED
              BY <6>1, <6>2
          <5> QED
            BY <5>1, <5>2
        <4> QED
          BY <4>2, <4>3
      <3>2. q \in RequestsOf(r)
        BY <1>2, <1>3, <2>3, RequestsOfIs
      <3>3. ASSUME NEW x \in RequestsOf(t) \ lost PROVE x \in RequestsOf(r)
        <4>1. PICK i \in Waiting : t[i].active /\ x = Request(t[i])
          BY <3>3, RequestsOfIs
        <4>2. i # n
          <5>1. CASE Free(t) = {}
            BY <2>2, <3>3, <4>1, <5>1
          <5>2. CASE Free(t) # {}
            BY <1>3, <4>1, <5>2, RequestsOfIs
          <5> QED
            BY <5>1, <5>2
        <4> QED
          BY <2>3, <4>1, <4>2, RequestsOfIs
      <3> QED
        BY <3>1, <3>2, <3>3
    <2>7. \A i \in Waiting : r[i].active =>
              r[i] = t[i] \/ (r[i].to_user = j.name /\ r[i].at = j)
      BY <1>2, <2>3
    <2> QED
      BY <2>3, <2>5, <2>6, <2>7 DEF r, q, lost
  <1> QED
    BY <1>6, <1>7

(* All that waits for the user is sent, and only that. *)
LEMMA DrainIs ==
    ASSUME NEW t \in PendingTable, UniqueRequests(t), NEW u
    PROVE  LET r == pending_sub_drain(t, u)
           IN  /\ r \in PendingTable /\ UniqueRequests(r)
               /\ RequestsOf(r) = {q \in RequestsOf(t) : q.to_user # u}
               /\ \A i \in Waiting : r[i].active => r[i] = t[i] /\ r[i].to_user # u
  <1> DEFINE r == pending_sub_drain(t, u)
  <1>1. DOMAIN t = Waiting /\ \A i \in Waiting : t[i] \in PendingSub
    BY DEF PendingTable
  <1>2. r = [i \in Waiting |-> IF t[i].active /\ t[i].to_user = u THEN FreePending ELSE t[i]]
    BY <1>1 DEF pending_sub_drain
  <1>3. r \in PendingTable
    BY <1>1, <1>2, FreePendingIs DEF PendingTable
  <1>4. \A i \in Waiting : r[i] = IF t[i].active /\ t[i].to_user = u THEN FreePending ELSE t[i]
    BY <1>2
  <1> HIDE DEF r
  <1>5. \A i \in Waiting : r[i].active => r[i] = t[i] /\ r[i].to_user # u
    BY <1>4, FreePendingIs
  <1>6. UniqueRequests(r)
    BY <1>5 DEF UniqueRequests
  <1>7. \A i \in Waiting : Request(t[i]).to_user = t[i].to_user
    BY DEF Request
  <1>8. RequestsOf(r) = {q \in RequestsOf(t) : q.to_user # u}
    <2>1. ASSUME NEW q \in RequestsOf(r) PROVE q \in RequestsOf(t) /\ q.to_user # u
      <3>1. PICK i \in Waiting : r[i].active /\ q = Request(r[i])
        BY <1>3, <2>1, RequestsOfIs
      <3> QED
        BY <1>5, <1>7, <3>1, RequestsOfIs
    <2>2. ASSUME NEW q \in RequestsOf(t), q.to_user # u PROVE q \in RequestsOf(r)
      <3>1. PICK i \in Waiting : t[i].active /\ q = Request(t[i])
        BY <2>2, RequestsOfIs
      <3>2. r[i] = t[i]
        BY <1>4, <1>7, <2>2, <3>1
      <3> QED
        BY <1>3, <3>1, <3>2, RequestsOfIs
    <2> QED
      BY <2>1, <2>2
  <1> QED
    BY <1>3, <1>5, <1>6, <1>8 DEF r

----------------------------------------------------------------------------
(* The actions.                                                            *)

(* The invariant in the words of the lemmas. *)
Parts ==
    /\ roster_store \in Table /\ Unique(roster_store)
    /\ pending_subs \in PendingTable /\ UniqueRequests(pending_subs)
    /\ saved = [roster |-> roster_store, pending |-> pending_subs]
    /\ online \subseteq Users /\ back \subseteq Users \ online
    /\ bound \subseteq online \cup back
    /\ greeted \in [Users -> {"not", "steady", "shaken"}]
    /\ owed = RequestsOf(pending_subs)
    /\ touched \subseteq Pairs
    /\ Agree(roster_store, touched)
    /\ WaitsForNamed /\ NoneWaitsForPresent

LEMMA InvIs == IInv <=> Parts
  <1>1. EntriesUnique <=> Unique(roster_store)
    BY DEF EntriesUnique, Unique
  <1>2. WaitingUnique <=> UniqueRequests(pending_subs)
    BY DEF WaitingUnique, UniqueRequests
  <1>3. SubscriptionsAgree <=> Agree(roster_store, touched)
    BY DEF SubscriptionsAgree, Agree
  <1>4. ASSUME IInv
        PROVE  /\ saved = [roster |-> roster_store, pending |-> pending_subs]
               /\ owed = RequestsOf(pending_subs)
               /\ roster_store \in Table /\ pending_subs \in PendingTable
               /\ online \subseteq Users /\ back \subseteq Users \ online
               /\ bound \subseteq online \cup back
               /\ greeted \in [Users -> {"not", "steady", "shaken"}]
               /\ touched \subseteq Pairs
    BY <1>4 DEF IInv, TypeOK, RosterSaved, RequestsKept, Table, PendingTable
  <1>5. ASSUME /\ saved = [roster |-> roster_store, pending |-> pending_subs]
               /\ owed = RequestsOf(pending_subs)
               /\ roster_store \in Table /\ pending_subs \in PendingTable
               /\ online \subseteq Users /\ back \subseteq Users \ online
               /\ bound \subseteq online \cup back
               /\ greeted \in [Users -> {"not", "steady", "shaken"}]
               /\ touched \subseteq Pairs
        PROVE  TypeOK /\ RosterSaved /\ RequestsKept
    <2>1. RosterSaved
      BY <1>5 DEF RosterSaved
    <2>2. RequestsKept
      BY <1>5, <2>1 DEF RequestsKept, RosterSaved
    <2>3. saved \in [roster : [Entries -> RosterEntry], pending : [Waiting -> PendingSub]]
      BY <1>5 DEF Table, PendingTable
    <2>4. owed \subseteq [type : Types, from : Senders, to_user : Users \cup {Nobody}]
      BY <1>5, RequestsOfIs DEF Requests, Owners
    <2> QED
      BY <1>5, <2>1, <2>2, <2>3, <2>4 DEF TypeOK, Table, PendingTable
  <1> QED
    BY <1>1, <1>2, <1>3, <1>4, <1>5 DEF IInv, Parts

LEMMA InitIInv == Init => IInv
  <1> SUFFICES ASSUME Init PROVE IInv
    OBVIOUS
  <1>1. roster_store \in Table /\ \A i \in Entries : ~roster_store[i].active
    BY FreeEntryIs DEF Init, Table
  <1>2. pending_subs \in PendingTable /\ \A i \in Waiting : ~pending_subs[i].active
    BY FreePendingIs DEF Init, PendingTable
  <1>3. Unique(roster_store) /\ UniqueRequests(pending_subs)
    BY <1>1, <1>2 DEF Unique, UniqueRequests
  <1>4. owed = RequestsOf(pending_subs)
    BY <1>2, RequestsOfIs DEF Init
  <1>5. Agree(roster_store, touched)
    <2>1. \A u, j : Find(roster_store, u, j) = {}
      BY <1>1, FindIs
    <2> QED
      BY <2>1 DEF Agree, CurSub
  <1>6. WaitsForNamed /\ NoneWaitsForPresent
    BY <1>2 DEF Init, WaitsForNamed, NoneWaitsForPresent
  <1> QED
    BY <1>1, <1>2, <1>3, <1>4, <1>5, <1>6, InvIs DEF Init, Parts

(* Sessions come and go: the tables stay, and a greeting is remembered     *)
(* only for a session that is there.                                       *)
LEMMA SessionsKeep ==
    ASSUME Parts, UNCHANGED <<roster_store, pending_subs, saved, owed, touched>>,
           online' \subseteq Users, back' \subseteq Users \ online',
           bound' \subseteq online' \cup back',
           greeted' \in [Users -> {"not", "steady", "shaken"}],
           \A u \in Users : greeted'[u] = "steady" =>
               greeted[u] = "steady" /\ u \in online' \cap bound'
    PROVE  Parts'
  <1>1. WaitsForNamed' /\ NoneWaitsForPresent'
    BY DEF Parts, WaitsForNamed, NoneWaitsForPresent
  <1>2. Agree(roster_store', touched')
    BY DEF Parts
  <1> QED
    BY <1>1, <1>2 DEF Parts

LEMMA RosterSetKeeps ==
    ASSUME Parts, NEW u \in Users, NEW item \in Items(u), handle_roster_request(u, item)
    PROVE  Parts'
  <1>1. /\ roster_store \in Table /\ Unique(roster_store) /\ Agree(roster_store, touched)
        /\ touched \subseteq Pairs /\ WaitsForNamed /\ NoneWaitsForPresent
    BY DEF Parts
  <1>2. /\ roster_store' = roster_store_upsert_item(roster_store, u, item)
        /\ touched' = Touch({u, item.jid.name})
        /\ UNCHANGED <<pending_subs, online, back, bound, greeted, owed>>
    BY DEF handle_roster_request, sessions
  <1>3. roster_store' \in Table /\ Unique(roster_store')
    BY <1>1, <1>2, UpsertIs DEF Differs
  <1>4. Agree(roster_store', touched')
    BY <1>1, <1>2, RosterSetAgrees
  <1>5. touched' \subseteq Pairs
    BY <1>1, <1>2, TouchIs
  <1>6. WaitsForNamed' /\ NoneWaitsForPresent'
    BY <1>1, <1>2 DEF WaitsForNamed, NoneWaitsForPresent
  <1>7. saved' = [roster |-> roster_store', pending |-> pending_subs']
    BY <1>2 DEF Parts, handle_roster_request
  <1> QED
    BY <1>2, <1>3, <1>4, <1>5, <1>6, <1>7 DEF Parts

LEMMA PresenceKeeps ==
    ASSUME Parts, NEW u \in Users, handle_initial_presence(u)
    PROVE  Parts'
  <1>1. /\ pending_subs \in PendingTable /\ UniqueRequests(pending_subs)
        /\ owed = RequestsOf(pending_subs)
        /\ greeted \in [Users -> {"not", "steady", "shaken"}]
        /\ WaitsForNamed /\ NoneWaitsForPresent
    BY DEF Parts
  <1>2. /\ pending_subs' = pending_sub_drain(pending_subs, u)
        /\ greeted' = [greeted EXCEPT ![u] = IF u \in bound THEN "steady" ELSE "shaken"]
        /\ owed' = {q \in owed : q.to_user # u}
        /\ u \in online
        /\ UNCHANGED <<roster_store, online, back, bound, touched>>
    BY DEF handle_initial_presence
  <1>3. /\ pending_subs' \in PendingTable /\ UniqueRequests(pending_subs')
        /\ owed' = RequestsOf(pending_subs')
        /\ \A i \in Waiting : pending_subs'[i].active =>
              pending_subs'[i] = pending_subs[i] /\ pending_subs'[i].to_user # u
    BY <1>1, <1>2, DrainIs
  <1>4. /\ greeted' \in [Users -> {"not", "steady", "shaken"}]
        /\ greeted'[u] = "steady" => u \in bound
        /\ \A v \in Users : v # u => greeted'[v] = greeted[v]
    BY <1>1, <1>2
  <1>5. WaitsForNamed'
    BY <1>1, <1>2, <1>3, <1>4 DEF WaitsForNamed
  <1>6. NoneWaitsForPresent'
    BY <1>1, <1>3, <1>4 DEF NoneWaitsForPresent
  <1>7. saved' = [roster |-> roster_store', pending |-> pending_subs']
    BY <1>2 DEF Parts, handle_initial_presence
  <1>8. Agree(roster_store', touched')
    BY <1>2 DEF Parts
  <1> QED
    BY <1>2, <1>3, <1>4, <1>5, <1>6, <1>7, <1>8 DEF Parts

(* The tables and what is known of them, whatever the sessions do. *)
TableParts ==
    /\ roster_store \in Table /\ Unique(roster_store)
    /\ pending_subs \in PendingTable /\ UniqueRequests(pending_subs)
    /\ saved = [roster |-> roster_store, pending |-> pending_subs]
    /\ owed = RequestsOf(pending_subs)
    /\ touched \subseteq Pairs
    /\ Agree(roster_store, touched)
    /\ \A i \in Waiting : LET p == pending_subs[i] IN
          p.active => p.to_user = p.at.name /\ p.to_user \in Users

LEMMA PartsAre ==
    Parts <=> /\ TableParts /\ NoneWaitsForPresent
              /\ online \subseteq Users /\ back \subseteq Users \ online
              /\ bound \subseteq online \cup back
              /\ greeted \in [Users -> {"not", "steady", "shaken"}]
              /\ \A u \in Users : greeted[u] = "steady" => u \in online \cap bound
  BY DEF Parts, TableParts, WaitsForNamed

(* The stanza is sent on, or kept for a session that cannot be reached. *)
LEMMA SentOrKeptIs ==
    ASSUME Parts, NEW type \in Types, NEW f \in Senders, NEW j \in Addresses,
           SentOrKept(type, f, j)
    PROVE  /\ pending_subs' \in PendingTable /\ UniqueRequests(pending_subs')
           /\ owed' = RequestsOf(pending_subs')
           /\ \A i \in Waiting : pending_subs'[i].active =>
                 \/ pending_subs'[i] = pending_subs[i]
                 \/ /\ pending_subs'[i].to_user = j.name /\ pending_subs'[i].at = j
                    /\ ~Delivered(j)
           /\ \A i \in Waiting : LET p == pending_subs'[i] IN
                 p.active => p.to_user = p.at.name /\ p.to_user \in Users
  <1>1. /\ pending_subs \in PendingTable /\ UniqueRequests(pending_subs)
        /\ owed = RequestsOf(pending_subs) /\ WaitsForNamed
    BY DEF Parts
  <1>2. j.name \in Users
    BY AddressIs
  <1>3. /\ pending_subs' \in PendingTable /\ UniqueRequests(pending_subs')
        /\ owed' = RequestsOf(pending_subs')
        /\ \A i \in Waiting : pending_subs'[i].active =>
              \/ pending_subs'[i] = pending_subs[i]
              \/ /\ pending_subs'[i].to_user = j.name /\ pending_subs'[i].at = j
                 /\ ~Delivered(j)
    <2>1. CASE Delivered(j)
      BY <1>1, <2>1 DEF SentOrKept
    <2>2. CASE ~Delivered(j)
      <3>1. /\ pending_subs' = pending_sub_enqueue(pending_subs, type, f, j)
            /\ owed' = (owed \ Displaced(pending_subs, type, f, j.name))
                           \cup {[type |-> type, from |-> f, to_user |-> j.name]}
        BY <2>2 DEF SentOrKept
      <3>2. /\ pending_subs' \in PendingTable /\ UniqueRequests(pending_subs')
            /\ RequestsOf(pending_subs') =
                  (RequestsOf(pending_subs) \ Displaced(pending_subs, type, f, j.name))
                      \cup {[type |-> type, from |-> f, to_user |-> j.name]}
            /\ \A i \in Waiting : pending_subs'[i].active =>
                  \/ pending_subs'[i] = pending_subs[i]
                  \/ pending_subs'[i].to_user = j.name /\ pending_subs'[i].at = j
        BY <1>1, <3>1, EnqueueIs
      <3> QED
        BY <1>1, <2>2, <3>1, <3>2
    <2> QED
      BY <2>1, <2>2
  <1>4. \A i \in Waiting : LET p == pending_subs'[i] IN
            p.active => p.to_user = p.at.name /\ p.to_user \in Users
    BY <1>1, <1>2, <1>3 DEF WaitsForNamed
  <1> QED
    BY <1>3, <1>4

LEMMA SubscriptionKeeps ==
    ASSUME Parts, NEW u \in Users, NEW type \in Types, NEW j \in Addresses, Subscription(u, type, j)
    PROVE  Parts'
  <1> DEFINE f == Sender(u)
  <1>1. /\ roster_store \in Table /\ Unique(roster_store) /\ Agree(roster_store, touched)
        /\ touched \subseteq Pairs /\ WaitsForNamed /\ NoneWaitsForPresent
    BY DEF Parts
  <1>2. f \in Senders /\ j.name \in Users
    BY AddressIs DEF Sender, Owners
  <1>3. UNCHANGED <<online, back, bound, greeted>>
    BY DEF Subscription, sessions
  <1>4. roster_store' = IF type \in Answers THEN Answered(roster_store, f, j, type)
                        ELSE roster_store
    BY DEF Subscription
  <1>5. touched' = IF type \in Answers /\ (~j.here \/ AnswerLost(roster_store, f, j, type))
                   THEN Touch({f.name, j.name}) ELSE touched
    BY DEF Subscription
  <1>6. SentOrKept(type, f, j)
    BY DEF Subscription
  <1>7. saved' = [roster |-> roster_store', pending |-> pending_subs']
    BY DEF Subscription, Saved
  <1> HIDE DEF f
  <1>8. roster_store' \in Table /\ Unique(roster_store') /\ Agree(roster_store', touched')
    <2>1. CASE type \in Answers
      <3>1. /\ roster_store' = Answered(roster_store, f, j, type)
            /\ touched' = IF ~j.here \/ AnswerLost(roster_store, f, j, type)
                          THEN Touch({f.name, j.name}) ELSE touched
        BY <1>4, <1>5, <2>1
      <3>2. roster_store' \in Table /\ Unique(roster_store')
        BY <1>1, <1>2, <3>1, AnsweredIs
      <3>3. Agree(roster_store', touched')
        BY <1>1, <1>2, <3>1, AnswerAgrees
      <3> QED
        BY <3>2, <3>3
    <2>2. CASE type \notin Answers
      BY <1>1, <1>4, <1>5, <2>2
    <2> QED
      BY <2>1, <2>2
  <1>9. touched' \subseteq Pairs
    BY <1>1, <1>5, TouchIs
  <1>10. /\ pending_subs' \in PendingTable /\ UniqueRequests(pending_subs')
         /\ owed' = RequestsOf(pending_subs')
         /\ \A i \in Waiting : pending_subs'[i].active =>
               \/ pending_subs'[i] = pending_subs[i]
               \/ /\ pending_subs'[i].to_user = j.name /\ pending_subs'[i].at = j
                  /\ ~Delivered(j)
         /\ \A i \in Waiting : LET p == pending_subs'[i] IN
               p.active => p.to_user = p.at.name /\ p.to_user \in Users
    BY <1>2, <1>6, SentOrKeptIs
  <1>11. WaitsForNamed'
    BY <1>1, <1>3, <1>10 DEF WaitsForNamed
  <1>12. NoneWaitsForPresent'
    <2>1. ~Delivered(j) /\ j.here => greeted[j.name] # "steady"
      BY <1>1, <1>2 DEF Delivered, WaitsForNamed
    <2> QED
      BY <1>1, <1>3, <1>10, <2>1 DEF NoneWaitsForPresent
  <1> QED
    BY <1>3, <1>7, <1>8, <1>9, <1>10, <1>11, <1>12 DEF Parts

(* After a restart there is no session, and nobody has been greeted. *)
LEMMA UnpluggedKeeps ==
    ASSUME TableParts', Unplugged
    PROVE  Parts'
  <1>1. /\ online' = {} /\ back' = {} /\ bound' = {}
        /\ greeted' \in [Users -> {"not", "steady", "shaken"}]
        /\ \A u \in Users : greeted'[u] = "not"
    BY DEF Unplugged
  <1>2. NoneWaitsForPresent'
    BY <1>1 DEF NoneWaitsForPresent
  <1>3. WaitsForNamed'
    BY <1>1 DEF WaitsForNamed, TableParts
  <1> QED
    BY <1>1, <1>2, <1>3 DEF Parts, TableParts

(* A pair whose answer was cut in the middle is not spoken of. *)
LEMMA CutKeeps ==
    ASSUME Parts, NEW u \in Users, NEW type \in Types, NEW j \in Addresses,
           SubscriptionCut(u, type, j)
    PROVE  Parts'
  <1> DEFINE f == Sender(u)
             h == HalfAnswered(roster_store, f, j, type)
  <1>1. /\ roster_store \in Table /\ Unique(roster_store) /\ Agree(roster_store, touched)
        /\ touched \subseteq Pairs
    BY DEF Parts
  <1>2. f \in Senders
    BY AddressIs DEF Sender, Owners
  <1>3. /\ SentOrKept(type, f, j)
        /\ roster_store' = roster_store \/ roster_store' = h
        /\ touched' = IF roster_store' # roster_store THEN Touch({f.name, j.name}) ELSE touched
        /\ Unplugged
    BY DEF SubscriptionCut
  <1>4. saved' = [roster |-> roster_store', pending |-> pending_subs']
    BY DEF SubscriptionCut, Saved
  <1> HIDE DEF f
  <1>5. Differs(roster_store, h, f.name, j)
    BY <1>1, <1>2, AnsweredIs
  <1> HIDE DEF h
  <1>6. roster_store' \in Table /\ Unique(roster_store') /\ touched' \subseteq Pairs
    BY <1>1, <1>3, <1>5, TouchIs DEF Differs
  <1>7. Agree(roster_store', touched')
    <2>1. CASE roster_store' = roster_store
      BY <1>1, <1>3, <2>1
    <2>2. CASE roster_store' # roster_store
      <3>1. roster_store' = h /\ touched' = Touch({f.name, j.name})
        BY <1>3, <2>2
      <3> SUFFICES ASSUME NEW a \in Users, NEW b \in Users, {a, b} \in Pairs \ touched'
                   PROVE  "to" \in CurSub(h, a, Addr(b)) <=> "from" \in CurSub(h, b, Addr(a))
        BY <3>1 DEF Agree
      <3>2. {a, b} \in Pairs \ touched /\ {a, b} # {f.name, j.name}
        BY <3>1, TouchIs
      <3>3. ~(a = f.name /\ Addr(b) = j) /\ ~(b = f.name /\ Addr(a) = j)
        <4>1. ~(a = f.name /\ b = j.name) /\ ~(b = f.name /\ a = j.name)
          BY <3>2
        <4>2. Addr(a).name = a /\ Addr(b).name = b
          BY AddressIs
        <4> QED
          BY <4>1, <4>2
      <3>4. /\ CurSub(h, a, Addr(b)) = CurSub(roster_store, a, Addr(b))
            /\ CurSub(h, b, Addr(a)) = CurSub(roster_store, b, Addr(a))
        BY <1>5, <3>3 DEF Differs
      <3> QED
        BY <1>1, <3>2, <3>4 DEF Agree
    <2> QED
      BY <2>1, <2>2
  <1>8. /\ pending_subs' \in PendingTable /\ UniqueRequests(pending_subs')
        /\ owed' = RequestsOf(pending_subs')
        /\ \A i \in Waiting : LET p == pending_subs'[i] IN
              p.active => p.to_user = p.at.name /\ p.to_user \in Users
    BY <1>2, <1>3, SentOrKeptIs
  <1>9. TableParts'
    BY <1>4, <1>6, <1>7, <1>8 DEF TableParts
  <1> QED
    BY <1>3, <1>9, UnpluggedKeeps

LEMMA NextKeeps == Parts /\ [Next]_vars => Parts'
  <1> SUFFICES ASSUME Parts, [Next]_vars PROVE Parts'
    OBVIOUS
  <1>1. /\ online \subseteq Users /\ back \subseteq Users \ online
        /\ bound \subseteq online \cup back
        /\ greeted \in [Users -> {"not", "steady", "shaken"}]
        /\ \A u \in Users : greeted[u] = "steady" => u \in online \cap bound
        /\ saved = [roster |-> roster_store, pending |-> pending_subs]
    BY DEF Parts, WaitsForNamed
  <1>2. ASSUME NEW u \in Users, Login(u) PROVE Parts'
    <2>1. /\ UNCHANGED <<roster_store, pending_subs, saved, owed, touched, greeted, back>>
          /\ u \notin online \cup back /\ online' = online \cup {u}
          /\ bound' = bound \cup {u} \/ bound' = bound
      BY <1>2 DEF Login, tables
    <2> QED
      BY <1>1, <2>1, SessionsKeep
  <1>3. ASSUME NEW u \in Users, RouteStream(u) PROVE Parts'
    <2>1. /\ UNCHANGED <<roster_store, pending_subs, saved, owed, touched, bound>>
          /\ u \in online /\ online' = online \ {u} /\ back' = back \cup {u}
          /\ greeted' = [greeted EXCEPT ![u] = IF @ = "not" THEN "not" ELSE "shaken"]
      BY <1>3 DEF RouteStream, tables
    <2>2. /\ greeted' \in [Users -> {"not", "steady", "shaken"}]
          /\ greeted'[u] # "steady" /\ \A v \in Users : v # u => greeted'[v] = greeted[v]
      BY <1>1, <2>1
    <2> QED
      BY <1>1, <2>1, <2>2, SessionsKeep
  <1>4. ASSUME NEW u \in Users, Bind(u) \/ AskSession(u) PROVE Parts'
    <2>1. /\ UNCHANGED <<roster_store, pending_subs, saved, owed, touched, greeted>>
          /\ u \in back /\ online' = online \cup {u} /\ back' = back \ {u}
          /\ bound' = bound \cup {u} \/ bound' = bound
      BY <1>4 DEF Bind, AskSession, Return, tables
    <2> QED
      BY <1>1, <2>1, SessionsKeep
  <1>5. ASSUME NEW u \in Users, Logout(u) PROVE Parts'
    <2>1. /\ UNCHANGED <<roster_store, pending_subs, saved, owed, touched>>
          /\ online' = online \ {u} /\ back' = back \ {u} /\ bound' = bound \ {u}
          /\ greeted' = [greeted EXCEPT ![u] = "not"]
      BY <1>5 DEF Logout, tables
    <2>2. /\ greeted' \in [Users -> {"not", "steady", "shaken"}]
          /\ greeted'[u] = "not" /\ \A v \in Users : v # u => greeted'[v] = greeted[v]
      BY <1>1, <2>1
    <2> QED
      BY <1>1, <2>1, <2>2, SessionsKeep
  <1>6. ASSUME NEW u \in Users, handle_initial_presence(u) PROVE Parts'
    BY <1>6, PresenceKeeps
  <1>7. ASSUME NEW u \in Users, NEW item \in Items(u), handle_roster_request(u, item) PROVE Parts'
    BY <1>7, RosterSetKeeps
  <1>8. ASSUME NEW u \in Users, NEW type \in Types, NEW j \in Targets[u],
               Subscription(u, type, j) \/ SubscriptionCut(u, type, j)
        PROVE  Parts'
    <2>1. j \in Addresses
      BY RosterAssumption DEF Addresses
    <2> QED
      BY <1>8, <2>1, SubscriptionKeeps, CutKeeps
  <1>9. CASE Restart
    <2>1. UNCHANGED <<roster_store, pending_subs, saved, owed, touched>> /\ Unplugged
      BY <1>1, <1>9 DEF Restart
    <2>2. TableParts
      BY PartsAre
    <2>3. TableParts'
      BY <2>1, <2>2 DEF TableParts
    <2> QED
      BY <2>1, <2>3, UnpluggedKeeps
  <1>10. CASE UNCHANGED vars
    <2>1. UNCHANGED <<roster_store, pending_subs, saved, owed, touched, online, back, bound, greeted>>
      BY <1>10 DEF vars, tables, sessions
    <2> QED
      BY <1>1, <2>1, SessionsKeep
  <1> QED
    BY <1>2, <1>3, <1>4, <1>5, <1>6, <1>7, <1>8, <1>9, <1>10 DEF Next

LEMMA Invariance == Spec => []IInv
  <1>1. Init => Parts
    BY InitIInv, InvIs
  <1> QED
    BY <1>1, NextKeeps, InvIs, PTL DEF Spec

(* Every entry of roster_store and pending_subs, in memory and on disk,    *)
(* has its type.                                                           *)
THEOREM TypeCorrect == Spec => []TypeOK
  <1>1. IInv => TypeOK
    BY DEF IInv
  <1> QED
    BY Invariance, <1>1, PTL

(* roster_store_upsert_item and subscription_update_roster never make a    *)
(* second entry for a contact, in a table of any size.                     *)
THEOREM OneEntryEach == Spec => []EntriesUnique
  <1>1. IInv => EntriesUnique
    BY DEF IInv
  <1> QED
    BY Invariance, <1>1, PTL

(* The two updates of handle_broadcast_presence keep the lists of the two  *)
(* users of a subscription in agreement, with the four exceptions of       *)
(* SubscriptionsAgree; the power may fail between any two saves.           *)
THEOREM EndsAgree == Spec => []SubscriptionsAgree
  <1>1. IInv => SubscriptionsAgree
    BY DEF IInv
  <1> QED
    BY Invariance, <1>1, PTL

(* pending_sub_enqueue and pending_sub_drain lose no request but the one   *)
(* that a full table gives up, across restarts.                            *)
THEOREM NoRequestLost == Spec => []RequestsKept
  <1>1. IInv => RequestsKept
    BY DEF IInv
  <1> QED
    BY Invariance, <1>1, PTL

(* After handle_initial_presence nothing waits, at the address that was    *)
(* written to, for a session that had a resource then and has not been put *)
(* back to STATE_BIND since.                                               *)
THEOREM PresentAreTold == Spec => []NoneWaitsForPresent
  <1>1. IInv => NoneWaitsForPresent
    BY DEF IInv
  <1> QED
    BY Invariance, <1>1, PTL

(* Every handler that changes a table saves it before it returns. *)
THEOREM RestartKeepsTables == Spec => []RosterSaved
  <1>1. IInv => RosterSaved
    BY DEF IInv
  <1> QED
    BY Invariance, <1>1, PTL
=============================================================================

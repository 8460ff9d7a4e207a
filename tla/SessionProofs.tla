---------------------------- MODULE SessionProofs ----------------------------
(***************************************************************************)
(* Proofs about Session, for every number of slots, connections and users. *)
(***************************************************************************)
EXTENDS Session, TLAPS

(* A slot with the type and the invariant of a slot. *)
Good(ctx) == ctx \in Ctx /\ CtxInv(ctx)

States == {"new", "open", "closed", "half", "both", "gone"}

LEMMA StateTypes ==
    {STATE_CONNECTED, STATE_STARTTLS, STATE_SASL, STATE_AUTHENTICATED, STATE_BIND,
     STATE_SESSION, STATE_READY} \subseteq STATE_CONNECTED .. STATE_READY
  BY DEF STATE_CONNECTED, STATE_STARTTLS, STATE_SASL, STATE_AUTHENTICATED, STATE_BIND,
         STATE_SESSION, STATE_READY

LEMMA ZeroGood == Good(ZeroCtx)
  BY SessionAssumption
  DEF Good, Ctx, ZeroCtx, CtxInv, STATE_CONNECTED, STATE_STARTTLS, STATE_SASL,
      STATE_AUTHENTICATED, STATE_BIND, STATE_READY

LEMMA NewGood ==
    ASSUME NEW ctx, NEW c \in Pcbs
    PROVE  Good(NewCtx(ctx, c)) /\ NewCtx(ctx, c).full_jid = NoUser
  <1> DEFINE new == NewCtx(ctx, c)
  <1>1. ZeroCtx \in Ctx
    BY ZeroGood DEF Good
  <1>2. new \in Ctx
    BY <1>1 DEF NewCtx, Ctx
  <1>3. /\ new.state = STATE_CONNECTED /\ new.tls_initialised = FALSE
        /\ new.tls_established = FALSE /\ new.authenticated = FALSE
        /\ new.full_jid = NoUser
    BY DEF NewCtx, ZeroCtx
  <1> HIDE DEF new
  <1>4. CtxInv(new)
    BY <1>2, <1>3 DEF CtxInv, Ctx, STATE_CONNECTED, STATE_STARTTLS, STATE_SASL,
          STATE_AUTHENTICATED, STATE_BIND, STATE_READY
  <1> QED
    BY <1>2, <1>3, <1>4 DEF new, Good

(* The session of a slot ends: FIN, </stream:stream>. *)
LEMMA EndGood ==
    ASSUME NEW ctx, Good(ctx)
    PROVE  Good([xmpp_tls_client_free(ctx) EXCEPT !.pcb = NoPcb, !.state = STATE_CONNECTED])
  <1> DEFINE freed == xmpp_tls_client_free(ctx)
             new == [freed EXCEPT !.pcb = NoPcb, !.state = STATE_CONNECTED]
  <1>1. freed \in Ctx /\ (freed.tls_established => freed.tls_initialised)
    <2>1. CASE ctx.tls_initialised
      BY <2>1 DEF Good, Ctx, xmpp_tls_client_free
    <2>2. CASE ~ctx.tls_initialised
      BY <2>2 DEF Good, xmpp_tls_client_free, CtxInv
    <2> QED
      BY <2>1, <2>2
  <1> HIDE DEF freed
  <1>2. new \in Ctx
    BY <1>1, StateTypes DEF Ctx
  <1>3. /\ new.pcb = NoPcb /\ new.state = STATE_CONNECTED
        /\ new.tls_established = freed.tls_established
        /\ new.tls_initialised = freed.tls_initialised
    BY <1>1 DEF Ctx
  <1> HIDE DEF new
  <1>4. CtxInv(new)
    BY <1>1, <1>3 DEF CtxInv, STATE_CONNECTED, STATE_STARTTLS, STATE_SASL,
          STATE_AUTHENTICATED, STATE_BIND, STATE_READY
  <1> QED
    BY <1>2, <1>4 DEF Good, new, freed

LEMMA HandshakeGood ==
    ASSUME NEW ctx, Good(ctx), ctx.state = STATE_STARTTLS,
           NEW out \in HandshakeOutcomes \cup {"overflow"}
    PROVE  /\ Good(HandshakeCtx(ctx, out))
           /\ HandshakeCtx(ctx, out).full_jid = ctx.full_jid
  <1> DEFINE new == HandshakeCtx(ctx, out)
  <1>1. ctx \in Ctx /\ CtxInv(ctx)
    BY DEF Good
  <1>2. /\ ctx.tls_initialised /\ ~ctx.tls_established /\ ctx.pcb # NoPcb
        /\ ~ctx.authenticated /\ ctx.full_jid = NoUser
    BY <1>1 DEF CtxInv, STATE_CONNECTED, STATE_STARTTLS, STATE_SASL,
          STATE_AUTHENTICATED, STATE_BIND, STATE_READY
  <1>3. new \in Ctx
    <2>1. CASE out = "done"
      BY <1>1, <2>1, StateTypes DEF HandshakeCtx, Ctx
    <2>2. CASE out \in {"want_read", "want_write"}
      BY <1>1, <2>2 DEF HandshakeCtx, Ctx
    <2>3. CASE out = "failed"
      BY <1>1, <2>3, StateTypes DEF HandshakeCtx, Ctx
    <2>4. CASE out = "overflow"
      BY <1>1, <2>4, StateTypes DEF HandshakeCtx, Ctx
    <2> QED
      BY <2>1, <2>2, <2>3, <2>4 DEF HandshakeOutcomes
  <1>4. /\ new.full_jid = ctx.full_jid /\ new.authenticated = ctx.authenticated
        /\ new.tls_initialised = ctx.tls_initialised
        /\ \/ new.state = STATE_CONNECTED
           \/ /\ new.state = STATE_STARTTLS /\ new.pcb = ctx.pcb
              /\ new.tls_established = ctx.tls_established
    BY <1>1 DEF HandshakeCtx, HandshakeOutcomes, Ctx
  <1> HIDE DEF new
  <1>5. CtxInv(new)
    BY <1>2, <1>4 DEF CtxInv, STATE_CONNECTED, STATE_STARTTLS, STATE_SASL,
          STATE_AUTHENTICATED, STATE_BIND, STATE_READY
  <1> QED
    BY <1>3, <1>4, <1>5 DEF Good, new

LEMMA DecryptGood ==
    ASSUME NEW ctx, Good(ctx), ctx.state # STATE_STARTTLS,
           NEW end \in {"ok", "error", "overflow"}
    PROVE  /\ Good(DecryptCtx(ctx, end))
           /\ DecryptCtx(ctx, end).full_jid = ctx.full_jid
  BY SessionAssumption
  DEF Good, Ctx, DecryptCtx, CtxInv, STATE_CONNECTED, STATE_STARTTLS, STATE_SASL,
      STATE_AUTHENTICATED, STATE_BIND, STATE_READY

Alive == {"open", "closed"}

LEMMA ClosedType ==
    ASSUME NEW t \in [Pcbs -> States], NEW p
    PROVE  /\ Closed(t, p) \in [Pcbs -> States]
           /\ \A c \in Pcbs : t[c] \in Alive => Closed(t, p)[c] \in Alive
  BY DEF Closed, States, Alive

(* Slots only lose pcbs, and no pcb is freed. *)
LEMMA AliveKept ==
    ASSUME IInv, arg' = arg,
           \A c \in Pcbs : tcp[c] \in Alive => tcp'[c] \in Alive,
           \A i \in Slots : client_registry'[i].pcb \in {NoPcb, client_registry[i].pcb}
    PROVE  SlotPcbAlive'
  <1> SUFFICES ASSUME NEW i \in Slots, client_registry'[i].pcb # NoPcb
               PROVE  /\ tcp'[client_registry'[i].pcb] \in {"open", "closed"}
                      /\ arg'[client_registry'[i].pcb] = i
    BY DEF SlotPcbAlive, Live
  <1> DEFINE p == client_registry[i].pcb
  <1>1. client_registry'[i].pcb = p /\ p # NoPcb
    OBVIOUS
  <1>2. tcp[p] \in Alive /\ arg[p] = i
    BY <1>1 DEF IInv, SlotPcbAlive, Live, Alive
  <1>3. p \in Pcbs
    BY <1>1 DEF IInv, TypeOK, Ctx
  <1> HIDE DEF p
  <1> QED
    BY <1>1, <1>2, <1>3 DEF Alive

(* A slot whose state changes: what the new state needs is there. *)
LEMMA StateGood ==
    ASSUME NEW ctx, Good(ctx), NEW s \in STATE_CONNECTED .. STATE_READY,
           s # STATE_STARTTLS,
           s >= STATE_AUTHENTICATED => ctx.authenticated,
           ctx.pcb # NoPcb /\ s >= STATE_SASL => ctx.tls_established,
           ctx.pcb # NoPcb /\ ctx.full_jid # NoUser => s >= STATE_BIND
    PROVE  Good([ctx EXCEPT !.state = s])
  <1> DEFINE new == [ctx EXCEPT !.state = s]
  <1>1. ctx \in Ctx /\ CtxInv(ctx)
    BY DEF Good
  <1>2. new \in Ctx
    BY <1>1 DEF Ctx
  <1>3. /\ new.state = s /\ new.pcb = ctx.pcb /\ new.authenticated = ctx.authenticated
        /\ new.tls_established = ctx.tls_established
        /\ new.tls_initialised = ctx.tls_initialised
        /\ new.by = ctx.by /\ new.full_jid = ctx.full_jid /\ new.username = ctx.username
    BY <1>1 DEF Ctx
  <1> HIDE DEF new
  <1>4. CtxInv(new)
    BY <1>1, <1>3 DEF CtxInv
  <1> QED
    BY <1>2, <1>4 DEF Good, new

(* A slot that loses its pcb. *)
LEMMA DropGood ==
    ASSUME NEW ctx, Good(ctx), NEW s \in STATE_CONNECTED .. STATE_READY,
           s # STATE_STARTTLS, s >= STATE_AUTHENTICATED => ctx.authenticated
    PROVE  Good([ctx EXCEPT !.pcb = NoPcb, !.state = s])
  <1> DEFINE new == [ctx EXCEPT !.pcb = NoPcb, !.state = s]
  <1>1. ctx \in Ctx /\ CtxInv(ctx)
    BY DEF Good
  <1>2. new \in Ctx
    BY <1>1 DEF Ctx
  <1>3. /\ new.state = s /\ new.pcb = NoPcb /\ new.authenticated = ctx.authenticated
        /\ new.tls_established = ctx.tls_established
        /\ new.tls_initialised = ctx.tls_initialised
    BY <1>1 DEF Ctx
  <1> HIDE DEF new
  <1>4. CtxInv(new)
    BY <1>1, <1>3 DEF CtxInv
  <1> QED
    BY <1>2, <1>4 DEF Good, new

(* A stream header is left in rx_buffer or taken out of it. *)
LEMMA StuckGood ==
    ASSUME NEW ctx, Good(ctx), NEW b \in BOOLEAN
    PROVE  Good([ctx EXCEPT !.stuck = b])
  <1> DEFINE new == [ctx EXCEPT !.stuck = b]
  <1>1. new \in Ctx
    BY DEF Good, Ctx
  <1>2. /\ new.pcb = ctx.pcb /\ new.full_jid = ctx.full_jid /\ new.username = ctx.username
        /\ new.state = ctx.state /\ new.authenticated = ctx.authenticated
        /\ new.tls_initialised = ctx.tls_initialised /\ new.by = ctx.by
        /\ new.tls_established = ctx.tls_established
    BY DEF Good, Ctx
  <1> HIDE DEF new
  <1>3. Good(new)
    BY <1>1, <1>2 DEF Good, CtxInv
  <1> QED
    BY <1>3 DEF new

(* One slot changes, and nothing is bound by that. *)
LEMMA SlotChange ==
    ASSUME IInv, NEW i \in Slots, NEW new, Good(new),
           client_registry' = [client_registry EXCEPT ![i] = new],
           \/ new.pcb = NoPcb
           \/ new.full_jid = NoUser
           \/ new.full_jid = client_registry[i].full_jid /\ client_registry[i].pcb # NoPcb
    PROVE  /\ client_registry' \in [Slots -> Ctx]
           /\ \A j \in Slots : CtxInv(client_registry'[j])
           /\ OneBindingPerUser'
  <1>1. client_registry \in [Slots -> Ctx] /\ \A j \in Slots : CtxInv(client_registry[j])
    BY DEF IInv, TypeOK
  <1>2. client_registry' \in [Slots -> Ctx]
    BY <1>1 DEF Good
  <1>3. client_registry'[i] = new /\ \A j \in Slots : j # i => client_registry'[j] = client_registry[j]
    BY <1>1
  <1>4. \A j \in Slots : CtxInv(client_registry'[j])
    BY <1>1, <1>3 DEF Good
  <1>5. OneBindingPerUser'
    <2> SUFFICES ASSUME NEW j \in Slots, NEW k \in Slots,
                        client_registry'[j].pcb # NoPcb, client_registry'[k].pcb # NoPcb,
                        client_registry'[j].full_jid # NoUser,
                        client_registry'[j].full_jid = client_registry'[k].full_jid
                 PROVE  j = k
      BY DEF OneBindingPerUser, Live
    <2>1. \A m \in {j, k} : /\ client_registry[m].pcb # NoPcb
                             /\ client_registry[m].full_jid = client_registry'[m].full_jid
      BY <1>3
    <2> QED
      BY <2>1 DEF IInv, OneBindingPerUser, Live
  <1> QED
    BY <1>2, <1>4, <1>5

(* A failed assertion stops everything. *)
LEMMA AssertKeeps == IInv /\ AssertFails => IInv'
  BY DEF IInv, TypeOK, AssertFails, LoopInv, slot, OneBindingPerUser, SlotPcbAlive, Live, CtxInv

(* The slot of the loop changes, without a new pcb and without more TLS. *)
LEMMA LoopChange ==
    ASSUME IInv, cur # NoPcb, NEW new, NEW next \in {NoPcb, cur}, Becomes(new, next),
           Good(new), next = cur => new.state # STATE_STARTTLS,
           new.tls_established => client_registry[slot].tls_established,
           new.pcb \in {NoPcb, client_registry[slot].pcb},
           new.full_jid = client_registry[slot].full_jid,
           tcp' = tcp \/ \E p : tcp' = Closed(tcp, p), halted' \in BOOLEAN
    PROVE  IInv'
  <1>1. cur \in Pcbs /\ slot \in Slots
    BY DEF IInv, TypeOK, slot
  <1>2. client_registry' = [client_registry EXCEPT ![slot] = new]
    BY DEF Becomes
  <1>3. /\ client_registry' \in [Slots -> Ctx]
        /\ \A j \in Slots : CtxInv(client_registry'[j])
        /\ OneBindingPerUser'
    BY <1>1, <1>2, SlotChange
  <1>4. /\ tcp' \in [Pcbs -> States]
        /\ \A c \in Pcbs : tcp[c] \in Alive => tcp'[c] \in Alive
    BY ClosedType DEF IInv, TypeOK, States
  <1>5. TypeOK'
    BY <1>1, <1>3, <1>4 DEF IInv, TypeOK, Becomes, States
  <1>6. SlotPcbAlive'
    <2>1. \A i \in Slots : client_registry'[i].pcb \in {NoPcb, client_registry[i].pcb}
      BY <1>1, <1>2 DEF IInv, TypeOK
    <2> QED
      BY <1>4, <2>1, AliveKept DEF Becomes
  <1>7. LoopInv'
    <2>1. CASE next = NoPcb
      BY <2>1 DEF Becomes, LoopInv
    <2>2. CASE next = cur
      <3>1. slot' = slot /\ cur' = cur
        BY <2>2 DEF Becomes, slot
      <3>2. client_registry'[slot'] = new
        BY <1>1, <1>2, <3>1 DEF IInv, TypeOK
      <3> QED
        BY <2>2, <3>1, <3>2 DEF LoopInv, IInv
    <2> QED
      BY <2>1, <2>2
  <1> QED
    BY <1>3, <1>5, <1>6, <1>7 DEF IInv

(* The slot whose loop runs. *)
LEMMA LoopSlot ==
    ASSUME IInv, cur # NoPcb
    PROVE  /\ slot \in Slots /\ Good(client_registry[slot])
           /\ tcp \in [Pcbs -> States] /\ halted \in BOOLEAN
           /\ \A p : Closed(tcp, p) \in [Pcbs -> States]
  <1>1. cur \in Pcbs /\ slot \in Slots /\ tcp \in [Pcbs -> States] /\ halted \in BOOLEAN
    BY DEF IInv, TypeOK, slot, States
  <1>2. Good(client_registry[slot])
    BY <1>1 DEF IInv, TypeOK, Good
  <1> QED
    BY <1>1, <1>2, ClosedType

(* handle_handshake_logic moves to a state the slot is ready for. *)
LEMMA FeaturesKeep ==
    ASSUME IInv, cur # NoPcb, NEW next \in {NoPcb, cur},
           client_registry[slot].state # STATE_STARTTLS,
           handle_handshake_logic(client_registry[slot], next)
    PROVE  IInv'
  <1> DEFINE ctx == client_registry[slot]
             mid == [ctx EXCEPT !.state = FeaturesState(ctx)]
             new == [ctx EXCEPT !.state = FeaturesState(ctx), !.stuck = FALSE]
  <1>1. Good(ctx) /\ tcp \in [Pcbs -> States] /\ halted \in BOOLEAN
    BY LoopSlot
  <1>2. CASE AssertFails
    BY <1>2, AssertKeeps
  <1>3. CASE Becomes(new, next) /\ UNCHANGED tcp /\ UNCHANGED halted
    <2> HIDE DEF ctx
    <2>1. ctx \in Ctx /\ CtxInv(ctx) /\ ctx.state \in STATE_CONNECTED .. STATE_READY
          /\ ctx.authenticated \in BOOLEAN /\ ctx.tls_established \in BOOLEAN
      BY <1>1 DEF Good, Ctx
    <2>2. /\ FeaturesState(ctx) \in STATE_CONNECTED .. STATE_READY
          /\ FeaturesState(ctx) # STATE_STARTTLS
          /\ FeaturesState(ctx) >= STATE_AUTHENTICATED => ctx.authenticated
          /\ ctx.pcb # NoPcb /\ FeaturesState(ctx) >= STATE_SASL => ctx.tls_established
          /\ ctx.pcb # NoPcb /\ ctx.full_jid # NoUser => FeaturesState(ctx) >= STATE_BIND
      <3>1. CASE ctx.authenticated
        BY <2>1, <3>1 DEF FeaturesState, CtxInv, STATE_CONNECTED, STATE_STARTTLS, STATE_SASL,
                          STATE_AUTHENTICATED, STATE_BIND, STATE_READY
      <3>2. CASE ~ctx.authenticated /\ ctx.tls_established
        BY <2>1, <3>2 DEF FeaturesState, CtxInv, STATE_CONNECTED, STATE_STARTTLS, STATE_SASL,
                          STATE_AUTHENTICATED, STATE_BIND, STATE_READY
      <3>3. CASE ~ctx.authenticated /\ ~ctx.tls_established
        <4>1. FeaturesState(ctx) = ctx.state
          BY <3>3 DEF FeaturesState
        <4> QED
          BY <2>1, <3>3, <4>1 DEF ctx, CtxInv
      <3> QED
        BY <2>1, <3>1, <3>2, <3>3
    <2>3. Good(mid)
      BY <1>1, <2>2, StateGood
    <2>4. /\ new.tls_established = ctx.tls_established /\ new.pcb = ctx.pcb
          /\ new.full_jid = ctx.full_jid /\ new.state = FeaturesState(ctx)
      BY <2>1 DEF Ctx
    <2>5. new = [mid EXCEPT !.stuck = FALSE]
      BY <2>1 DEF Ctx
    <2> HIDE DEF new, mid
    <2>6. Good(new)
      BY <2>3, <2>5, StuckGood
    <2> QED
      BY <1>1, <1>3, <2>2, <2>4, <2>6, LoopChange DEF ctx
  <1> QED
    BY <1>2, <1>3 DEF handle_handshake_logic, send_raw

LEMMA StarttlsKeeps == IInv /\ Starttls => IInv'
  <1> SUFFICES ASSUME IInv, Starttls PROVE IInv'
    OBVIOUS
  <1> DEFINE ctx == client_registry[slot]
             ready == [ctx EXCEPT !.state = STATE_STARTTLS, !.tls_initialised = TRUE,
                                  !.tls_established = FALSE, !.tls_want_write = FALSE]
             refused == [ctx EXCEPT !.tls_want_write = FALSE, !.pcb = NoPcb]
  <1>1. /\ cur # NoPcb /\ ctx.state = STATE_CONNECTED /\ ~ctx.tls_established
        /\ Good(ctx) /\ tcp \in [Pcbs -> States] /\ halted \in BOOLEAN
        /\ Closed(tcp, ctx.pcb) \in [Pcbs -> States]
    BY LoopSlot DEF Starttls, Parsing, InLoop
  <1>2. ctx \in Ctx /\ CtxInv(ctx)
    BY <1>1 DEF Good
  <1>3. CASE AssertFails
    BY <1>3, AssertKeeps
  <1>4. CASE ctx.pcb # NoPcb /\ Becomes(ready, NoPcb) /\ UNCHANGED tcp /\ UNCHANGED halted
    <2> HIDE DEF ctx
    <2>1. ready \in Ctx
      BY <1>2, StateTypes DEF Ctx
    <2>2. /\ ready.state = STATE_STARTTLS /\ ready.pcb = ctx.pcb /\ ready.full_jid = ctx.full_jid
          /\ ready.tls_initialised = TRUE /\ ready.tls_established = FALSE
          /\ ready.authenticated = ctx.authenticated
      BY <1>2 DEF Ctx
    <2>3. ~ctx.authenticated /\ ctx.full_jid = NoUser
      BY <1>1, <1>2, <1>4 DEF CtxInv, STATE_CONNECTED, STATE_BIND
    <2> HIDE DEF ready
    <2>4. Good(ready)
      BY <1>4, <2>1, <2>2, <2>3 DEF Good, CtxInv, STATE_STARTTLS, STATE_SASL, STATE_AUTHENTICATED, STATE_BIND
    <2> QED
      BY <1>1, <1>4, <2>2, <2>4, LoopChange DEF ctx
  <1>5. CASE Becomes(refused, NoPcb) /\ Closes(ctx) /\ UNCHANGED halted
    <2> HIDE DEF ctx
    <2>1. refused \in Ctx
      BY <1>2, StateTypes DEF Ctx
    <2>2. /\ refused.state = STATE_CONNECTED /\ refused.pcb = NoPcb /\ refused.full_jid = ctx.full_jid
          /\ refused.tls_initialised = ctx.tls_initialised
          /\ refused.tls_established = ctx.tls_established
      BY <1>1, <1>2 DEF Ctx
    <2> HIDE DEF refused
    <2>3. Good(refused)
      BY <1>1, <2>1, <2>2 DEF Good, CtxInv, STATE_CONNECTED, STATE_STARTTLS, STATE_AUTHENTICATED
    <2> QED
      BY <1>1, <1>5, <2>2, <2>3, LoopChange DEF ctx, Closes
  <1> QED
    BY <1>3, <1>4, <1>5 DEF Starttls, Output

LEMMA StreamCloseKeeps == IInv /\ StreamClose => IInv'
  <1> SUFFICES ASSUME IInv, StreamClose PROVE IInv'
    OBVIOUS
  <1> DEFINE ctx == client_registry[slot]
             new == [xmpp_tls_client_free(ctx) EXCEPT !.pcb = NoPcb, !.state = STATE_CONNECTED]
  <1>1. /\ cur # NoPcb /\ Good(ctx) /\ halted \in BOOLEAN
        /\ Closed(tcp, ctx.pcb) \in [Pcbs -> States]
    BY LoopSlot DEF StreamClose, Parsing, InLoop
  <1>2. CASE AssertFails
    BY <1>2, AssertKeeps
  <1>3. CASE Becomes(new, NoPcb) /\ Closes(ctx) /\ UNCHANGED halted
    <2> HIDE DEF ctx
    <2>1. Good(new)
      BY <1>1, EndGood
    <2>2. new.pcb = NoPcb /\ new.full_jid = ctx.full_jid
          /\ (new.tls_established => ctx.tls_established)
      BY <1>1 DEF Good, Ctx, xmpp_tls_client_free
    <2> HIDE DEF new
    <2> QED
      BY <1>1, <1>3, <2>1, <2>2, LoopChange DEF ctx, Closes
  <1> QED
    BY <1>2, <1>3 DEF StreamClose, send_raw

LEMMA InitIInv == Init => IInv
  <1> SUFFICES ASSUME Init PROVE IInv
    OBVIOUS
  <1>1. 0 \in Slots
    BY SessionAssumption DEF Slots
  <1>2. TypeOK
    BY <1>1, ZeroGood DEF Init, TypeOK, Good
  <1>3. \A i \in Slots : client_registry[i] = ZeroCtx
    BY DEF Init
  <1>4. \A i \in Slots : CtxInv(client_registry[i])
    BY <1>3, ZeroGood DEF Good
  <1>5. ZeroCtx.pcb = NoPcb
    BY DEF ZeroCtx
  <1> QED
    BY <1>2, <1>3, <1>4, <1>5 DEF Init, IInv, LoopInv, OneBindingPerUser, SlotPcbAlive, Live

LEMMA HeaderKeeps == IInv /\ (StreamHeader \/ RouteStream) => IInv'
  <1>1. IInv /\ (StreamHeader \/ RouteStream) =>
           /\ cur # NoPcb /\ client_registry[slot].state # STATE_STARTTLS
           /\ \/ handle_handshake_logic(client_registry[slot], NoPcb)
              \/ handle_handshake_logic(client_registry[slot], cur)
    BY DEF StreamHeader, RouteStream, Parsing, InLoop, IInv, LoopInv
  <1> QED
    BY <1>1, FeaturesKeep

(* The steps of the loop that only mark the slot or drop its pcb. *)
LEMMA RefusalKeeps ==
    IInv /\ (StreamWrongHost \/ StreamBadHeader \/ StreamStuck \/ StreamUnstuck) => IInv'
  <1> SUFFICES ASSUME IInv, StreamWrongHost \/ StreamBadHeader \/ StreamStuck \/ StreamUnstuck
               PROVE  IInv'
    OBVIOUS
  <1> DEFINE ctx == client_registry[slot]
             dropped == [ctx EXCEPT !.pcb = NoPcb, !.stuck = FALSE]
             marked(b) == [ctx EXCEPT !.stuck = b]
  <1>1. cur # NoPcb
    BY DEF StreamWrongHost, StreamBadHeader, StreamStuck, StreamUnstuck, Parsing, InLoop
  <1>2. /\ Good(ctx) /\ tcp \in [Pcbs -> States] /\ halted \in BOOLEAN
        /\ Closed(tcp, ctx.pcb) \in [Pcbs -> States] /\ ctx.state # STATE_STARTTLS
    BY <1>1, LoopSlot DEF IInv, LoopInv
  <1>3. CASE AssertFails
    BY <1>3, AssertKeeps
  <1>4. CASE Becomes(dropped, NoPcb) /\ Closes(ctx) /\ UNCHANGED halted
    <2> HIDE DEF ctx
    <2>1. dropped \in Ctx /\ CtxInv(ctx)
      BY <1>2 DEF Good, Ctx
    <2>2. /\ dropped.pcb = NoPcb /\ dropped.full_jid = ctx.full_jid
          /\ dropped.state = ctx.state /\ dropped.authenticated = ctx.authenticated
          /\ dropped.tls_initialised = ctx.tls_initialised
          /\ dropped.tls_established = ctx.tls_established
      BY <1>2 DEF Good, Ctx
    <2> HIDE DEF dropped
    <2>3. Good(dropped)
      BY <1>2, <2>1, <2>2 DEF Good, CtxInv
    <2> QED
      BY <1>1, <1>2, <1>4, <2>2, <2>3, LoopChange DEF ctx, Closes
  <1>5. ASSUME NEW b \in BOOLEAN, NEW next \in {NoPcb, cur}, Becomes(marked(b), next),
               tcp' = tcp \/ tcp' = Closed(tcp, ctx.pcb), UNCHANGED halted
        PROVE  IInv'
    <2> DEFINE new == marked(b)
    <2> HIDE DEF ctx
    <2>1. Good(new)
      BY <1>2, StuckGood
    <2>2. /\ new.pcb = ctx.pcb /\ new.full_jid = ctx.full_jid
          /\ new.state = ctx.state /\ new.tls_established = ctx.tls_established
      BY <1>2 DEF Good, Ctx
    <2>3. Becomes(new, next)
      BY <1>5
    <2> HIDE DEF new
    <2> QED
      BY <1>1, <1>2, <1>5, <2>1, <2>2, <2>3, LoopChange DEF ctx
  <1> QED
    BY <1>3, <1>4, <1>5
    DEF StreamWrongHost, StreamBadHeader, StreamStuck, StreamUnstuck, Output, Closes

(* The steps of the loop that leave the slots alone. *)
LEMMA QuietKeeps == IInv /\ (EndOfData \/ OtherElement \/ SaslRefused) => IInv'
  <1>1. IInv /\ EndOfData => IInv'
    BY DEF EndOfData, IInv, TypeOK, LoopInv, OneBindingPerUser, SlotPcbAlive, Live, CtxInv
  <1>2. IInv /\ UNCHANGED vars => IInv'
    BY DEF vars, IInv, TypeOK, LoopInv, slot, OneBindingPerUser, SlotPcbAlive, Live, CtxInv
  <1> QED
    BY <1>1, <1>2, AssertKeeps DEF OtherElement, SaslRefused, send_raw, vars

LEMMA SaslFailureKeeps ==
    ASSUME IInv, NEW u \in Users, SaslFailure(u)
    PROVE  IInv'
  <1> DEFINE ctx == client_registry[slot]
             new == AfterFailure(ctx, u)
  <1>1. cur # NoPcb /\ ctx.state \in {STATE_CONNECTED, STATE_SASL} /\ ctx.tls_established
        /\ Becomes(new, cur) /\ halted' = halted
    BY DEF SaslFailure, Parsing, InLoop, InSasl
  <1>2. /\ Good(ctx) /\ tcp \in [Pcbs -> States] /\ halted \in BOOLEAN
        /\ Closed(tcp, ctx.pcb) \in [Pcbs -> States]
    BY <1>1, LoopSlot
  <1>3. tcp' = tcp \/ tcp' = Closed(tcp, ctx.pcb)
    BY <1>2 DEF SaslFailure, Closes
  <1> HIDE DEF ctx
  <1>4. ctx \in Ctx /\ CtxInv(ctx) /\ ctx.sasl_failures \in 0 .. SASL_MAX_FAILURES
    BY <1>2 DEF Good, Ctx
  <1> DEFINE n == ctx.sasl_failures + 1
             m == IF n < SASL_MAX_FAILURES THEN n ELSE SASL_MAX_FAILURES
             counted == [ctx EXCEPT !.username = u, !.sasl_failures = m]
             ended == [counted EXCEPT !.pcb = NoPcb, !.state = STATE_CONNECTED]
  <1>5. m \in 0 .. SASL_MAX_FAILURES
    BY <1>4, SessionAssumption
  <1>6. new = counted \/ new = ended
    BY DEF AfterFailure
  <1> HIDE DEF m
  <1>7. counted \in Ctx
    BY <1>4, <1>5 DEF Ctx
  <1>8. ended \in Ctx
    <2> HIDE DEF counted
    <2> QED
      BY <1>7, StateTypes DEF Ctx
  <1>9. /\ new.authenticated = ctx.authenticated /\ new.by = ctx.by
        /\ new.full_jid = ctx.full_jid
        /\ new.tls_established = ctx.tls_established
        /\ new.tls_initialised = ctx.tls_initialised
        /\ \/ new.pcb = ctx.pcb /\ new.state = ctx.state
           \/ new.pcb = NoPcb /\ new.state = STATE_CONNECTED
    BY <1>4, <1>6 DEF Ctx
  <1>10. new \in Ctx
    BY <1>6, <1>7, <1>8
  <1> HIDE DEF new
  <1>11. ctx.pcb # NoPcb => ctx.full_jid = NoUser
    BY <1>1, <1>4 DEF CtxInv, STATE_CONNECTED, STATE_SASL, STATE_BIND
  <1>12. Good(new) /\ new.state # STATE_STARTTLS
    BY <1>1, <1>4, <1>9, <1>10, <1>11
    DEF Good, CtxInv, STATE_CONNECTED, STATE_SASL, STATE_STARTTLS, STATE_AUTHENTICATED, STATE_BIND
  <1> QED
    BY <1>1, <1>2, <1>3, <1>9, <1>12, LoopChange DEF ctx

LEMMA SaslSuccessKeeps ==
    ASSUME IInv, NEW u \in Users, SaslSuccess(u)
    PROVE  IInv'
  <1> DEFINE ctx == client_registry[slot]
             new == [ctx EXCEPT !.username = u, !.authenticated = TRUE,
                                !.state = STATE_AUTHENTICATED, !.by = cur]
  <1>1. cur # NoPcb /\ ctx.state \in {STATE_CONNECTED, STATE_SASL} /\ ctx.tls_established
        /\ Becomes(new, cur) /\ tcp' = tcp /\ halted' = halted
    BY DEF SaslSuccess, Parsing, InLoop, InSasl
  <1>2. /\ Good(ctx) /\ tcp \in [Pcbs -> States] /\ halted \in BOOLEAN
        /\ cur \in Pcbs /\ ctx.pcb \in {NoPcb, cur}
    BY <1>1, LoopSlot DEF IInv, LoopInv, TypeOK
  <1> HIDE DEF ctx
  <1>3. ctx \in Ctx /\ CtxInv(ctx)
    BY <1>2 DEF Good
  <1>4. new \in Ctx
    BY <1>2, <1>3, StateTypes DEF Ctx
  <1>5. /\ new.authenticated = TRUE /\ new.by = cur /\ new.state = STATE_AUTHENTICATED
        /\ new.full_jid = ctx.full_jid /\ new.pcb = ctx.pcb
        /\ new.tls_established = ctx.tls_established
        /\ new.tls_initialised = ctx.tls_initialised
    BY <1>3 DEF Ctx
  <1>6. ctx.pcb # NoPcb => ctx.full_jid = NoUser
    BY <1>1, <1>3 DEF CtxInv, STATE_CONNECTED, STATE_SASL, STATE_BIND
  <1> HIDE DEF new
  <1>7. Good(new) /\ new.state # STATE_STARTTLS
    BY <1>1, <1>2, <1>3, <1>4, <1>5, <1>6
    DEF Good, CtxInv, STATE_STARTTLS, STATE_AUTHENTICATED
  <1> QED
    BY <1>1, <1>2, <1>5, <1>7, LoopChange DEF ctx

(* Ready, from a state that an authenticated slot has. *)
LEMMA ReadyKeeps == IInv /\ (handle_core_session \/ RoutePresence) => IInv'
  <1> SUFFICES ASSUME IInv, handle_core_session \/ RoutePresence PROVE IInv'
    OBVIOUS
  <1> DEFINE ctx == client_registry[slot]
             ready == [ctx EXCEPT !.state = STATE_READY]
             sent == [ctx EXCEPT !.initial_presence_sent = TRUE]
  <1>1. cur # NoPcb /\ ctx.state >= STATE_AUTHENTICATED
    <2>1. CASE handle_core_session
      BY <2>1 DEF handle_core_session, Parsing, InLoop
    <2>2. CASE RoutePresence
      <3>1. cur # NoPcb /\ ctx.state >= STATE_SESSION
        BY <2>2 DEF RoutePresence, Parsing, InLoop
      <3>2. ctx.state \in STATE_CONNECTED .. STATE_READY
        BY <3>1, LoopSlot DEF Good, Ctx
      <3> QED
        BY <3>1, <3>2 DEF STATE_SESSION, STATE_AUTHENTICATED, STATE_CONNECTED, STATE_READY
    <2> QED
      BY <2>1, <2>2
  <1>2. /\ Good(ctx) /\ tcp \in [Pcbs -> States] /\ halted \in BOOLEAN
        /\ ctx.state # STATE_STARTTLS
    BY <1>1, LoopSlot DEF IInv, LoopInv
  <1>3. CASE AssertFails
    BY <1>3, AssertKeeps
  <1>4. CASE Becomes(ready, cur) /\ UNCHANGED <<tcp, halted>>
    <2> HIDE DEF ctx
    <2>1. ctx \in Ctx /\ CtxInv(ctx)
      BY <1>2 DEF Good
    <2>2. ctx.authenticated /\ (ctx.pcb # NoPcb => ctx.tls_established)
      BY <1>1, <2>1 DEF CtxInv
    <2>3. Good(ready)
      BY <1>2, <2>2, StateGood, StateTypes DEF STATE_READY, STATE_STARTTLS, STATE_BIND
    <2>4. /\ ready.pcb = ctx.pcb /\ ready.full_jid = ctx.full_jid
          /\ ready.tls_established = ctx.tls_established /\ ready.state = STATE_READY
      BY <2>1 DEF Ctx
    <2> HIDE DEF ready
    <2>5. ready.state # STATE_STARTTLS
      BY <2>4 DEF STATE_READY, STATE_STARTTLS
    <2> QED
      BY <1>1, <1>2, <1>4, <2>3, <2>4, <2>5, LoopChange DEF ctx
  <1>5. CASE Becomes(sent, cur) /\ UNCHANGED <<tcp, halted>>
    <2> HIDE DEF ctx
    <2>1. sent \in Ctx
      BY <1>2 DEF Good, Ctx
    <2>2. /\ sent.pcb = ctx.pcb /\ sent.full_jid = ctx.full_jid /\ sent.username = ctx.username
          /\ sent.state = ctx.state /\ sent.authenticated = ctx.authenticated
          /\ sent.tls_initialised = ctx.tls_initialised /\ sent.by = ctx.by
          /\ sent.tls_established = ctx.tls_established
      BY <1>2 DEF Good, Ctx
    <2> HIDE DEF sent
    <2>3. Good(sent)
      BY <1>2, <2>1, <2>2 DEF Good, CtxInv
    <2> QED
      BY <1>1, <1>2, <1>5, <2>2, <2>3, LoopChange DEF ctx
  <1> QED
    BY <1>3, <1>4, <1>5 DEF handle_core_session, RoutePresence, send_raw

(* Binding ends the other sessions of the user, so that its own is the     *)
(* only one with that address.                                             *)
LEMMA BindKeeps == IInv /\ handle_core_bind => IInv'
  <1> SUFFICES ASSUME IInv, handle_core_bind PROVE IInv'
    OBVIOUS
  <1> DEFINE ctx == client_registry[slot]
             bound == [ctx EXCEPT !.full_jid = ctx.username, !.state = STATE_SESSION]
             others == {i \in Slots : SameUser(i, ctx)}
  <1>1. cur # NoPcb /\ ctx.state = STATE_BIND
    BY DEF handle_core_bind, Parsing, InLoop
  <1>2. /\ slot \in Slots /\ Good(ctx) /\ tcp \in [Pcbs -> States] /\ halted \in BOOLEAN
        /\ \A p : Closed(tcp, p) \in [Pcbs -> States]
    BY <1>1, LoopSlot
  <1>3. CASE AssertFails
    BY <1>3, AssertKeeps
  <1>4. CASE ~AssertFails
    <2>1. /\ client_registry' = [i \in Slots |->
                IF i = slot THEN bound
                ELSE IF i \in others THEN ZeroCtx ELSE client_registry[i]]
          /\ tcp' = [c \in Pcbs |->
                IF \E i \in others : client_registry[i].pcb = c
                THEN Closed(tcp, c)[c] ELSE tcp[c]]
          /\ UNCHANGED <<client_idx, arg, cur, stale, halted>>
      BY <1>4 DEF handle_core_bind, send_raw
    <2>2. /\ client_registry'[slot] = bound
          /\ \A i \in Slots \ {slot} :
                \/ i \in others /\ client_registry'[i] = ZeroCtx
                \/ i \notin others /\ client_registry'[i] = client_registry[i]
      <3> HIDE DEF others, bound
      <3> QED
        BY <1>2, <2>1
    <2>3. bound \in Ctx
      <3> HIDE DEF ctx
      <3> QED
        BY <1>2, StateTypes DEF Good, Ctx
    <2>4. /\ bound.pcb = ctx.pcb /\ bound.full_jid = ctx.username
          /\ bound.username = ctx.username
          /\ bound.state = STATE_SESSION /\ bound.authenticated = ctx.authenticated
          /\ bound.tls_initialised = ctx.tls_initialised /\ bound.by = ctx.by
          /\ bound.tls_established = ctx.tls_established
      <3> HIDE DEF ctx
      <3> QED
        BY <1>2 DEF Good, Ctx
    <2>5. CtxInv(bound)
      <3> HIDE DEF ctx, bound
      <3> QED
        BY <1>1, <1>2, <2>4
        DEF Good, CtxInv, STATE_BIND, STATE_SESSION, STATE_STARTTLS, STATE_SASL,
            STATE_AUTHENTICATED
    <2>6. \A i \in Slots : client_registry[i] \in Ctx /\ CtxInv(client_registry[i])
      BY DEF IInv, TypeOK
    <2> HIDE DEF bound
    <2>7. client_registry' \in [Slots -> Ctx] /\ \A i \in Slots : CtxInv(client_registry'[i])
      <3>1. \A i \in Slots : client_registry'[i] \in Ctx /\ CtxInv(client_registry'[i])
        BY <2>2, <2>3, <2>5, <2>6, ZeroGood DEF Good
      <3>2. client_registry' = [i \in Slots |-> client_registry'[i]]
        BY <2>1
      <3> QED
        BY <3>1, <3>2
    <2>8. tcp' \in [Pcbs -> States]
      BY <1>2, <2>1
    <2>9. TypeOK'
      BY <2>1, <2>7, <2>8 DEF IInv, TypeOK, States
    <2>10. LoopInv'
      <3>1. slot' = slot /\ cur' = cur
        BY <2>1 DEF slot
      <3>2. bound.state # STATE_STARTTLS
        BY <2>4 DEF STATE_SESSION, STATE_STARTTLS
      <3> QED
        BY <2>2, <2>4, <3>1, <3>2 DEF LoopInv, IInv
    <2>11. OneBindingPerUser'
      <3> SUFFICES ASSUME NEW j \in Slots, NEW k \in Slots,
                          client_registry'[j].pcb # NoPcb, client_registry'[k].pcb # NoPcb,
                          client_registry'[j].full_jid # NoUser,
                          client_registry'[j].full_jid = client_registry'[k].full_jid
                   PROVE  j = k
        BY DEF OneBindingPerUser, Live
      <3>1. \A i \in {j, k} \ {slot} :
               /\ client_registry'[i] = client_registry[i]
               /\ i \notin others
        BY <2>2 DEF ZeroCtx
      <3>2. \A i \in {j, k} \ {slot} : client_registry[i].full_jid # ctx.username
        <4> SUFFICES ASSUME NEW i \in {j, k} \ {slot}
                     PROVE  client_registry[i].full_jid # ctx.username
          OBVIOUS
        <4>1. client_registry[i].pcb # NoPcb /\ client_registry[i].full_jid # NoUser
          BY <3>1
        <4>2. client_registry[i].username = client_registry[i].full_jid
          BY <2>6, <4>1 DEF CtxInv
        <4> QED
          BY <3>1, <4>1, <4>2 DEF SameUser
      <3>3. CASE j # slot /\ k # slot
        BY <3>1, <3>3 DEF IInv, OneBindingPerUser, Live
      <3>4. CASE j = slot \/ k = slot
        BY <2>2, <2>4, <3>1, <3>2, <3>4
      <3> QED
        BY <3>3, <3>4
    <2>12. SlotPcbAlive'
      <3>1. \A c \in Pcbs : tcp[c] \in Alive => tcp'[c] \in Alive
        <4> HIDE DEF others
        <4> QED
          BY <1>2, <2>1, ClosedType
      <3>2. \A i \in Slots : client_registry'[i].pcb \in {NoPcb, client_registry[i].pcb}
        <4>1. ZeroCtx.pcb = NoPcb
          BY DEF ZeroCtx
        <4> HIDE DEF others
        <4> QED
          BY <2>2, <2>4, <4>1
      <3> QED
        BY <2>1, <3>1, <3>2, AliveKept
    <2> QED
      BY <2>7, <2>9, <2>10, <2>11, <2>12 DEF IInv
  <1> QED
    BY <1>3, <1>4

(* One slot changes between two callbacks. *)
LEMMA IdleChange ==
    ASSUME IInv, NEW i \in Slots, NEW new, Good(new),
           client_registry' = [client_registry EXCEPT ![i] = new],
           \/ new.pcb = NoPcb
           \/ new.full_jid = NoUser
           \/ new.full_jid = client_registry[i].full_jid /\ client_registry[i].pcb # NoPcb,
           tcp' \in [Pcbs -> States], client_idx' \in Slots, arg' \in [Pcbs -> Slots],
           cur' = NoPcb, halted' \in BOOLEAN, stale' \in BOOLEAN, SlotPcbAlive'
    PROVE  IInv'
  <1>1. /\ client_registry' \in [Slots -> Ctx]
        /\ \A j \in Slots : CtxInv(client_registry'[j])
        /\ OneBindingPerUser'
    BY SlotChange
  <1>2. TypeOK'
    BY <1>1 DEF TypeOK, States
  <1>3. LoopInv'
    BY DEF LoopInv
  <1> QED
    BY <1>1, <1>2, <1>3 DEF IInv

(* The slot that a callback of c gets. *)
LEMMA ArgSlot ==
    ASSUME IInv, NEW c \in Pcbs
    PROVE  /\ arg[c] \in Slots /\ Good(client_registry[arg[c]])
           /\ client_registry \in [Slots -> Ctx]
           /\ tcp \in [Pcbs -> States] /\ halted \in BOOLEAN /\ stale \in BOOLEAN
           /\ arg \in [Pcbs -> Slots] /\ client_idx \in Slots
           /\ \A p : Closed(tcp, p) \in [Pcbs -> States]
           /\ Stale(c) \in BOOLEAN
  <1>1. /\ arg[c] \in Slots /\ arg \in [Pcbs -> Slots] /\ client_idx \in Slots
        /\ client_registry \in [Slots -> Ctx]
        /\ tcp \in [Pcbs -> States] /\ halted \in BOOLEAN /\ stale \in BOOLEAN
    BY DEF IInv, TypeOK, States
  <1>2. Good(client_registry[arg[c]])
    BY <1>1 DEF IInv, TypeOK, Good
  <1>3. Stale(c) \in BOOLEAN
    BY DEF Stale
  <1> QED
    BY <1>1, <1>2, <1>3, ClosedType

LEMMA AcceptKeeps ==
    ASSUME IInv, NEW c \in Pcbs, xmpp_accept_callback(c)
    PROVE  IInv'
  <1> DEFINE i == client_idx
             new == NewCtx(client_registry[i], c)
             t == Closed(tcp, client_registry[i].pcb)
  <1>1. /\ i \in Slots /\ arg \in [Pcbs -> Slots] /\ halted \in BOOLEAN /\ stale \in BOOLEAN
        /\ t \in [Pcbs -> States] /\ client_registry \in [Slots -> Ctx]
    BY ArgSlot
  <1>2. Good(new) /\ new.full_jid = NoUser
    BY NewGood
  <1>3. client_registry' = [client_registry EXCEPT ![i] = new]
    BY DEF xmpp_accept_callback
  <1>4. tcp' \in [Pcbs -> States]
    <2>1. tcp' = [t EXCEPT ![c] = "open"]
      BY DEF xmpp_accept_callback
    <2> HIDE DEF t
    <2> QED
      BY <1>1, <2>1 DEF States
  <1>5. arg' \in [Pcbs -> Slots]
    BY <1>1 DEF xmpp_accept_callback
  <1>6. client_idx' \in Slots
    <2>1. client_idx' = (i + 1) % MAX_USERS
      BY DEF xmpp_accept_callback, NextIdx
    <2> QED
      BY <1>1, <2>1, SessionAssumption DEF Slots
  <1>7. cur' = NoPcb /\ halted' = halted /\ stale' = stale
    BY DEF xmpp_accept_callback, Ready
  <1>8. SlotPcbAlive'
    <2> SUFFICES ASSUME NEW j \in Slots, client_registry'[j].pcb # NoPcb
                 PROVE  /\ tcp'[client_registry'[j].pcb] \in {"open", "closed"}
                        /\ arg'[client_registry'[j].pcb] = j
      BY DEF SlotPcbAlive, Live
    <2>1. tcp' = [t EXCEPT ![c] = "open"] /\ arg' = [arg EXCEPT ![c] = i] /\ tcp[c] = "new"
      BY DEF xmpp_accept_callback
    <2>2. tcp \in [Pcbs -> States] /\ \A d \in Pcbs : tcp[d] \in Alive => t[d] \in Alive
      BY ArgSlot, ClosedType
    <2> HIDE DEF t
    <2>3. CASE j = i
      <3>1. client_registry'[j].pcb = c
        BY <1>1, <1>3, <2>3, ZeroGood DEF NewCtx, ZeroCtx
      <3> QED
        BY <1>1, <2>1, <2>3, <3>1
    <2>4. CASE j # i
      <3> DEFINE p == client_registry[j].pcb
      <3>1. client_registry'[j].pcb = p /\ p # NoPcb
        BY <1>1, <1>3, <2>4
      <3>2. tcp[p] \in Alive /\ arg[p] = j /\ p \in Pcbs
        BY <3>1 DEF IInv, SlotPcbAlive, Live, Alive, TypeOK, Ctx
      <3> HIDE DEF p
      <3>3. p # c
        BY <2>1, <3>2 DEF Alive
      <3> QED
        BY <1>1, <2>1, <2>2, <3>1, <3>2, <3>3 DEF Alive
    <2> QED
      BY <2>3, <2>4
  <1> HIDE DEF new
  <1> QED
    BY <1>1, <1>2, <1>3, <1>4, <1>5, <1>6, <1>7, <1>8, IdleChange

(* The slot of c loses its pcb: no slot refers to c any more. *)
LEMMA AliveLost ==
    ASSUME IInv, NEW c \in Pcbs, NEW new, new.pcb = NoPcb,
           client_registry' = [client_registry EXCEPT ![arg[c]] = new], arg' = arg,
           \A d \in Pcbs \ {c} : tcp[d] \in Alive => tcp'[d] \in Alive
    PROVE  SlotPcbAlive'
  <1> SUFFICES ASSUME NEW j \in Slots, client_registry'[j].pcb # NoPcb
               PROVE  /\ tcp'[client_registry'[j].pcb] \in {"open", "closed"}
                      /\ arg'[client_registry'[j].pcb] = j
    BY DEF SlotPcbAlive, Live
  <1>1. client_registry \in [Slots -> Ctx] /\ arg[c] \in Slots
    BY DEF IInv, TypeOK
  <1> DEFINE p == client_registry[j].pcb
  <1>2. j # arg[c] /\ client_registry'[j].pcb = p /\ p # NoPcb
    BY <1>1
  <1>3. tcp[p] \in Alive /\ arg[p] = j /\ p \in Pcbs
    BY <1>2 DEF IInv, SlotPcbAlive, Live, Alive, TypeOK, Ctx
  <1> HIDE DEF p
  <1> QED
    BY <1>2, <1>3 DEF Alive

LEMMA FinKeeps ==
    ASSUME IInv, NEW c \in Pcbs, RecvFin(c)
    PROVE  IInv'
  <1> DEFINE i == arg[c]
             ctx == client_registry[i]
             p == IF ctx.pcb = NoPcb THEN c ELSE ctx.pcb
             t == [tcp EXCEPT ![c] = IF @ = "open" THEN "half" ELSE "both"]
             new == [xmpp_tls_client_free(ctx) EXCEPT !.pcb = NoPcb, !.state = STATE_CONNECTED]
  <1>1. /\ client_registry' = [client_registry EXCEPT ![i] = new]
        /\ tcp' = Closed(t, p)
        /\ stale' = (stale \/ Stale(c))
        /\ UNCHANGED <<client_idx, arg, cur, halted>> /\ cur = NoPcb
    BY DEF RecvFin, Ready
  <1>2. /\ i \in Slots /\ arg \in [Pcbs -> Slots] /\ halted \in BOOLEAN /\ stale \in BOOLEAN
        /\ Stale(c) \in BOOLEAN /\ tcp \in [Pcbs -> States] /\ client_idx \in Slots
        /\ Good(ctx)
    BY ArgSlot
  <1>3. t \in [Pcbs -> States]
    BY <1>2 DEF States
  <1> HIDE DEF ctx, t, i, p
  <1>4. Good(new)
    BY <1>2, EndGood
  <1>5. new.pcb = NoPcb
    BY <1>2 DEF Good, Ctx, xmpp_tls_client_free
  <1> HIDE DEF new
  <1>6. tcp' \in [Pcbs -> States]
    BY <1>1, <1>3, ClosedType
  <1>7. \A d \in Pcbs \ {c} : tcp[d] \in Alive => tcp'[d] \in Alive
    <2>1. \A d \in Pcbs \ {c} : t[d] = tcp[d]
      BY <1>2 DEF t
    <2> QED
      BY <1>1, <1>3, <2>1, ClosedType
  <1>8. SlotPcbAlive'
    BY <1>1, <1>5, <1>7, AliveLost DEF i
  <1> QED
    BY <1>1, <1>2, <1>4, <1>5, <1>6, <1>8, IdleChange

LEMMA ErrKeeps ==
    ASSUME IInv, NEW c \in Pcbs, xmpp_err_callback(c)
    PROVE  IInv'
  <1>1. /\ client_registry' = [client_registry EXCEPT ![arg[c]] = ZeroCtx]
        /\ tcp' = [tcp EXCEPT ![c] = "gone"]
        /\ stale' = (stale \/ Stale(c))
        /\ UNCHANGED <<client_idx, arg, cur, halted>> /\ cur = NoPcb
    BY DEF xmpp_err_callback, Ready
  <1>2. tcp' \in [Pcbs -> States]
    BY <1>1, ArgSlot DEF States
  <1>3. ZeroCtx.pcb = NoPcb
    BY DEF ZeroCtx
  <1>4. \A d \in Pcbs \ {c} : tcp'[d] = tcp[d]
    BY <1>1, ArgSlot
  <1>5. SlotPcbAlive'
    BY <1>1, <1>3, <1>4, AliveLost
  <1> QED
    BY <1>1, <1>2, <1>3, <1>5, ZeroGood, ArgSlot, IdleChange

LEMMA DoneKeeps ==
    ASSUME IInv, NEW c \in Pcbs, TcpDone(c)
    PROVE  IInv'
  <1>1. /\ tcp[c] = "both" /\ tcp' = [tcp EXCEPT ![c] = "gone"]
        /\ UNCHANGED <<client_registry, client_idx, arg, cur, halted, stale>>
    BY DEF TcpDone
  <1>2. tcp \in [Pcbs -> States]
    BY DEF IInv, TypeOK, States
  <1>3. TypeOK' /\ LoopInv' /\ OneBindingPerUser' /\ \A i \in Slots : CtxInv(client_registry'[i])
    BY <1>1, <1>2 DEF IInv, TypeOK, LoopInv, slot, OneBindingPerUser, Live, States
  <1>4. SlotPcbAlive'
    BY <1>1, <1>2, AliveKept DEF Alive
  <1> QED
    BY <1>3, <1>4 DEF IInv

(* A step of the handshake, for a segment or from the main loop. *)
LEMMA HandshakeStepKeeps ==
    ASSUME IInv, NEW i \in Slots, NEW out \in HandshakeOutcomes \cup {"overflow"},
           client_registry[i].state = STATE_STARTTLS, xmpp_tls_handshake_step(i, out),
           cur = NoPcb, UNCHANGED <<client_idx, arg, cur, halted>>, stale' \in BOOLEAN
    PROVE  IInv'
  <1> DEFINE ctx == client_registry[i]
             new == HandshakeCtx(ctx, out)
  <1>1. /\ Good(ctx) /\ ctx.pcb # NoPcb
        /\ tcp \in [Pcbs -> States] /\ client_idx \in Slots /\ arg \in [Pcbs -> Slots]
        /\ halted \in BOOLEAN /\ client_registry \in [Slots -> Ctx]
    BY DEF IInv, TypeOK, Good, CtxInv, States
  <1>2. /\ client_registry' = [client_registry EXCEPT ![i] = new]
        /\ tcp' \in {tcp, Closed(tcp, ctx.pcb)}
    BY <1>1 DEF xmpp_tls_handshake_step
  <1>3. tcp' \in [Pcbs -> States]
    BY <1>1, <1>2, ClosedType
  <1>4. Good(new) /\ new.full_jid = ctx.full_jid
    BY <1>1, HandshakeGood
  <1>5. new.pcb \in {NoPcb, ctx.pcb}
    BY <1>1 DEF Good, Ctx, HandshakeCtx, HandshakeOutcomes
  <1> HIDE DEF new
  <1>6. SlotPcbAlive'
    <2>1. \A c \in Pcbs : tcp[c] \in Alive => tcp'[c] \in Alive
      BY <1>1, <1>2, ClosedType
    <2>2. \A j \in Slots : client_registry'[j].pcb \in {NoPcb, client_registry[j].pcb}
      BY <1>1, <1>2, <1>5
    <2> QED
      BY <2>1, <2>2, AliveKept
  <1> QED
    BY <1>1, <1>2, <1>3, <1>4, <1>6, IdleChange

LEMMA HandshakeKeeps ==
    IInv /\ ((\E c \in Pcbs : RecvHandshake(c)) \/ (\E i \in Slots : RetryHandshake(i))) => IInv'
  <1>1. ASSUME IInv, NEW c \in Pcbs, RecvHandshake(c) PROVE IInv'
    <2>1. PICK out \in HandshakeOutcomes \cup {"overflow"} : xmpp_tls_handshake_step(arg[c], out)
      BY <1>1 DEF RecvHandshake
    <2>2. /\ client_registry[arg[c]].state = STATE_STARTTLS /\ cur = NoPcb
          /\ UNCHANGED <<client_idx, arg, cur, halted>> /\ stale' = (stale \/ Stale(c))
      BY <1>1 DEF RecvHandshake, Ready
    <2>3. arg[c] \in Slots /\ stale' \in BOOLEAN
      BY <1>1, <2>2, ArgSlot
    <2> QED
      BY <1>1, <2>1, <2>2, <2>3, HandshakeStepKeeps
  <1>2. ASSUME IInv, NEW i \in Slots, RetryHandshake(i) PROVE IInv'
    <2>1. PICK out \in HandshakeOutcomes : xmpp_tls_handshake_step(i, out)
      BY <1>2 DEF RetryHandshake
    <2>2. /\ client_registry[i].state = STATE_STARTTLS /\ cur = NoPcb
          /\ UNCHANGED <<client_idx, arg, cur, halted, stale>>
      BY <1>2 DEF RetryHandshake, Ready
    <2>3. stale' \in BOOLEAN
      BY <1>2, <2>2 DEF IInv, TypeOK
    <2> QED
      BY <1>2, <2>1, <2>2, <2>3, HandshakeStepKeeps
  <1> QED
    BY <1>1, <1>2

(* Decryption: what is left of the TLS session belongs to c. *)
LEMMA RecvTlsKeeps ==
    ASSUME IInv, NEW c \in Pcbs, RecvTls(c)
    PROVE  IInv'
  <1> DEFINE i == arg[c]
             ctx == client_registry[i]
  <1>1. PICK end \in {"ok", "error", "overflow"} :
           /\ end = "ok" => ctx.pcb = c
           /\ client_registry' = [client_registry EXCEPT ![i] = DecryptCtx(@, end)]
           /\ tcp' = IF end = "ok" THEN tcp ELSE Closed(tcp, ctx.pcb)
    BY DEF RecvTls
  <1> DEFINE new == DecryptCtx(ctx, end)
  <1>2. /\ i \in Slots /\ arg \in [Pcbs -> Slots] /\ halted \in BOOLEAN /\ stale \in BOOLEAN
        /\ Stale(c) \in BOOLEAN /\ tcp \in [Pcbs -> States] /\ client_idx \in Slots
        /\ Good(ctx) /\ client_registry \in [Slots -> Ctx]
        /\ Closed(tcp, ctx.pcb) \in [Pcbs -> States]
    BY ArgSlot
  <1>3. /\ ctx.state # STATE_STARTTLS /\ stale' = (stale \/ Stale(c))
        /\ cur' = IF ctx.pcb = c THEN c ELSE NoPcb
        /\ UNCHANGED <<client_idx, arg, halted>>
    BY DEF RecvTls
  <1>4. client_registry' = [client_registry EXCEPT ![i] = new]
    BY <1>1, <1>2
  <1>5. tcp' \in [Pcbs -> States]
    BY <1>1, <1>2
  <1> HIDE DEF ctx, i
  <1>6. Good(new) /\ new.full_jid = ctx.full_jid
    BY <1>2, <1>3, DecryptGood
  <1>7. /\ new.state = ctx.state
        /\ new.pcb \in {NoPcb, ctx.pcb}
    BY <1>2 DEF Good, Ctx, DecryptCtx
  <1> HIDE DEF new
  <1>8. new.pcb = NoPcb \/ (new.full_jid = client_registry[i].full_jid /\ client_registry[i].pcb # NoPcb)
    BY <1>6, <1>7 DEF ctx
  <1>9. /\ client_registry' \in [Slots -> Ctx]
        /\ \A j \in Slots : CtxInv(client_registry'[j])
        /\ OneBindingPerUser'
    BY <1>2, <1>4, <1>6, <1>8, SlotChange
  <1>10. TypeOK'
    BY <1>2, <1>3, <1>5, <1>9 DEF TypeOK, States
  <1>11. LoopInv'
    <2>1. CASE ctx.pcb = c
      <3>1. cur' = c /\ slot' = i /\ client_registry'[i] = new
        BY <1>2, <1>3, <1>4, <2>1 DEF slot, i
      <3> QED
        BY <1>3, <1>7, <2>1, <3>1 DEF LoopInv
    <2>2. CASE ctx.pcb # c
      BY <1>3, <2>2 DEF LoopInv
    <2> QED
      BY <2>1, <2>2
  <1>12. SlotPcbAlive'
    <2>1. \A d \in Pcbs : tcp[d] \in Alive => tcp'[d] \in Alive
      BY <1>1, <1>2, ClosedType
    <2>2. \A j \in Slots : client_registry'[j].pcb \in {NoPcb, client_registry[j].pcb}
      BY <1>2, <1>4, <1>7 DEF ctx
    <2> QED
      BY <1>3, <2>1, <2>2, AliveKept
  <1> QED
    BY <1>9, <1>10, <1>11, <1>12 DEF IInv

LEMMA RecvPlainKeeps ==
    ASSUME IInv, NEW c \in Pcbs, RecvPlain(c)
    PROVE  IInv'
  <1>1. /\ client_registry[arg[c]].state # STATE_STARTTLS
        /\ ~client_registry[arg[c]].tls_established
        /\ cur' = c /\ stale' = (stale \/ Stale(c))
        /\ UNCHANGED <<client_registry, client_idx, tcp, arg, halted>>
    BY DEF RecvPlain
  <1>2. stale' \in BOOLEAN
    BY <1>1, ArgSlot
  <1>3. TypeOK'
    BY <1>1, <1>2 DEF IInv, TypeOK
  <1>4. LoopInv'
    BY <1>1 DEF LoopInv, slot
  <1>5. OneBindingPerUser' /\ SlotPcbAlive' /\ \A i \in Slots : CtxInv(client_registry'[i])
    BY <1>1 DEF IInv, OneBindingPerUser, SlotPcbAlive, Live
  <1> QED
    BY <1>3, <1>4, <1>5 DEF IInv

LEMMA OverflowKeeps ==
    ASSUME IInv, NEW c \in Pcbs, RecvOverflow(c)
    PROVE  IInv'
  <1> DEFINE i == arg[c]
             ctx == client_registry[i]
             new == [ctx EXCEPT !.pcb = NoPcb, !.state = STATE_CONNECTED]
  <1>1. /\ i \in Slots /\ arg \in [Pcbs -> Slots] /\ halted \in BOOLEAN /\ stale \in BOOLEAN
        /\ Stale(c) \in BOOLEAN /\ tcp \in [Pcbs -> States] /\ client_idx \in Slots
        /\ Good(ctx) /\ client_registry \in [Slots -> Ctx]
        /\ Closed(tcp, c) \in [Pcbs -> States]
    BY ArgSlot
  <1>2. /\ client_registry' = [client_registry EXCEPT ![i].pcb = NoPcb,
                                                      ![i].state = STATE_CONNECTED]
        /\ tcp' = Closed(tcp, c)
        /\ stale' = (stale \/ Stale(c))
        /\ UNCHANGED <<client_idx, arg, cur, halted>> /\ cur = NoPcb
    BY DEF RecvOverflow, Ready
  <1>3. client_registry' = [client_registry EXCEPT ![i] = new]
    BY <1>1, <1>2
  <1> HIDE DEF ctx, i
  <1>4. Good(new)
    <2>1. /\ STATE_CONNECTED \in STATE_CONNECTED .. STATE_READY
          /\ STATE_CONNECTED # STATE_STARTTLS /\ ~(STATE_CONNECTED >= STATE_AUTHENTICATED)
      BY DEF STATE_CONNECTED, STATE_STARTTLS, STATE_AUTHENTICATED, STATE_READY
    <2> QED
      BY <1>1, <2>1, DropGood
  <1>5. new.pcb = NoPcb
    BY <1>1 DEF Good, Ctx
  <1> HIDE DEF new
  <1>6. \A d \in Pcbs : tcp[d] \in Alive => tcp'[d] \in Alive
    BY <1>1, <1>2, ClosedType
  <1>7. SlotPcbAlive'
    BY <1>2, <1>3, <1>5, <1>6, AliveLost DEF i
  <1> QED
    BY <1>1, <1>2, <1>3, <1>4, <1>5, <1>7, IdleChange

(* Every step of a connection or of the loop keeps the invariant. *)
LEMMA NextIInv == IInv /\ [Next]_vars => IInv'
  <1> SUFFICES ASSUME IInv, [Next]_vars PROVE IInv'
    OBVIOUS
  <1>1. ASSUME NEW c \in Pcbs, Connection(c) PROVE IInv'
    BY <1>1, AcceptKeeps, FinKeeps, ErrKeeps, DoneKeeps, HandshakeKeeps, RecvTlsKeeps,
       RecvPlainKeeps, OverflowKeeps DEF Connection
  <1>2. CASE \E i \in Slots : RetryHandshake(i)
    BY <1>2, HandshakeKeeps
  <1>3. CASE Element
    BY <1>3, QuietKeeps, StarttlsKeeps, StreamCloseKeeps, HeaderKeeps, RefusalKeeps,
       SaslFailureKeeps, SaslSuccessKeeps, BindKeeps, ReadyKeeps DEF Element
  <1>4. CASE UNCHANGED vars
    BY <1>4 DEF vars, IInv, TypeOK, LoopInv, slot, OneBindingPerUser, SlotPcbAlive, Live, CtxInv
  <1> QED
    BY <1>1, <1>2, <1>3, <1>4 DEF Next

(* The inductive invariant of the session, from which the rest follows.    *)
THEOREM Invariance == Spec => []IInv
  BY InitIInv, NextIInv, PTL DEF Spec

(* The slots, the callback arguments and the index of the next slot keep   *)
(* their types through every callback of xmpp_server.c.                    *)
THEOREM TypeCorrect == Spec => []TypeOK
  <1>1. IInv => TypeOK
    BY DEF IInv
  <1> QED
    BY Invariance, <1>1, PTL

(* mbedtls is never handed a context that xmpp_tls_client_free has freed   *)
(* or that xmpp_tls_client_init has not set up.                            *)
THEOREM TlsContexts == Spec => []TlsContextValid
  <1>1. IInv => TlsContextValid
    BY DEF IInv, TlsContextValid, CtxInv
  <1> QED
    BY Invariance, <1>1, PTL

(* The state machine of the login cannot be entered past TLS or past SASL, *)
(* whatever elements come and whichever callbacks are late.                *)
THEOREM Gates == Spec => []StateGates
  <1>1. IInv => StateGates
    BY DEF IInv, StateGates, CtxInv, Live
  <1> QED
    BY Invariance, <1>1, PTL

(* The rights of a slot are those that the connection it serves has logged *)
(* in for (handle_sasl), however the slots are reused.                     *)
THEOREM Credentials == Spec => []CredentialsOwn
  <1>1. IInv => CredentialsOwn
    BY DEF IInv, CredentialsOwn, CtxInv, Live
  <1> QED
    BY Invariance, <1>1, PTL

(* handle_core_bind leaves at most one connection bound for each user.     *)
THEOREM OneBinding == Spec => []OneBindingPerUser
  <1>1. IInv => OneBindingPerUser
    BY DEF IInv
  <1> QED
    BY Invariance, <1>1, PTL

(* No slot refers to a pcb that lwIP has freed, in whatever order resets,  *)
(* closes and evictions come.                                              *)
THEOREM PcbsAlive == Spec => []SlotPcbAlive
  <1>1. IInv => SlotPcbAlive
    BY DEF IInv
  <1> QED
    BY Invariance, <1>1, PTL
----------------------------------------------------------------------------
(* Connections that are open, and TLS contexts without one.                *)

(* One slot changes: it keeps its pcb or its pcb is closed, and a context  *)
(* is set up only for a slot with a pcb.                                   *)
SlotStep(i) ==
    /\ arg' = arg
    /\ stale => stale'
    /\ \A j \in Slots \ {i} : client_registry'[j] = client_registry[j]
    /\ \/ tcp' = tcp /\ client_registry'[i].pcb = client_registry[i].pcb
       \/ tcp' = Closed(tcp, client_registry[i].pcb)
    /\ client_registry'[i].tls_initialised /\ client_registry'[i].pcb = NoPcb =>
           client_registry[i].tls_initialised \/ client_registry[i].pcb # NoPcb

Held == OpenIsHeld /\ OrphanContextReachable

(* The effect of tcp_close on one pcb. *)
LEMMA ClosedIs ==
    ASSUME NEW t \in [Pcbs -> States], NEW p
    PROVE  \A c \in Pcbs :
              /\ Closed(t, p)[c] = "open" => t[c] = "open" /\ c # p
              /\ Closed(t, p)[c] = "half" => t[c] = "half" /\ c # p
  BY DEF Closed, States

(* A slot without a pcb has an open or closed connection to free its       *)
(* context: the one that had the slot, or the one that was there before.   *)
LEMMA SlotStepHeld ==
    ASSUME IInv, Held, NEW i \in Slots, SlotStep(i)
    PROVE  Held'
  <1> DEFINE p == client_registry[i].pcb
  <1>1. /\ tcp \in [Pcbs -> States] /\ arg \in [Pcbs -> Slots]
        /\ p \in Pcbs \cup {NoPcb}
    BY DEF IInv, TypeOK, States, Ctx
  <1>2. p # NoPcb => p \in Pcbs /\ tcp[p] \in Alive /\ arg[p] = i
    BY <1>1 DEF IInv, SlotPcbAlive, Live, Alive
  <1>3. \A c \in Pcbs : tcp[c] \in Alive => tcp'[c] \in Alive
    BY <1>1, ClosedType DEF SlotStep
  <1>4. OpenIsHeld'
    <2> SUFFICES ASSUME ~stale', NEW c \in Pcbs
                 PROVE  /\ tcp'[c] = "open" => client_registry'[arg'[c]].pcb = c
                        /\ tcp'[c] # "half"
      BY DEF OpenIsHeld
    <2>1. /\ tcp[c] = "open" => client_registry[arg[c]].pcb = c
          /\ tcp[c] # "half" /\ arg' = arg /\ arg[c] \in Slots
      BY <1>1 DEF Held, OpenIsHeld, SlotStep
    <2>2. CASE tcp' = tcp /\ client_registry'[i].pcb = p
      BY <2>1, <2>2 DEF SlotStep
    <2>3. CASE tcp' = Closed(tcp, p)
      <3>1. /\ tcp'[c] = "open" => tcp[c] = "open" /\ c # p
            /\ tcp'[c] = "half" => tcp[c] = "half"
        BY <1>1, <2>3, ClosedIs
      <3>2. tcp'[c] = "open" => arg[c] # i
        BY <2>1, <3>1
      <3> QED
        BY <2>1, <3>1, <3>2 DEF SlotStep
    <2> QED
      BY <2>2, <2>3 DEF SlotStep
  <1>5. OrphanContextReachable'
    <2> SUFFICES ASSUME NEW j \in Slots, client_registry'[j].tls_initialised,
                        client_registry'[j].pcb = NoPcb
                 PROVE  \E c \in Pcbs : arg'[c] = j /\ tcp'[c] \in {"open", "closed"}
      BY DEF OrphanContextReachable, Live
    <2>1. CASE client_registry[j].pcb = NoPcb
      <3>1. client_registry[j].tls_initialised
        BY <2>1 DEF SlotStep
      <3>2. PICK c \in Pcbs : arg[c] = j /\ tcp[c] \in Alive
        BY <2>1, <3>1 DEF Held, OrphanContextReachable, Live, Alive
      <3> QED
        BY <1>3, <3>2 DEF SlotStep, Alive
    <2>2. CASE client_registry[j].pcb # NoPcb
      <3>1. j = i
        BY <2>2 DEF SlotStep
      <3> QED
        BY <1>2, <1>3, <2>2, <3>1 DEF SlotStep, Alive
    <2> QED
      BY <2>1, <2>2
  <1> QED
    BY <1>4, <1>5 DEF Held

(* A handler of the loop changes its slot only. *)
LEMMA BecomesHeld ==
    ASSUME IInv, Held, cur # NoPcb, NEW new, NEW next, Becomes(new, next),
           \/ tcp' = tcp /\ new.pcb = client_registry[slot].pcb
           \/ tcp' = Closed(tcp, client_registry[slot].pcb),
           new.tls_initialised =>
               client_registry[slot].tls_initialised \/ client_registry[slot].pcb # NoPcb
    PROVE  Held'
  <1>1. slot \in Slots /\ client_registry \in [Slots -> Ctx]
    BY LoopSlot DEF IInv, TypeOK
  <1>2. client_registry' = [client_registry EXCEPT ![slot] = new] /\ arg' = arg /\ stale' = stale
    BY DEF Becomes
  <1>3. SlotStep(slot)
    BY <1>1, <1>2 DEF SlotStep
  <1> QED
    BY <1>1, <1>3, SlotStepHeld

(* Nothing these two speak of changes. *)
LEMMA QuietHeld ==
    ASSUME Held, UNCHANGED <<client_registry, tcp, arg>>, stale => stale'
    PROVE  Held'
  BY DEF Held, OpenIsHeld, OrphanContextReachable, Live

(* The elements of a stream: most change the slot only, or close its pcb. *)
LEMMA StreamElementsHeld ==
    ASSUME IInv, Held,
           \/ Starttls \/ StreamClose \/ StreamHeader \/ StreamWrongHost
           \/ StreamBadHeader \/ StreamStuck \/ StreamUnstuck \/ RouteStream
    PROVE  Held'
  <1> DEFINE ctx == client_registry[slot]
  <1>1. cur # NoPcb
    BY DEF Starttls, StreamClose, StreamHeader, StreamWrongHost, StreamBadHeader,
           StreamStuck, StreamUnstuck, RouteStream, Parsing, InLoop
  <1>2. ctx \in Ctx
    BY <1>1, LoopSlot DEF Good
  <1>3. CASE AssertFails
    BY <1>3, QuietHeld DEF AssertFails
  <1>4. ASSUME NEW next, NEW new,
               Becomes(new, next),
               \/ tcp' = tcp /\ new.pcb = ctx.pcb
               \/ tcp' = Closed(tcp, ctx.pcb),
               new.tls_initialised => ctx.tls_initialised \/ ctx.pcb # NoPcb
        PROVE  Held'
    BY <1>1, <1>4, BecomesHeld
  <1>5. CASE Starttls /\ ~AssertFails
    <2> DEFINE ready == [ctx EXCEPT !.state = STATE_STARTTLS, !.tls_initialised = TRUE,
                                    !.tls_established = FALSE, !.tls_want_write = FALSE]
               refused == [ctx EXCEPT !.tls_want_write = FALSE, !.pcb = NoPcb]
    <2>1. /\ ctx.pcb # NoPcb
          /\ \/ Becomes(ready, NoPcb) /\ tcp' = tcp
             \/ Becomes(refused, NoPcb) /\ tcp' = Closed(tcp, ctx.pcb)
      BY <1>5 DEF Starttls, Output, Closes
    <2> HIDE DEF ctx
    <2>2. ready.pcb = ctx.pcb
      BY <1>2 DEF Ctx
    <2> HIDE DEF ready, refused
    <2> QED
      BY <1>4, <2>1, <2>2
  <1>6. CASE StreamClose /\ ~AssertFails
    <2> DEFINE closed == [xmpp_tls_client_free(ctx) EXCEPT !.pcb = NoPcb, !.state = STATE_CONNECTED]
    <2>1. Becomes(closed, NoPcb) /\ tcp' = Closed(tcp, ctx.pcb)
      BY <1>6 DEF StreamClose, send_raw, Closes
    <2> HIDE DEF ctx
    <2>2. closed.tls_initialised => ctx.tls_initialised
      BY <1>2 DEF Ctx, xmpp_tls_client_free
    <2> HIDE DEF closed
    <2> QED
      BY <1>4, <2>1, <2>2
  <1>7. CASE (StreamHeader \/ RouteStream) /\ ~AssertFails
    <2> DEFINE new == [ctx EXCEPT !.state = FeaturesState(ctx), !.stuck = FALSE]
    <2>1. (Becomes(new, NoPcb) \/ Becomes(new, cur)) /\ tcp' = tcp
      BY <1>7 DEF StreamHeader, RouteStream, handle_handshake_logic, send_raw
    <2> HIDE DEF ctx
    <2>2. new.pcb = ctx.pcb /\ new.tls_initialised = ctx.tls_initialised
      BY <1>2 DEF Ctx
    <2> HIDE DEF new
    <2> QED
      BY <1>4, <2>1, <2>2
  <1>8. CASE StreamWrongHost /\ ~AssertFails
    <2> DEFINE new == [ctx EXCEPT !.pcb = NoPcb, !.stuck = FALSE]
    <2>1. Becomes(new, NoPcb) /\ tcp' = Closed(tcp, ctx.pcb)
      BY <1>8 DEF StreamWrongHost, Output, Closes
    <2> HIDE DEF ctx
    <2>2. new.tls_initialised = ctx.tls_initialised
      BY <1>2 DEF Ctx
    <2> HIDE DEF new
    <2> QED
      BY <1>4, <2>1, <2>2
  <1>9. CASE (StreamBadHeader \/ StreamStuck \/ StreamUnstuck) /\ ~AssertFails
    <2> DEFINE marked(b) == [ctx EXCEPT !.stuck = b]
    <2>1. PICK b \in BOOLEAN, next \in {NoPcb, cur} :
             Becomes(marked(b), next) /\ (tcp' = tcp \/ tcp' = Closed(tcp, ctx.pcb))
      BY <1>9 DEF StreamBadHeader, StreamStuck, StreamUnstuck, Output, Closes
    <2> DEFINE new == marked(b)
    <2> HIDE DEF ctx
    <2>2. new.pcb = ctx.pcb /\ new.tls_initialised = ctx.tls_initialised
      BY <1>2 DEF Ctx
    <2>3. Becomes(new, next)
      BY <2>1
    <2> HIDE DEF new
    <2> QED
      BY <1>4, <2>1, <2>2, <2>3
  <1> QED
    BY <1>3, <1>5, <1>6, <1>7, <1>8, <1>9

(* Login, up to the binding of a resource. *)
LEMMA LoginHeld ==
    ASSUME IInv, Held,
           \/ \E u \in Users : SaslFailure(u) \/ SaslSuccess(u)
           \/ handle_core_session \/ RoutePresence
    PROVE  Held'
  <1> DEFINE ctx == client_registry[slot]
  <1>1. cur # NoPcb
    BY DEF SaslFailure, SaslSuccess, handle_core_session, RoutePresence, Parsing, InLoop
  <1>2. ctx \in Ctx
    BY <1>1, LoopSlot DEF Good
  <1>3. CASE AssertFails
    BY <1>3, QuietHeld DEF AssertFails
  <1>4. ASSUME NEW new, Becomes(new, cur),
               \/ tcp' = tcp /\ new.pcb = ctx.pcb
               \/ tcp' = Closed(tcp, ctx.pcb),
               new.tls_initialised => ctx.tls_initialised
        PROVE  Held'
    BY <1>1, <1>4, BecomesHeld
  <1>5. ASSUME NEW u \in Users, SaslFailure(u) PROVE Held'
    <2> DEFINE new == AfterFailure(ctx, u)
    <2>1. Becomes(new, cur) /\ (IF new.pcb = NoPcb THEN tcp' = Closed(tcp, ctx.pcb) ELSE tcp' = tcp)
      BY <1>5 DEF SaslFailure, Closes
    <2> HIDE DEF ctx
    <2>2. new.pcb \in {NoPcb, ctx.pcb} /\ new.tls_initialised = ctx.tls_initialised
      BY <1>2 DEF AfterFailure, Ctx
    <2> HIDE DEF new
    <2> QED
      BY <1>4, <2>1, <2>2
  <1>6. ASSUME NEW u \in Users, SaslSuccess(u) PROVE Held'
    <2> DEFINE new == [ctx EXCEPT !.username = u, !.authenticated = TRUE,
                                  !.state = STATE_AUTHENTICATED, !.by = cur]
    <2>1. Becomes(new, cur) /\ tcp' = tcp
      BY <1>6 DEF SaslSuccess
    <2> HIDE DEF ctx
    <2>2. new.pcb = ctx.pcb /\ new.tls_initialised = ctx.tls_initialised
      BY <1>2 DEF Ctx
    <2> HIDE DEF new
    <2> QED
      BY <1>4, <2>1, <2>2
  <1>7. CASE (handle_core_session \/ RoutePresence) /\ ~AssertFails
    <2> DEFINE ready == [ctx EXCEPT !.state = STATE_READY]
               sent == [ctx EXCEPT !.initial_presence_sent = TRUE]
    <2>1. (Becomes(ready, cur) \/ Becomes(sent, cur)) /\ tcp' = tcp
      BY <1>7 DEF handle_core_session, RoutePresence, send_raw
    <2> HIDE DEF ctx
    <2>2. /\ ready.pcb = ctx.pcb /\ ready.tls_initialised = ctx.tls_initialised
          /\ sent.pcb = ctx.pcb /\ sent.tls_initialised = ctx.tls_initialised
      BY <1>2 DEF Ctx
    <2> HIDE DEF ready, sent
    <2> QED
      BY <1>4, <2>1, <2>2
  <1> QED
    BY <1>3, <1>5, <1>6, <1>7

(* Binding closes the connections whose slots it clears. *)
LEMMA BindHeld ==
    ASSUME IInv, Held, handle_core_bind
    PROVE  Held'
  <1> DEFINE ctx == client_registry[slot]
             bound == [ctx EXCEPT !.full_jid = ctx.username, !.state = STATE_SESSION]
             others == {i \in Slots : SameUser(i, ctx)}
  <1>1. slot \in Slots /\ ctx \in Ctx /\ tcp \in [Pcbs -> States] /\ arg \in [Pcbs -> Slots]
    BY LoopSlot DEF handle_core_bind, Parsing, InLoop, Good, IInv, TypeOK
  <1>2. CASE AssertFails
    BY <1>2, QuietHeld DEF AssertFails
  <1>3. CASE ~AssertFails
    <2>1. /\ client_registry' = [i \in Slots |->
                IF i = slot THEN bound
                ELSE IF i \in others THEN ZeroCtx ELSE client_registry[i]]
          /\ tcp' = [c \in Pcbs |->
                IF \E i \in others : client_registry[i].pcb = c
                THEN Closed(tcp, c)[c] ELSE tcp[c]]
          /\ UNCHANGED <<arg, stale>>
      BY <1>3 DEF handle_core_bind, send_raw
    <2>2. /\ client_registry'[slot] = bound
          /\ \A i \in Slots \ {slot} :
                \/ i \in others /\ client_registry'[i] = ZeroCtx
                \/ i \notin others /\ client_registry'[i] = client_registry[i]
      <3> HIDE DEF others, bound
      <3> QED
        BY <1>1, <2>1
    <2>3. /\ bound.pcb = ctx.pcb /\ bound.tls_initialised = ctx.tls_initialised
          /\ ~ZeroCtx.tls_initialised
      <3> HIDE DEF ctx
      <3> QED
        BY <1>1 DEF Ctx, ZeroCtx
    <2>4. \A c \in Pcbs :
             /\ tcp[c] \in Alive => tcp'[c] \in Alive
             /\ tcp'[c] = "half" => tcp[c] = "half"
             /\ tcp'[c] = "open" =>
                   tcp[c] = "open" /\ \A i \in others : client_registry[i].pcb # c
      <3> HIDE DEF others
      <3> QED
        BY <1>1, <2>1, ClosedType, ClosedIs
    <2>5. slot \notin others
      BY DEF SameUser
    <2> HIDE DEF others, bound
    <2>6. OpenIsHeld'
      <3> SUFFICES ASSUME ~stale', NEW c \in Pcbs
                   PROVE  /\ tcp'[c] = "open" => client_registry'[arg'[c]].pcb = c
                          /\ tcp'[c] # "half"
        BY DEF OpenIsHeld
      <3>1. /\ tcp[c] = "open" => client_registry[arg[c]].pcb = c
            /\ tcp[c] # "half" /\ arg'[c] = arg[c] /\ arg[c] \in Slots
        BY <1>1, <2>1 DEF Held, OpenIsHeld
      <3>2. tcp'[c] = "open" => client_registry'[arg[c]].pcb = client_registry[arg[c]].pcb
        BY <2>2, <2>3, <2>4, <3>1
      <3> QED
        BY <2>4, <3>1, <3>2
    <2>7. OrphanContextReachable'
      <3> SUFFICES ASSUME NEW j \in Slots, client_registry'[j].tls_initialised,
                          client_registry'[j].pcb = NoPcb
                   PROVE  \E c \in Pcbs : arg'[c] = j /\ tcp'[c] \in {"open", "closed"}
        BY DEF OrphanContextReachable, Live
      <3>1. client_registry[j].tls_initialised /\ client_registry[j].pcb = NoPcb
        BY <2>2, <2>3
      <3>2. PICK c \in Pcbs : arg[c] = j /\ tcp[c] \in Alive
        BY <3>1 DEF Held, OrphanContextReachable, Live, Alive
      <3> QED
        BY <2>1, <2>4, <3>2 DEF Alive
    <2> QED
      BY <2>6, <2>7 DEF Held
  <1> QED
    BY <1>2, <1>3

(* A new connection takes its slot from the one that is closed. *)
LEMMA AcceptHeld ==
    ASSUME IInv, Held, NEW c \in Pcbs, xmpp_accept_callback(c)
    PROVE  Held'
  <1> DEFINE i == client_idx
             p == client_registry[i].pcb
             t == Closed(tcp, p)
             new == NewCtx(client_registry[i], c)
  <1>1. /\ i \in Slots /\ client_registry \in [Slots -> Ctx] /\ tcp \in [Pcbs -> States]
        /\ arg \in [Pcbs -> Slots] /\ t \in [Pcbs -> States]
    BY ClosedType DEF IInv, TypeOK, States
  <1>2. /\ client_registry' = [client_registry EXCEPT ![i] = new]
        /\ tcp' = [t EXCEPT ![c] = "open"] /\ arg' = [arg EXCEPT ![c] = i]
        /\ stale' = stale /\ tcp[c] = "new"
    BY DEF xmpp_accept_callback
  <1>3. new.pcb = c
    BY DEF NewCtx, ZeroCtx
  <1>4. \A d \in Pcbs : /\ tcp[d] \in Alive => t[d] \in Alive
                        /\ t[d] = "open" => tcp[d] = "open" /\ d # p
                        /\ t[d] = "half" => tcp[d] = "half"
    BY <1>1, ClosedType, ClosedIs
  <1> HIDE DEF t, new
  <1>5. OpenIsHeld'
    <2> SUFFICES ASSUME ~stale', NEW d \in Pcbs
                 PROVE  /\ tcp'[d] = "open" => client_registry'[arg'[d]].pcb = d
                        /\ tcp'[d] # "half"
      BY DEF OpenIsHeld
    <2>1. CASE d = c
      BY <1>1, <1>2, <1>3, <2>1
    <2>2. CASE d # c
      <3>1. /\ tcp[d] = "open" => client_registry[arg[d]].pcb = d
            /\ tcp[d] # "half"
        BY <1>2 DEF Held, OpenIsHeld
      <3>2. tcp'[d] = t[d] /\ arg'[d] = arg[d] /\ arg[d] \in Slots
        BY <1>1, <1>2, <2>2
      <3>3. t[d] = "open" => arg[d] # i
        BY <1>4, <3>1
      <3> QED
        BY <1>1, <1>2, <1>4, <3>1, <3>2, <3>3
    <2> QED
      BY <2>1, <2>2
  <1>6. OrphanContextReachable'
    <2> SUFFICES ASSUME NEW j \in Slots, client_registry'[j].tls_initialised,
                        client_registry'[j].pcb = NoPcb
                 PROVE  \E d \in Pcbs : arg'[d] = j /\ tcp'[d] \in {"open", "closed"}
      BY DEF OrphanContextReachable, Live
    <2>1. c # NoPcb
      BY SessionAssumption
    <2>2. j # i /\ client_registry[j].tls_initialised /\ client_registry[j].pcb = NoPcb
      BY <1>1, <1>2, <1>3, <2>1
    <2>3. PICK d \in Pcbs : arg[d] = j /\ tcp[d] \in Alive
      BY <2>2 DEF Held, OrphanContextReachable, Live, Alive
    <2>4. d # c
      BY <1>2, <2>3 DEF Alive
    <2> QED
      BY <1>1, <1>2, <1>4, <2>3, <2>4 DEF Alive
  <1> QED
    BY <1>5, <1>6 DEF Held

(* The slot of c has neither pcb nor context any more, and c alone may     *)
(* have left its state.                                                    *)
LEMMA EndHeld ==
    ASSUME IInv, Held, NEW c \in Pcbs, NEW new, new.pcb = NoPcb, arg' = arg,
           client_registry' = [client_registry EXCEPT ![arg[c]] = new],
           stale' = (stale \/ Stale(c)),
           tcp' \in [Pcbs -> States],
           \A d \in Pcbs \ {c} :
              /\ tcp[d] \in Alive => tcp'[d] \in Alive
              /\ tcp'[d] \in {"open", "half"} => tcp[d] = tcp'[d],
           ~stale' => tcp'[c] \notin {"open", "half"},
           \/ ~new.tls_initialised
           \/ /\ tcp[c] \in Alive /\ tcp'[c] \in Alive
    PROVE  Held'
  <1> DEFINE i == arg[c]
  <1>1. /\ i \in Slots /\ client_registry \in [Slots -> Ctx] /\ tcp \in [Pcbs -> States]
        /\ arg \in [Pcbs -> Slots]
    BY DEF IInv, TypeOK, States
  <1>2. OpenIsHeld'
    <2> SUFFICES ASSUME ~stale', NEW d \in Pcbs \ {c}
                 PROVE  /\ tcp'[d] = "open" => client_registry'[arg'[d]].pcb = d
                        /\ tcp'[d] # "half"
      BY DEF OpenIsHeld
    <2>1. /\ tcp[d] = "open" => client_registry[arg[d]].pcb = d
          /\ tcp[d] # "half" /\ arg[d] \in Slots
      BY <1>1 DEF Held, OpenIsHeld
    <2>2. client_registry[i].pcb \in {NoPcb, c} /\ d # NoPcb
      BY SessionAssumption DEF Stale
    <2>3. tcp[d] = "open" => arg[d] # i
      BY <2>1, <2>2
    <2> QED
      BY <1>1, <2>1, <2>3
  <1>3. OrphanContextReachable'
    <2> SUFFICES ASSUME NEW j \in Slots, client_registry'[j].tls_initialised,
                        client_registry'[j].pcb = NoPcb
                 PROVE  \E d \in Pcbs : arg[d] = j /\ tcp'[d] \in Alive
      BY DEF OrphanContextReachable, Live, Alive
    <2>1. CASE j = i
      BY <1>1, <2>1
    <2>2. CASE j # i
      <3>1. PICK d \in Pcbs : arg[d] = j /\ tcp[d] \in Alive
        BY <1>1, <2>2 DEF Held, OrphanContextReachable, Live, Alive
      <3> QED
        BY <2>2, <3>1
    <2> QED
      BY <2>1, <2>2
  <1> QED
    BY <1>2, <1>3 DEF Held

(* The other end closes, or lwIP gives the connection up. *)
LEMMA FinErrHeld ==
    ASSUME IInv, Held, NEW c \in Pcbs, RecvFin(c) \/ xmpp_err_callback(c)
    PROVE  Held'
  <1> DEFINE i == arg[c]
             ctx == client_registry[i]
  <1>1. i \in Slots /\ ctx \in Ctx /\ tcp \in [Pcbs -> States]
    BY DEF IInv, TypeOK, States
  <1>2. CASE RecvFin(c)
    <2> DEFINE p == IF ctx.pcb = NoPcb THEN c ELSE ctx.pcb
               t == [tcp EXCEPT ![c] = IF @ = "open" THEN "half" ELSE "both"]
               new == [xmpp_tls_client_free(ctx) EXCEPT !.pcb = NoPcb, !.state = STATE_CONNECTED]
    <2>1. /\ client_registry' = [client_registry EXCEPT ![i] = new]
          /\ tcp' = Closed(t, p) /\ stale' = (stale \/ Stale(c)) /\ arg' = arg
      BY <1>2 DEF RecvFin
    <2>2. t \in [Pcbs -> States] /\ t[c] \in {"half", "both"}
      BY <1>1 DEF States
    <2>3. \A d \in Pcbs \ {c} : t[d] = tcp[d]
      BY <1>1
    <2>4. ~stale' => p = c
      BY <2>1 DEF Stale
    <2> HIDE DEF t, p, ctx
    <2>5. new.pcb = NoPcb /\ ~new.tls_initialised
      BY <1>1 DEF Ctx, xmpp_tls_client_free
    <2>6. tcp' \in [Pcbs -> States]
      BY <2>1, <2>2, ClosedType
    <2>7. ~stale' => tcp'[c] \notin {"open", "half"}
      BY <2>1, <2>2, <2>4, ClosedIs
    <2>8. \A d \in Pcbs \ {c} :
              /\ tcp[d] \in Alive => tcp'[d] \in Alive
              /\ tcp'[d] \in {"open", "half"} => tcp[d] = tcp'[d]
      BY <2>1, <2>2, <2>3, ClosedType, ClosedIs
    <2> HIDE DEF new, i
    <2> QED
      BY <2>1, <2>5, <2>6, <2>7, <2>8, EndHeld DEF i
  <1>3. CASE xmpp_err_callback(c)
    <2>1. /\ client_registry' = [client_registry EXCEPT ![i] = ZeroCtx]
          /\ tcp' = [tcp EXCEPT ![c] = "gone"] /\ stale' = (stale \/ Stale(c)) /\ arg' = arg
      BY <1>3 DEF xmpp_err_callback
    <2>2. ZeroCtx.pcb = NoPcb /\ ~ZeroCtx.tls_initialised
      BY DEF ZeroCtx
    <2>3. tcp' \in [Pcbs -> States] /\ tcp'[c] = "gone"
          /\ \A d \in Pcbs \ {c} : tcp'[d] = tcp[d]
      BY <1>1, <2>1 DEF States
    <2> QED
      BY <2>1, <2>2, <2>3, EndHeld
  <1> QED
    BY <1>2, <1>3

(* A segment arrives. *)
LEMMA SegmentHeld ==
    ASSUME IInv, Held, NEW c \in Pcbs,
           RecvHandshake(c) \/ RecvTls(c) \/ RecvPlain(c) \/ RecvOverflow(c) \/ TcpDone(c)
    PROVE  Held'
  <1> DEFINE i == arg[c]
             ctx == client_registry[i]
  <1>1. i \in Slots /\ ctx \in Ctx /\ tcp \in [Pcbs -> States]
        /\ client_registry \in [Slots -> Ctx]
    BY DEF IInv, TypeOK, States
  <1>2. CASE RecvHandshake(c)
    <2>1. PICK out \in HandshakeOutcomes \cup {"overflow"} : xmpp_tls_handshake_step(i, out)
      BY <1>2 DEF RecvHandshake
    <2>2. arg' = arg /\ (stale => stale') /\ ctx.pcb # NoPcb
      BY <1>2 DEF RecvHandshake
    <2> DEFINE new == HandshakeCtx(ctx, out)
    <2>3. /\ client_registry' = [client_registry EXCEPT ![i] = new]
          /\ tcp' = IF out \in {"failed", "overflow"} THEN Closed(tcp, ctx.pcb) ELSE tcp
      BY <1>1, <2>1 DEF xmpp_tls_handshake_step
    <2> HIDE DEF ctx
    <2>4. out \notin {"failed", "overflow"} => new.pcb = ctx.pcb
      BY <1>1 DEF HandshakeCtx, HandshakeOutcomes, Ctx
    <2> HIDE DEF new
    <2>5. SlotStep(i)
      BY <1>1, <2>2, <2>3, <2>4 DEF SlotStep, ctx
    <2> QED
      BY <1>1, <2>5, SlotStepHeld
  <1>3. CASE RecvTls(c)
    <2>1. PICK end \in {"ok", "error", "overflow"} :
             /\ client_registry' = [client_registry EXCEPT ![i] = DecryptCtx(@, end)]
             /\ tcp' = IF end = "ok" THEN tcp ELSE Closed(tcp, ctx.pcb)
      BY <1>3 DEF RecvTls
    <2>2. arg' = arg /\ (stale => stale') /\ ctx.pcb # NoPcb
      BY <1>3 DEF RecvTls
    <2> DEFINE new == DecryptCtx(ctx, end)
    <2>3. client_registry' = [client_registry EXCEPT ![i] = new]
      BY <1>1, <2>1
    <2> HIDE DEF ctx
    <2>4. end = "ok" => new.pcb = ctx.pcb
      BY DEF DecryptCtx
    <2> HIDE DEF new
    <2>5. SlotStep(i)
      BY <1>1, <2>1, <2>2, <2>3, <2>4 DEF SlotStep, ctx
    <2> QED
      BY <1>1, <2>5, SlotStepHeld
  <1>4. CASE RecvPlain(c)
    BY <1>4, QuietHeld DEF RecvPlain
  <1>5. CASE RecvOverflow(c)
    <2> DEFINE new == [ctx EXCEPT !.pcb = NoPcb, !.state = STATE_CONNECTED]
    <2>1. /\ tcp[c] = "open" /\ tcp' = Closed(tcp, c) /\ arg' = arg
          /\ stale' = (stale \/ Stale(c))
          /\ client_registry' = [client_registry EXCEPT ![i].pcb = NoPcb,
                                                        ![i].state = STATE_CONNECTED]
      BY <1>5 DEF RecvOverflow
    <2>2. client_registry' = [client_registry EXCEPT ![i] = new]
      BY <1>1, <2>1
    <2> HIDE DEF ctx
    <2>3. new.pcb = NoPcb
      BY <1>1 DEF Ctx
    <2>4. /\ tcp' \in [Pcbs -> States] /\ tcp[c] \in Alive /\ tcp'[c] \in Alive
          /\ tcp'[c] \notin {"open", "half"}
          /\ \A d \in Pcbs \ {c} : tcp'[d] = tcp[d]
      BY <1>1, <2>1, ClosedType, ClosedIs DEF Closed, Alive
    <2> HIDE DEF new
    <2> QED
      BY <2>1, <2>2, <2>3, <2>4, EndHeld
  <1>6. CASE TcpDone(c)
    <2>1. /\ tcp[c] = "both" /\ tcp' = [tcp EXCEPT ![c] = "gone"]
          /\ UNCHANGED <<client_registry, arg, stale>>
      BY <1>6 DEF TcpDone
    <2> QED
      BY <1>1, <2>1 DEF Held, OpenIsHeld, OrphanContextReachable, Live
  <1> QED
    BY <1>2, <1>3, <1>4, <1>5, <1>6

LEMMA RetryHeld ==
    ASSUME IInv, Held, NEW i \in Slots, RetryHandshake(i)
    PROVE  Held'
  <1> DEFINE ctx == client_registry[i]
  <1>1. PICK out \in HandshakeOutcomes : xmpp_tls_handshake_step(i, out)
    BY DEF RetryHandshake
  <1>2. arg' = arg /\ stale' = stale /\ ctx.pcb # NoPcb
    BY DEF RetryHandshake
  <1>3. ctx \in Ctx /\ client_registry \in [Slots -> Ctx]
    BY DEF IInv, TypeOK
  <1> DEFINE new == HandshakeCtx(ctx, out)
  <1>4. /\ client_registry' = [client_registry EXCEPT ![i] = new]
        /\ tcp' = IF out \in {"failed", "overflow"} THEN Closed(tcp, ctx.pcb) ELSE tcp
    BY <1>1, <1>3 DEF xmpp_tls_handshake_step
  <1> HIDE DEF ctx
  <1>5. out \notin {"failed", "overflow"} => new.pcb = ctx.pcb
    BY <1>3 DEF HandshakeCtx, HandshakeOutcomes, Ctx
  <1> HIDE DEF new
  <1>6. SlotStep(i)
    BY <1>2, <1>3, <1>4, <1>5 DEF SlotStep, ctx
  <1> QED
    BY <1>6, SlotStepHeld

LEMMA HeldInvariance == Spec => []Held
  <1>1. Init => Held
    BY DEF Init, Held, OpenIsHeld, OrphanContextReachable, ZeroCtx
  <1>2. IInv /\ Held /\ [Next]_vars => Held'
    <2> SUFFICES ASSUME IInv, Held, [Next]_vars PROVE Held'
      OBVIOUS
    <2>1. ASSUME NEW c \in Pcbs, Connection(c) PROVE Held'
      BY <2>1, AcceptHeld, FinErrHeld, SegmentHeld DEF Connection
    <2>2. ASSUME NEW i \in Slots, RetryHandshake(i) PROVE Held'
      BY <2>2, RetryHeld
    <2>3. CASE EndOfData \/ OtherElement \/ SaslRefused
      BY <2>3, QuietHeld DEF EndOfData, OtherElement, SaslRefused, send_raw, AssertFails, vars
    <2>4. CASE Element
      BY <2>3, <2>4, StreamElementsHeld, LoginHeld, BindHeld DEF Element
    <2>5. CASE UNCHANGED vars
      BY <2>5, QuietHeld DEF vars
    <2> QED
      BY <2>1, <2>2, <2>4, <2>5 DEF Next
  <1> QED
    BY <1>1, <1>2, Invariance, PTL DEF Spec

(* Every connection that neither side has closed is served by its slot, as *)
(* long as no late callback of another one has hit a slot in use: accept,  *)
(* bind and every error path close the pcb that they take from a slot.     *)
THEOREM OpenConnections == Spec => []OpenIsHeld
  <1>1. Held => OpenIsHeld
    BY DEF Held
  <1> QED
    BY HeldInvariance, <1>1, PTL

(* No path that clears ctx->pcb without freeing the TLS context loses it:  *)
(* the connection whose FIN or error callback frees it is still there.     *)
THEOREM OrphanContexts == Spec => []OrphanContextReachable
  <1>1. Held => OrphanContextReachable
    BY DEF Held
  <1> QED
    BY HeldInvariance, <1>1, PTL
=============================================================================

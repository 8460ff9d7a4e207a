------------------------------ MODULE Session ------------------------------
(***************************************************************************)
(* The life of a client connection: client_registry and the lwIP callbacks *)
(* of src/src/xmpp/xmpp_server.c, the TLS steps of xmpp_tls.c, the state   *)
(* gates of xmpp_router.c and the login handlers of xmpp_handlers.c.       *)
(*                                                                         *)
(* A connection is an lwIP pcb whose callbacks get the address of a        *)
(* registry slot.  The server closes pcbs in many places and hands the     *)
(* slots out round-robin, but never takes a slot away from the callbacks   *)
(* of the pcb it closed: they still come, when the peer closes its side,   *)
(* resets the connection or sends more data.                               *)
(*                                                                         *)
(* A callback runs to its end before the next one, and takes the elements  *)
(* of a segment one after the other (xmpp_recv_callback).  An element here *)
(* is complete: the bytes of an unfinished one wait in rx_buffer without   *)
(* any effect, and an element in front of a stream header that the code    *)
(* drops with it (strstr finds the header anywhere) is not represented.    *)
(***************************************************************************)
EXTENDS Naturals, FiniteSets

CONSTANTS
    MAX_USERS,          \* slots of client_registry
    Pcbs,               \* the connections that clients open in a behaviour
    NoPcb,              \* NULL
    Users,              \* names a client can log in with
    NoUser,             \* the empty string
    SASL_MAX_FAILURES

ASSUME SessionAssumption ==
    /\ MAX_USERS \in Nat \ {0}
    /\ NoPcb \notin Pcbs
    /\ NoUser \notin Users
    /\ SASL_MAX_FAILURES \in Nat \ {0}

Slots == 0 .. MAX_USERS - 1

(* client_state_t *)
STATE_CONNECTED == 0
STATE_STARTTLS == 1
STATE_SASL == 2
STATE_AUTHENTICATED == 3
STATE_BIND == 4
STATE_SESSION == 5
STATE_READY == 6

(* xmpp_client_ctx_t, without the buffers.  stuck: rx_buffer starts with a *)
(* stream header that the current state does not expect, which the parser  *)
(* takes for an element that goes on.  by is history: the connection that  *)
(* logged in.                                                              *)
Ctx == [pcb : Pcbs \cup {NoPcb},
        state : STATE_CONNECTED .. STATE_READY,
        tls_initialised : BOOLEAN,
        tls_established : BOOLEAN,
        tls_want_write : BOOLEAN,
        authenticated : BOOLEAN,
        username : Users \cup {NoUser},
        full_jid : Users \cup {NoUser},
        sasl_failures : 0 .. SASL_MAX_FAILURES,
        initial_presence_sent : BOOLEAN,
        stuck : BOOLEAN,
        by : Pcbs \cup {NoPcb}]

(* A slot after memset to 0. *)
ZeroCtx ==
    [pcb |-> NoPcb, state |-> STATE_CONNECTED, tls_initialised |-> FALSE,
     tls_established |-> FALSE, tls_want_write |-> FALSE, authenticated |-> FALSE,
     username |-> NoUser, full_jid |-> NoUser, sasl_failures |-> 0,
     initial_presence_sent |-> FALSE, stuck |-> FALSE, by |-> NoPcb]

VARIABLES
    client_registry,
    client_idx,   \* the slot of the next connection
    tcp,          \* the pcbs: "new", "open", "closed" (by the server only), "half" (by the
                  \* peer only), "both" (by both sides) or "gone" (freed)
    arg,          \* the slot that the callbacks of a pcb get
    cur,          \* the pcb whose receive callback is in its loop, or NoPcb
    halted,       \* an LWIP_ASSERT failed: the kernel spins
    stale         \* history: a callback has changed a slot that holds another pcb

vars == <<client_registry, client_idx, tcp, arg, cur, halted, stale>>

----------------------------------------------------------------------------
(* lwIP (src/src/lwip/src/core), as far as the server can tell.            *)

(* tcp_close: a FIN is sent; callbacks and argument stay.  No effect on    *)
(* NULL and on a pcb that is closed already.                               *)
Closed(t, p) ==
    [c \in Pcbs |->
        IF c # p THEN t[c]
        ELSE CASE t[c] = "open" -> "closed"
               [] t[c] = "half" -> "both"
               [] OTHER -> t[c]]

(* LWIP_ASSERT("tcp_output: invalid pcb", pcb != NULL), as the platform    *)
(* defines it: print and loop for ever.  What the handler had changed      *)
(* before that no longer matters.                                          *)
AssertFails ==
    /\ halted' = TRUE
    /\ UNCHANGED <<client_registry, client_idx, tcp, arg, cur, stale>>

(* tcp_output(ctx->pcb), then the rest of the handler. *)
Output(ctx, rest) ==
    \/ ctx.pcb # NoPcb /\ rest /\ UNCHANGED halted
    \/ ctx.pcb = NoPcb /\ AssertFails

(* send_raw: over TLS tcp_output is called only with a pcb. *)
send_raw(ctx, rest) ==
    \/ (ctx.tls_established \/ ctx.pcb # NoPcb) /\ rest /\ UNCHANGED halted
    \/ ~ctx.tls_established /\ ctx.pcb = NoPcb /\ AssertFails

----------------------------------------------------------------------------
(* TLS.                                                                    *)

(* Mutant: the flag that send_raw looks at is not reset. *)
FreeKeepsEstablished(ctx) ==
    IF ctx.tls_initialised THEN [ctx EXCEPT !.tls_initialised = FALSE] ELSE ctx

xmpp_tls_client_free(ctx) ==
    IF ctx.tls_initialised
    THEN [ctx EXCEPT !.tls_initialised = FALSE, !.tls_established = FALSE]
    ELSE ctx

(* What mbedtls_ssl_handshake can return. *)
HandshakeOutcomes == {"done", "want_read", "want_write", "failed"}

(* The slot after xmpp_tls_handshake_step; "overflow": the staging buffer  *)
(* has no room for the segment.                                            *)
HandshakeCtx(ctx, out) ==
    CASE out = "done" -> [ctx EXCEPT !.tls_established = TRUE, !.tls_want_write = FALSE,
                                     !.state = STATE_CONNECTED, !.stuck = FALSE]
      [] out = "want_read" -> [ctx EXCEPT !.tls_want_write = FALSE]
      [] out = "want_write" -> [ctx EXCEPT !.tls_want_write = TRUE]
      [] out = "failed" -> [ctx EXCEPT !.tls_want_write = FALSE, !.pcb = NoPcb,
                                       !.state = STATE_CONNECTED, !.tls_established = FALSE]
      [] out = "overflow" -> [ctx EXCEPT !.pcb = NoPcb, !.state = STATE_CONNECTED,
                                         !.tls_established = FALSE]

(* Mutant: a failed handshake forgets the pcb without closing it. *)
HandshakeWithoutClose(i, out) ==
    /\ client_registry' = [client_registry EXCEPT ![i] = HandshakeCtx(@, out)]
    /\ UNCHANGED tcp

xmpp_tls_handshake_step(i, out) ==
    /\ client_registry' = [client_registry EXCEPT ![i] = HandshakeCtx(@, out)]
    /\ tcp' = IF out \in {"failed", "overflow"} THEN Closed(tcp, client_registry[i].pcb) ELSE tcp

----------------------------------------------------------------------------
(* Connections come and go.                                                *)

Init ==
    /\ client_registry = [i \in Slots |-> ZeroCtx]
    /\ client_idx = 0
    /\ tcp = [c \in Pcbs |-> "new"]
    /\ arg = [c \in Pcbs |-> 0]
    /\ cur = NoPcb
    /\ halted = FALSE
    /\ stale = FALSE

(* Callbacks do not interrupt each other. *)
Ready == cur = NoPcb /\ ~halted

(* Mutant: only the pcb of the slot is replaced. *)
SlotFor(ctx, c) == [ctx EXCEPT !.pcb = c, !.state = STATE_CONNECTED]

(* The slot as xmpp_accept_callback sets it up. *)
NewCtx(ctx, c) == [ZeroCtx EXCEPT !.pcb = c]

NextIdx(i) == (i + 1) % MAX_USERS

(* The slot at client_idx is taken from its occupant, if any. *)
xmpp_accept_callback(c) ==
    /\ Ready
    /\ tcp[c] = "new"
    /\ client_registry' = [client_registry EXCEPT ![client_idx] = NewCtx(@, c)]
    /\ tcp' = [Closed(tcp, client_registry[client_idx].pcb) EXCEPT ![c] = "open"]
    /\ arg' = [arg EXCEPT ![c] = client_idx]
    /\ client_idx' = NextIdx(client_idx)
    /\ UNCHANGED <<cur, halted, stale>>

(* A callback of c hits a slot that belongs to another pcb. *)
Stale(c) == client_registry[arg[c]].pcb \notin {NoPcb, c}

(* Mutant: as at accept, the TLS context is freed only with a pcb in the   *)
(* slot.                                                                   *)
FinKeepsOrphan(c) ==
    LET i == arg[c]
        ctx == client_registry[i]
        freed == IF ctx.pcb = NoPcb THEN ctx ELSE xmpp_tls_client_free(ctx)
        p == IF ctx.pcb = NoPcb THEN c ELSE ctx.pcb
    IN  /\ Ready
        /\ tcp[c] \in {"open", "closed"}
        /\ client_registry' = [client_registry EXCEPT ![i] =
              [freed EXCEPT !.pcb = NoPcb, !.state = STATE_CONNECTED]]
        /\ tcp' = Closed([tcp EXCEPT ![c] = IF @ = "open" THEN "half" ELSE "both"], p)
        /\ stale' = (stale \/ Stale(c))
        /\ UNCHANGED <<client_idx, arg, cur, halted>>

(* xmpp_recv_callback without a pbuf: the peer has closed its side.  The   *)
(* pcb that is closed is the one in the slot.                              *)
RecvFin(c) ==
    LET i == arg[c]
        ctx == client_registry[i]
        p == IF ctx.pcb = NoPcb THEN c ELSE ctx.pcb
    IN  /\ Ready
        /\ tcp[c] \in {"open", "closed"}
        /\ client_registry' = [client_registry EXCEPT ![i] =
              [xmpp_tls_client_free(ctx) EXCEPT !.pcb = NoPcb, !.state = STATE_CONNECTED]]
        /\ tcp' = Closed([tcp EXCEPT ![c] = IF @ = "open" THEN "half" ELSE "both"], p)
        /\ stale' = (stale \/ Stale(c))
        /\ UNCHANGED <<client_idx, arg, cur, halted>>

(* Mutant: the error callback frees the TLS context and keeps the rest. *)
ErrKeepsPcb(c) ==
    /\ Ready
    /\ tcp[c] \in {"open", "closed", "half", "both"}
    /\ tcp' = [tcp EXCEPT ![c] = "gone"]
    /\ client_registry' = [client_registry EXCEPT ![arg[c]] = xmpp_tls_client_free(@)]
    /\ stale' = (stale \/ Stale(c))
    /\ UNCHANGED <<client_idx, arg, cur, halted>>

(* The pcb is freed by a reset, by data after tcp_close or by a timeout.   *)
xmpp_err_callback(c) ==
    /\ Ready
    /\ tcp[c] \in {"open", "closed", "half", "both"}
    /\ tcp' = [tcp EXCEPT ![c] = "gone"]
    /\ client_registry' = [client_registry EXCEPT ![arg[c]] = ZeroCtx]
    /\ stale' = (stale \/ Stale(c))
    /\ UNCHANGED <<client_idx, arg, cur, halted>>

(* Both sides have closed and lwIP frees the pcb, without a callback. *)
TcpDone(c) ==
    /\ Ready
    /\ tcp[c] = "both"
    /\ tcp' = [tcp EXCEPT ![c] = "gone"]
    /\ UNCHANGED <<client_registry, client_idx, arg, cur, halted, stale>>

----------------------------------------------------------------------------
(* A segment arrives (xmpp_recv_callback with a pbuf).                     *)

(* ... during the handshake.  The handshake of the slot's pcb cannot be    *)
(* completed by another connection.                                        *)
RecvHandshake(c) ==
    /\ Ready
    /\ tcp[c] = "open"
    /\ client_registry[arg[c]].state = STATE_STARTTLS
    /\ \E out \in HandshakeOutcomes \cup {"overflow"} :
          /\ client_registry[arg[c]].pcb # c => out \notin {"done", "want_write"}
          /\ client_registry[arg[c]].pcb # NoPcb
          /\ xmpp_tls_handshake_step(arg[c], out)
    /\ stale' = (stale \/ Stale(c))
    /\ UNCHANGED <<client_idx, arg, cur, halted>>

(* The main loop retries a handshake that could not write. *)
RetryHandshake(i) ==
    /\ Ready
    /\ client_registry[i].pcb # NoPcb
    /\ client_registry[i].state = STATE_STARTTLS
    /\ client_registry[i].tls_want_write
    /\ \E out \in HandshakeOutcomes : xmpp_tls_handshake_step(i, out)
    /\ UNCHANGED <<client_idx, arg, cur, halted, stale>>

(* What xmpp_tls_decrypt makes of the slot.  A close_notify or fatal alert *)
(* and a bad record are errors; "overflow" stands for the two full buffers *)
(* and for the end of the TLS stream.                                      *)
DecryptCtx(ctx, end) ==
    CASE end = "ok" -> ctx
      [] end = "error" -> [ctx EXCEPT !.pcb = NoPcb, !.tls_established = FALSE]
      [] end = "overflow" -> [ctx EXCEPT !.pcb = NoPcb]

(* ... over TLS.  All of it is decrypted before the loop looks at it.  The *)
(* bytes of another connection are no records of the slot's session and    *)
(* give the loop nothing to do; without a pcb nothing is decrypted.        *)
RecvTls(c) ==
    LET i == arg[c]
        own == client_registry[i].pcb = c
    IN
    /\ Ready
    /\ tcp[c] = "open"
    /\ client_registry[i].state # STATE_STARTTLS
    /\ client_registry[i].tls_established
    /\ client_registry[i].pcb # NoPcb
    /\ \E end \in {"ok", "error", "overflow"} :
          /\ end = "ok" => own
          /\ client_registry' = [client_registry EXCEPT ![i] = DecryptCtx(@, end)]
          /\ tcp' = IF end = "ok" THEN tcp ELSE Closed(tcp, client_registry[i].pcb)
    /\ cur' = IF own THEN c ELSE NoPcb
    /\ stale' = (stale \/ Stale(c))
    /\ UNCHANGED <<client_idx, arg, halted>>

(* ... in the clear. *)
RecvPlain(c) ==
    /\ Ready
    /\ tcp[c] = "open"
    /\ client_registry[arg[c]].state # STATE_STARTTLS
    /\ ~client_registry[arg[c]].tls_established
    /\ cur' = c
    /\ stale' = (stale \/ Stale(c))
    /\ UNCHANGED <<client_registry, client_idx, tcp, arg, halted>>

(* ... in the clear, and rx_buffer is full. *)
RecvOverflow(c) ==
    /\ Ready
    /\ tcp[c] = "open"
    /\ client_registry[arg[c]].state # STATE_STARTTLS
    /\ ~client_registry[arg[c]].tls_established
    /\ client_registry' = [client_registry EXCEPT ![arg[c]].pcb = NoPcb,
                                                  ![arg[c]].state = STATE_CONNECTED]
    /\ tcp' = Closed(tcp, c)
    /\ stale' = (stale \/ Stale(c))
    /\ UNCHANGED <<client_idx, arg, cur, halted>>

----------------------------------------------------------------------------
(* The loop over the elements in rx_buffer.                                *)

slot == arg[cur]
InLoop == cur # NoPcb /\ ~halted
Parsing == InLoop /\ ~client_registry[slot].stuck

(* The handler gives the slot a new value; the loop goes on or returns. *)
Becomes(ctx, next) ==
    /\ client_registry' = [client_registry EXCEPT ![slot] = ctx]
    /\ cur' = next
    /\ UNCHANGED <<client_idx, arg, stale>>

(* tcp_close(ctx->pcb) is part of it. *)
Closes(ctx) == tcp' = Closed(tcp, ctx.pcb)

(* A stream header is taken in two states only. *)
HeaderExpected(ctx) == ctx.state \in {STATE_CONNECTED, STATE_AUTHENTICATED}

(* rx_buffer is empty, or holds the beginning of an element. *)
EndOfData ==
    /\ InLoop
    /\ ~(client_registry[slot].stuck /\ HeaderExpected(client_registry[slot]))
    /\ cur' = NoPcb
    /\ UNCHANGED <<client_registry, client_idx, tcp, arg, halted, stale>>

(* <starttls/> *)
Starttls ==
    LET ctx == client_registry[slot]
        ready == [ctx EXCEPT !.state = STATE_STARTTLS, !.tls_initialised = TRUE,
                             !.tls_established = FALSE, !.tls_want_write = FALSE]
        refused == [ctx EXCEPT !.tls_want_write = FALSE, !.pcb = NoPcb]
    IN  /\ Parsing
        /\ ctx.state = STATE_CONNECTED
        /\ ~ctx.tls_established
        /\ Output(ctx, \/ Becomes(ready, NoPcb) /\ UNCHANGED tcp
                       \/ Becomes(refused, NoPcb) /\ Closes(ctx))

(* </stream:stream> *)
StreamClose ==
    LET ctx == client_registry[slot]
        closed == [xmpp_tls_client_free(ctx) EXCEPT !.pcb = NoPcb, !.state = STATE_CONNECTED]
    IN  /\ Parsing
        /\ send_raw(ctx, Becomes(closed, NoPcb) /\ Closes(ctx))

(* Mutant: features are chosen by authenticated alone, before TLS is up. *)
FeaturesWithoutTls(ctx) ==
    IF ctx.authenticated THEN STATE_BIND ELSE STATE_SASL

(* The state after handle_handshake_logic. *)
FeaturesState(ctx) ==
    CASE ctx.authenticated -> STATE_BIND
      [] ~ctx.authenticated /\ ctx.tls_established -> STATE_SASL
      [] ~ctx.authenticated /\ ~ctx.tls_established -> ctx.state

(* No header is left in rx_buffer: its caller in the loop empties it, and  *)
(* the one in the router never runs with one.                              *)
handle_handshake_logic(ctx, next) ==
    send_raw(ctx, /\ Becomes([ctx EXCEPT !.state = FeaturesState(ctx), !.stuck = FALSE], next)
                  /\ UNCHANGED tcp)

(* <stream:stream>, with the right namespaces and version.  It may be one  *)
(* that got stuck in an earlier state.                                     *)
StreamHeader ==
    /\ InLoop
    /\ HeaderExpected(client_registry[slot])
    /\ handle_handshake_logic(client_registry[slot], NoPcb)

(* <stream:stream to='...'> for another host, before TLS. *)
StreamWrongHost ==
    LET ctx == client_registry[slot] IN
    /\ InLoop
    /\ HeaderExpected(ctx)
    /\ ~ctx.tls_established /\ ~ctx.authenticated
    /\ Output(ctx, /\ Becomes([ctx EXCEPT !.pcb = NoPcb, !.stuck = FALSE], NoPcb)
                   /\ Closes(ctx))

(* <stream:stream> with a wrong namespace or version: the slot keeps the   *)
(* pcb that is closed.                                                     *)
StreamBadHeader ==
    LET ctx == client_registry[slot] IN
    /\ InLoop
    /\ HeaderExpected(ctx)
    /\ Output(ctx, Becomes([ctx EXCEPT !.stuck = FALSE], NoPcb) /\ Closes(ctx))

(* <stream:stream> in another state: the parser waits for its end tag. *)
StreamStuck ==
    /\ Parsing
    /\ ~HeaderExpected(client_registry[slot])
    /\ Becomes([client_registry[slot] EXCEPT !.stuck = TRUE], NoPcb)
    /\ UNCHANGED <<tcp, halted>>

(* Its end tag has come: one unknown element, which nothing handles. *)
StreamUnstuck ==
    /\ InLoop
    /\ client_registry[slot].stuck
    /\ ~HeaderExpected(client_registry[slot])
    /\ Becomes([client_registry[slot] EXCEPT !.stuck = FALSE], cur)
    /\ UNCHANGED <<tcp, halted>>

(* Any other element that changes nothing here: a message, an iq, <abort>, *)
(* an element of stream management, or one the state does not allow; the   *)
(* server answers it or not.                                               *)
OtherElement ==
    /\ Parsing
    /\ \/ UNCHANGED vars
       \/ /\ ~client_registry[slot].tls_established
          /\ client_registry[slot].pcb = NoPcb
          /\ AssertFails

----------------------------------------------------------------------------
(* Login.                                                                  *)

InSasl == client_registry[slot].state \in {STATE_CONNECTED, STATE_SASL}

(* <auth> before TLS, with an unknown mechanism or a bad encoding. *)
SaslRefused ==
    /\ Parsing
    /\ InSasl
    /\ send_raw(client_registry[slot], UNCHANGED <<client_registry, client_idx, tcp, arg, cur, stale>>)

(* The slot after a wrong password; the bound on sasl_failures is the      *)
(* model's, the code goes on counting.                                     *)
AfterFailure(ctx, u) ==
    LET n == ctx.sasl_failures + 1
        counted == [ctx EXCEPT !.username = u,
                               !.sasl_failures = IF n < SASL_MAX_FAILURES THEN n
                                                 ELSE SASL_MAX_FAILURES]
    IN  IF n < SASL_MAX_FAILURES THEN counted
        ELSE [counted EXCEPT !.pcb = NoPcb, !.state = STATE_CONNECTED]

SaslFailure(u) ==
    LET ctx == client_registry[slot] IN
    /\ Parsing
    /\ InSasl
    /\ ctx.tls_established
    /\ Becomes(AfterFailure(ctx, u), cur)
    /\ IF AfterFailure(ctx, u).pcb = NoPcb THEN Closes(ctx) ELSE UNCHANGED tcp
    /\ UNCHANGED halted

(* <auth> with the right password, or without one (ANONYMOUS). *)
SaslSuccess(u) ==
    LET ctx == client_registry[slot] IN
    /\ Parsing
    /\ InSasl
    /\ ctx.tls_established
    /\ Becomes([ctx EXCEPT !.username = u, !.authenticated = TRUE,
                           !.state = STATE_AUTHENTICATED, !.by = cur], cur)
    /\ UNCHANGED <<tcp, halted>>

(* xmpp_route_stanza: an element whose namespace contains "stream". *)
RouteStream ==
    /\ Parsing
    /\ ~InSasl
    /\ handle_handshake_logic(client_registry[slot], cur)

(* Mutant: only sessions that are complete make room for the new one. *)
SameUserReady(i, ctx) ==
    /\ i # slot
    /\ client_registry[i].pcb # NoPcb
    /\ client_registry[i].username = ctx.username
    /\ client_registry[i].state = STATE_READY

(* The connections that handle_core_bind closes. *)
SameUser(i, ctx) ==
    /\ i # slot
    /\ client_registry[i].pcb # NoPcb
    /\ client_registry[i].username = ctx.username

(* The session of the user on another connection ends. *)
handle_core_bind ==
    LET ctx == client_registry[slot]
        bound == [ctx EXCEPT !.full_jid = ctx.username, !.state = STATE_SESSION]
        others == {i \in Slots : SameUser(i, ctx)}
    IN  /\ Parsing
        /\ ctx.state = STATE_BIND
        /\ send_raw(ctx,
              /\ client_registry' = [i \in Slots |->
                    IF i = slot THEN bound
                    ELSE IF i \in others THEN ZeroCtx
                    ELSE client_registry[i]]
              /\ tcp' = [c \in Pcbs |->
                    IF \E i \in others : client_registry[i].pcb = c
                    THEN Closed(tcp, c)[c]
                    ELSE tcp[c]]
              /\ UNCHANGED <<client_idx, arg, cur, stale>>)

(* Allowed from STATE_AUTHENTICATED on. *)
handle_core_session ==
    LET ctx == client_registry[slot] IN
    /\ Parsing
    /\ ctx.state >= STATE_AUTHENTICATED
    /\ send_raw(ctx, Becomes([ctx EXCEPT !.state = STATE_READY], cur) /\ UNCHANGED tcp)

(* The first available presence is broadcast; a later one, and a presence  *)
(* of any other type, also makes the session ready.                        *)
RoutePresence ==
    LET ctx == client_registry[slot] IN
    /\ Parsing
    /\ ctx.state >= STATE_SESSION
    /\ \/ Becomes([ctx EXCEPT !.state = STATE_READY], cur)
       \/ /\ ~ctx.initial_presence_sent
          /\ Becomes([ctx EXCEPT !.initial_presence_sent = TRUE], cur)
    /\ UNCHANGED <<tcp, halted>>

----------------------------------------------------------------------------
Connection(c) ==
    \/ xmpp_accept_callback(c)
    \/ RecvFin(c)
    \/ xmpp_err_callback(c)
    \/ TcpDone(c)
    \/ RecvHandshake(c)
    \/ RecvTls(c)
    \/ RecvPlain(c)
    \/ RecvOverflow(c)

Element ==
    \/ EndOfData
    \/ Starttls
    \/ StreamClose
    \/ StreamHeader
    \/ StreamWrongHost
    \/ StreamBadHeader
    \/ StreamStuck
    \/ StreamUnstuck
    \/ OtherElement
    \/ SaslRefused
    \/ \E u \in Users : SaslFailure(u)
    \/ \E u \in Users : SaslSuccess(u)
    \/ RouteStream
    \/ handle_core_bind
    \/ handle_core_session
    \/ RoutePresence

Next ==
    \/ \E c \in Pcbs : Connection(c)
    \/ \E i \in Slots : RetryHandshake(i)
    \/ Element

Spec == Init /\ [][Next]_vars

----------------------------------------------------------------------------
(* Properties.                                                             *)

Live(i) == client_registry[i].pcb # NoPcb

(* Each variable has values of its type. *)
TypeOK ==
    /\ client_registry \in [Slots -> Ctx]
    /\ client_idx \in Slots
    /\ tcp \in [Pcbs -> {"new", "open", "closed", "half", "both", "gone"}]
    /\ arg \in [Pcbs -> Slots]
    /\ cur \in Pcbs \cup {NoPcb}
    /\ halted \in BOOLEAN
    /\ stale \in BOOLEAN

(* mbedtls is called only on a context that mbedtls_ssl_setup has set up   *)
(* and mbedtls_ssl_free has not freed: the code decides by tls_established *)
(* and by STATE_STARTTLS.                                                  *)
TlsContextValid ==
    \A i \in Slots : LET ctx == client_registry[i] IN
        /\ ctx.tls_established => ctx.tls_initialised
        /\ ctx.state = STATE_STARTTLS =>
               ctx.tls_initialised /\ ~ctx.tls_established /\ ctx.pcb # NoPcb

(* No client gets past the offer of STARTTLS in the clear, and none gets   *)
(* past SASL without having authenticated.                                 *)
StateGates ==
    \A i \in Slots : LET ctx == client_registry[i] IN
        /\ ctx.state >= STATE_AUTHENTICATED => ctx.authenticated
        /\ Live(i) /\ ctx.state >= STATE_SASL => ctx.tls_established

(* A slot serves its connection with the rights that this very connection  *)
(* has logged in for, never with those of an earlier occupant or of the    *)
(* owner of a stale callback.                                              *)
CredentialsOwn ==
    \A i \in Slots : Live(i) /\ client_registry[i].authenticated =>
        client_registry[i].by = client_registry[i].pcb

(* A user is bound on one connection at a time. *)
OneBindingPerUser ==
    \A i, j \in Slots : Live(i) /\ Live(j) /\ client_registry[i].full_jid # NoUser
                        /\ client_registry[i].full_jid = client_registry[j].full_jid => i = j

(* Every connection that neither side has closed is the one in its slot,   *)
(* and none is left half closed, unless a callback of a closed connection  *)
(* came for a slot that had a new occupant.                                *)
OpenIsHeld ==
    ~stale => \A c \in Pcbs :
        /\ tcp[c] = "open" => client_registry[arg[c]].pcb = c
        /\ tcp[c] # "half"

(* The pcb in a slot is one that lwIP has not freed, and its callbacks get *)
(* that very slot: the server never writes to, closes or compares a freed  *)
(* pcb, although lwIP frees pcbs on its own and slots lose theirs to the   *)
(* callbacks of others.                                                    *)
SlotPcbAlive ==
    \A i \in Slots : Live(i) =>
        /\ tcp[client_registry[i].pcb] \in {"open", "closed"}
        /\ arg[client_registry[i].pcb] = i

(* The memory of a TLS context (a static pool, TLS_POOL_SIZE) is not lost  *)
(* when a slot loses its pcb after a failed handshake, a bad record or too *)
(* many wrong passwords, none of which frees it: some connection whose FIN *)
(* or error callback is still to come gets that slot, and frees it there.  *)
(* Only xmpp_accept_callback, which frees nothing without a pcb in the     *)
(* slot, can be faster.                                                    *)
OrphanContextReachable ==
    \A i \in Slots : client_registry[i].tls_initialised /\ ~Live(i) =>
        \E c \in Pcbs : arg[c] = i /\ tcp[c] \in {"open", "closed"}

(* What is true of every slot, between any two steps of a callback. *)
CtxInv(ctx) ==
    /\ ctx.tls_established => ctx.tls_initialised
    /\ ctx.state = STATE_STARTTLS =>
           ctx.tls_initialised /\ ~ctx.tls_established /\ ctx.pcb # NoPcb
    /\ ctx.state >= STATE_AUTHENTICATED => ctx.authenticated
    /\ ctx.pcb # NoPcb /\ ctx.state >= STATE_SASL => ctx.tls_established
    /\ ctx.pcb # NoPcb /\ ctx.authenticated => ctx.tls_established /\ ctx.by = ctx.pcb
    /\ ctx.pcb # NoPcb /\ ctx.full_jid # NoUser =>
           ctx.state >= STATE_BIND /\ ctx.username = ctx.full_jid

(* The loop does not run during a handshake, and it handles decrypted      *)
(* elements only for the slot's own connection.                            *)
LoopInv ==
    cur # NoPcb =>
        /\ client_registry[slot].state # STATE_STARTTLS
        /\ client_registry[slot].tls_established =>
               client_registry[slot].pcb \in {NoPcb, cur}

(* The properties of the slots rest on this. *)
IInv ==
    /\ TypeOK
    /\ \A i \in Slots : CtxInv(client_registry[i])
    /\ LoopInv
    /\ OneBindingPerUser
    /\ SlotPcbAlive

(* lwIP's assertion "tcp_output: invalid pcb" (tcp_out.c:1253). *)
OutputPcbValid == ~halted
============================================================================

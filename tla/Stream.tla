------------------------------- MODULE Stream -------------------------------
(***************************************************************************)
(* How the bytes a client sends become stanzas, and how they are counted:  *)
(* the loop of xmpp_recv_callback (src/src/xmpp/xmpp_server.c) over the    *)
(* connection's buffer, the search for the end of a stanza                 *)
(* (src/src/xmpp/yxml_sse.c) and stream management                         *)
(* (src/src/xmpp/xmpp_sm.c).                                               *)
(*                                                                         *)
(* A connection whose stream is open and encrypted.  Its client escapes    *)
(* every '>' in an attribute, writes neither CDATA nor comments, and opens *)
(* the stream no second time: the code takes the first '>' for the end of  *)
(* a tag, and another header for a stanza without an end.                  *)
(*                                                                         *)
(* A tag is two symbols, all of it up to its '>' and that '>' ("/>" when   *)
(* the tag closes itself); TCP may cut the text between any two symbols.   *)
(* A cut inside a symbol acts as one before it: each test of the code but  *)
(* the one for the end of the stream needs the '>' of the tag, and that    *)
(* one the whole name.                                                     *)
(* The bytes arrive in order and leave the buffer at its front, so that    *)
(* rx_buffer is what lies between two positions of the text.               *)
(*                                                                         *)
(* One thread runs it all: the callback goes on to its end, and the main   *)
(* loop and other clients' stanzas have their turn between two callbacks.  *)
(***************************************************************************)
EXTENDS Integers, Sequences, FiniteSets, SequencesExt

CONSTANTS
    Scripts,          \* what the client may send: sequences of elements
    RX_BUFFER,        \* symbols in rx_buffer, its NUL included
    SM_ACK_INTERVAL,
    W,                \* the counters are unsigned and wrap at W
    MaxRecord,        \* bound: symbols in a TLS record
    MaxReplies,       \* bound: what one stanza makes the server send back
    MaxPushes         \* bound: stanzas of others delivered to this client

(* The text of each element a client sends: stanzas with and without a     *)
(* body, the one that makes the session and one that undoes it (its        *)
(* child's namespace has "stream" in it, as XEP-0065's has), stream        *)
(* management, also as a pair of tags, and what is no element: blanks      *)
(* between stanzas, the end of the stream.  A declaration goes with the    *)
(* stanza behind it.                                                       *)
Text ==
    [session |-> <<"<session", ">", "<child", "/>", "</", ">">>,
     restart |-> <<"<restart", ">", "<child", "/>", "</", ">">>,
     message |-> <<"<message", ">", "<child", ">", "</", ">", "</", ">">>,
     empty   |-> <<"<message", "/>">>,
     decl    |-> <<"<?", ">", "<message", "/>">>,
     enable  |-> <<"<enable", "/>">>,
     r       |-> <<"<r", "/>">>,
     a       |-> <<"<a", "/>">>,
     longenable |-> <<"<enable", ">", "</", ">">>,
     longr   |-> <<"<r", ">", "</", ">">>,
     longa   |-> <<"<a", ">", "</", ">">>,
     blank   |-> <<" ">>,
     end     |-> <<"</stream", ">">>]

Elements == DOMAIN Text
StartTags == {"<session", "<restart", "<message", "<child", "<enable", "<r", "<a"}
EndTags == {"</", "</stream"}

ASSUME StreamAssumption ==
    /\ \A s \in Scripts : s \in Seq(Elements)
    /\ {RX_BUFFER, SM_ACK_INTERVAL, W, MaxRecord} \subseteq Nat \ {0}
    /\ {MaxReplies, MaxPushes} \subseteq Nat

VARIABLES
    script,      \* what this client sends
    text,        \* the same as symbols
    arrived,     \* symbols of it that were put in rx_buffer
    taken,       \* symbols of it that left rx_buffer at the front
    pc,          \* "idle", "read" (decrypting), "loop" (over the buffer)
    open,        \* ctx->pcb # NULL
    state,       \* "BIND", "SESSION" (STATE_SESSION or above), "CONNECTED"
    sm_enabled,
    sm_want_ack,
    sm_inbound_h,
    sm_outbound_count,
    pushes,
    handled,     \* history: where each handled element ended and what it was
                 \* taken for, with the h it was answered with
    unasked      \* history: sends since the last request, up to SM_ACK_INTERVAL

wire == <<script, text, arrived>>
sm == <<sm_enabled, sm_want_ack, sm_inbound_h, sm_outbound_count, unasked>>
vars == <<script, text, arrived, taken, pc, open, state, sm_enabled, sm_want_ack,
          sm_inbound_h, sm_outbound_count, pushes, handled, unasked>>

rx_buffer == SubSeq(text, taken + 1, arrived)

----------------------------------------------------------------------------
(* find_stanza_end: the tag that ends at symbol k of buf is the one before *)
(* it; the depth after it is the tags opened less the tags closed.         *)

OpensAt(buf, k) == k > 1 /\ buf[k] = ">" /\ buf[k - 1] \in StartTags
ClosesAt(buf, k) == k > 1 /\ buf[k] = ">" /\ buf[k - 1] \in EndTags

Depth(buf, k) ==
    Cardinality({j \in 1 .. k : OpensAt(buf, j)})
        - Cardinality({j \in 1 .. k : ClosesAt(buf, j)})

(* Mutant: a stanza ends where the first child without a body ends. *)
EndsAtChild(buf, k) == (ClosesAt(buf, k) /\ Depth(buf, k) = 0) \/ buf[k] = "/>"

EndsAt(buf, k) ==
    /\ Depth(buf, k) = 0
    /\ ClosesAt(buf, k) \/ buf[k] = "/>"

(* The length of the first stanza in buf, 0 if it is not complete. *)
find_stanza_end(buf) ==
    LET ends == {k \in DOMAIN buf : EndsAt(buf, k)}
    IN  IF ends = {} THEN 0 ELSE Min(ends)

(* What xmpp_sm_handle_element makes of the front of the buffer. *)
SmElement(buf) ==
    IF state = "SESSION" /\ Len(buf) >= 2 /\ Head(buf) \in {"<enable", "<r", "<a"}
    THEN Head(buf)
    ELSE "none"

StreamEnds(buf) == Head(buf) = "</stream"

----------------------------------------------------------------------------
(* k calls of send_raw, each with xmpp_sm_on_stanza_sent at its end,       *)
(* whatever became of the write; from sm_outbound_count = count, with      *)
(* sm_want_ack set already if flagged.                                     *)

(* Mutant: at the first multiple only. *)
AckDueOnce(count) == count = SM_ACK_INTERVAL

AckDue(count) == count % SM_ACK_INTERVAL = 0

SendRaw(k, enabled, count, flagged) ==
    /\ sm_outbound_count' = IF enabled THEN (count + k) % W ELSE count
    /\ sm_want_ack' =
          (flagged \/ \E j \in 1 .. k : enabled /\ AckDue((count + j) % W))

(* The history: since sends and k more. *)
Unasked(k, enabled, since) ==
    unasked' = IF enabled THEN Min({since + k, SM_ACK_INTERVAL}) ELSE since

(* The first n symbols of the buffer are one element. *)
Take(n, what, h) ==
    /\ taken' = taken + n
    /\ handled' = Append(handled, [to |-> taken + n, what |-> what, h |-> h])

----------------------------------------------------------------------------
Init ==
    /\ script \in Scripts
    /\ text = FlattenSeq([i \in DOMAIN script |-> Text[script[i]]])
    /\ arrived = 0 /\ taken = 0
    /\ pc = "idle"
    /\ open = TRUE
    /\ state = "BIND"
    /\ sm_enabled = FALSE /\ sm_want_ack = FALSE
    /\ sm_inbound_h = 0 /\ sm_outbound_count = 0
    /\ pushes = 0
    /\ handled = <<>>
    /\ unasked = 0

(* Mutant: the byte for the NUL forgotten. *)
FitsExactly(n) == arrived + n - taken <= RX_BUFFER

(* n more symbols have room in the buffer. *)
Fits(n) == arrived + n - taken < RX_BUFFER - 1

(* xmpp_recv_callback calls xmpp_tls_decrypt for each buffer of the        *)
(* segment, which reads record after record: one is put behind what the    *)
(* buffer holds ...                                                        *)
Record(n) ==
    /\ pc \in {"idle", "read"}
    /\ open
    /\ n \in 1 .. Len(text) - arrived
    /\ Fits(n)
    /\ arrived' = arrived + n
    /\ pc' = "read"
    /\ UNCHANGED <<script, text, taken, open, state, pushes, handled, sm>>

(* ... or does not fit, and the connection is closed.  What is in the      *)
(* buffer is processed all the same.                                       *)
Overflow(n) ==
    /\ pc \in {"idle", "read"}
    /\ open
    /\ n \in 1 .. Len(text) - arrived
    /\ ~Fits(n)
    /\ open' = FALSE
    /\ pc' = "loop"
    /\ UNCHANGED <<wire, taken, state, pushes, handled, sm>>

(* No more to read: the loop over the buffer begins. *)
EndOfSegment ==
    /\ pc = "read"
    /\ pc' = "loop"
    /\ UNCHANGED <<wire, taken, open, state, pushes, handled, sm>>

(* Blanks at the front of the buffer are dropped. *)
SkipBlank ==
    /\ pc = "loop"
    /\ rx_buffer # <<>> /\ Head(rx_buffer) = " "
    /\ taken' = taken + 1
    /\ UNCHANGED <<wire, pc, open, state, pushes, handled, sm>>

(* The client ends its stream: the rest of the buffer is dropped. *)
StreamEnd ==
    /\ pc = "loop"
    /\ rx_buffer # <<>> /\ StreamEnds(rx_buffer)
    /\ taken' = arrived
    /\ open' = FALSE
    /\ state' = "CONNECTED"
    /\ pc' = "idle"
    /\ UNCHANGED <<wire, pushes, handled, sm>>

(* Mutant: the number of stanzas received goes on from where it was. *)
EnableKeepsCount ==
    /\ pc = "loop"
    /\ SmElement(rx_buffer) = "<enable"
    /\ sm_enabled' = TRUE
    /\ SendRaw(1, TRUE, 0, sm_want_ack) /\ Unasked(1, TRUE, 0)
    /\ Take(2, "enable", 0)
    /\ UNCHANGED <<wire, pc, open, state, pushes, sm_inbound_h>>

(* xmpp_sm_handle_element: <enable/> resets the counters before <enabled/> *)
(* is sent and counted; sm_want_ack stays as it is.                        *)
Enable ==
    /\ pc = "loop"
    /\ SmElement(rx_buffer) = "<enable"
    /\ sm_enabled' = TRUE
    /\ sm_inbound_h' = 0
    /\ SendRaw(1, TRUE, 0, sm_want_ack) /\ Unasked(1, TRUE, 0)
    /\ Take(2, "enable", 0)
    /\ UNCHANGED <<wire, pc, open, state, pushes>>

(* <r/> is answered with the number of stanzas, enabled or not. *)
SendAck ==
    /\ pc = "loop"
    /\ SmElement(rx_buffer) = "<r"
    /\ SendRaw(1, sm_enabled, sm_outbound_count, sm_want_ack)
    /\ Unasked(1, sm_enabled, unasked)
    /\ Take(2, "r", sm_inbound_h)
    /\ UNCHANGED <<wire, pc, open, state, pushes, sm_enabled, sm_inbound_h>>

(* <a/> is read and nothing is made of its number. *)
TakeAck ==
    /\ pc = "loop"
    /\ SmElement(rx_buffer) = "<a"
    /\ Take(2, "a", 0)
    /\ UNCHANGED <<wire, pc, open, state, pushes, sm>>

(* parse_xml_stream finds a stanza, xmpp_route_stanza has it handled, which *)
(* sends this client some number of stanzas, and only then it is counted.  *)
(* The request for a session makes one; a namespace with "stream" in it    *)
(* has handle_handshake_logic put the connection back to STATE_BIND.  The  *)
(* pool of stanzas cannot run dry: one is in use at a time.                *)
Stanza ==
    /\ pc = "loop"
    /\ rx_buffer # <<>> /\ Head(rx_buffer) # " "
    /\ ~StreamEnds(rx_buffer)
    /\ SmElement(rx_buffer) = "none"
    /\ find_stanza_end(rx_buffer) > 0
    /\ \E k \in 0 .. MaxReplies :
           /\ SendRaw(k, sm_enabled, sm_outbound_count, sm_want_ack)
           /\ Unasked(k, sm_enabled, unasked)
    /\ sm_inbound_h' = IF sm_enabled THEN (sm_inbound_h + 1) % W ELSE sm_inbound_h
    /\ state' = CASE Head(rx_buffer) = "<session" -> "SESSION"
                  [] Head(rx_buffer) = "<restart" -> "BIND"
                  [] OTHER -> state
    /\ Take(find_stanza_end(rx_buffer), "stanza", 0)
    /\ UNCHANGED <<wire, pc, open, pushes, sm_enabled>>

(* Mutant: the callback returns after one element, whatever is left. *)
OneAtATime(buf) == TRUE

(* Nothing complete at the front: the rest waits for the next segment. *)
Nothing(buf) ==
    buf # <<>> => /\ Head(buf) # " "
                  /\ ~StreamEnds(buf)
                  /\ SmElement(buf) = "none"
                  /\ find_stanza_end(buf) = 0

(* Mutant: a tag of stream management that is cut short is tried again at  *)
(* once.                                                                   *)
ReturnUnlessCut ==
    /\ pc = "loop"
    /\ Nothing(rx_buffer)
    /\ rx_buffer # <<>> => Head(rx_buffer) \notin {"<enable", "<r", "<a"}
    /\ pc' = "idle"
    /\ UNCHANGED <<wire, taken, open, state, pushes, handled, sm>>

Return ==
    /\ pc = "loop"
    /\ Nothing(rx_buffer)
    /\ pc' = "idle"
    /\ UNCHANGED <<wire, taken, open, state, pushes, handled, sm>>

(* The main loop: the flag is cleared, then <r/> is sent and counted. *)
RequestAck ==
    /\ pc = "idle"
    /\ open /\ sm_want_ack
    /\ SendRaw(IF sm_enabled THEN 1 ELSE 0, sm_enabled, sm_outbound_count, FALSE)
    /\ unasked' = 0
    /\ UNCHANGED <<wire, taken, pc, open, state, pushes, handled, sm_enabled,
                   sm_inbound_h>>

(* The handler of another client's stanza sends this one something. *)
Push ==
    /\ pc = "idle"
    /\ open /\ state = "SESSION"
    /\ pushes < MaxPushes
    /\ pushes' = pushes + 1
    /\ SendRaw(1, sm_enabled, sm_outbound_count, sm_want_ack)
    /\ Unasked(1, sm_enabled, unasked)
    /\ UNCHANGED <<wire, taken, pc, open, state, handled, sm_enabled, sm_inbound_h>>

Receive == \E n \in 1 .. MaxRecord : Record(n) \/ Overflow(n)

Loop ==
    \/ SkipBlank \/ StreamEnd \/ Enable \/ SendAck \/ TakeAck \/ Stanza
    \/ Return

Next == Receive \/ EndOfSegment \/ Loop \/ RequestAck \/ Push

Spec == Init /\ [][Next]_vars

(* TCP delivers what was sent, a segment ends, the callback runs to its    *)
(* end, and the main loop comes round.                                     *)
FairSpec ==
    /\ Spec
    /\ WF_vars(Receive) /\ WF_vars(EndOfSegment)
    /\ WF_vars(Loop) /\ WF_vars(RequestAck)

----------------------------------------------------------------------------
(* The types of the variables. *)
TypeOK ==
    /\ script \in Scripts
    /\ arrived \in 0 .. Len(text)
    /\ taken \in 0 .. arrived
    /\ arrived - taken < RX_BUFFER
    /\ pc \in {"idle", "read", "loop"}
    /\ open \in BOOLEAN
    /\ state \in {"CONNECTED", "BIND", "SESSION"}
    /\ sm_enabled \in BOOLEAN /\ sm_want_ack \in BOOLEAN
    /\ sm_inbound_h \in 0 .. W - 1 /\ sm_outbound_count \in 0 .. W - 1
    /\ pushes \in 0 .. MaxPushes
    /\ handled \in Seq([to : 1 .. Len(text),
                        what : {"stanza", "enable", "r", "a"},
                        h : 0 .. W - 1])
    /\ unasked \in 0 .. SM_ACK_INTERVAL

(* What the text says.  Element i of the script ends at symbol Finish(i)   *)
(* and is sent as SentAs(i); it is sent in a session when a request for    *)
(* one comes before it, and after that no stanza that undoes it.           *)
Finish(i) == Len(FlattenSeq([k \in 1 .. i |-> Text[script[k]]]))

InSession(i) ==
    \E k \in 1 .. i - 1 : /\ script[k] = "session"
                          /\ \A m \in k + 1 .. i - 1 : script[m] # "restart"

SentAs(i) ==
    CASE script[i] \in {"enable", "longenable"} -> "enable"
      [] script[i] \in {"r", "longr"} -> "r"
      [] script[i] \in {"a", "longa"} -> "a"
      [] OTHER -> "stanza"

(* Stream management outside a session: the code takes it for a stanza. *)
Stray(i) == ~InSession(i) /\ SentAs(i) # "stanza"

Meant(i) == IF Stray(i) THEN "stanza" ELSE SentAs(i)

(* Stream management as a pair of tags in a session: the code takes the    *)
(* start tag for the whole of it.  Good are the elements before the first. *)
Paired(i) == script[i] \in {"longenable", "longr", "longa"} /\ InSession(i)
Good ==
    {i \in DOMAIN script : /\ script[i] \notin {"blank", "end"}
                           /\ \A k \in 1 .. i : ~Paired(k)}

(* How many of them are among the first i elements. *)
Rank(i) == Cardinality({k \in Good : k <= i})

(* Stanzas (stray elements of stream management among them) sent between   *)
(* the last <enable/> before element i and i.                              *)
SentSinceEnable(i) ==
    Cardinality({k \in Good :
                    /\ k < i /\ Meant(k) = "stanza"
                    /\ \E e \in 1 .. k : Meant(e) = "enable"
                    /\ \A e \in k .. i - 1 : Meant(e) # "enable"})

(* However TCP and TLS cut the text, the elements the callback handles are *)
(* those the client sent, in that order, each one whole, none twice, and   *)
(* each is taken for what it was sent as: the search for the end of a      *)
(* stanza and the consumption by stream management agree where one element *)
(* ends and the next begins (xmpp_server.c, while (ctx->rx_pos > 0)).  Two *)
(* exceptions: a stray element of stream management, sent before the       *)
(* session or after a namespace with "stream" in it undid the session, is  *)
(* framed as it was sent and taken for a stanza; and nothing is said from  *)
(* a pair of tags on, which the code splits.                               *)
FramesMatch ==
    \A i \in Good : Rank(i) <= Len(handled) =>
        /\ handled[Rank(i)].to = Finish(i)
        /\ handled[Rank(i)].what = Meant(i)

(* When the callback has returned no complete element is left in the       *)
(* buffer, where it would stay until the client sends more.                *)
NothingWaits ==
    pc = "idle" /\ open =>
        Len(handled) >= Cardinality({i \in Good : Finish(i) <= arrived})

(* The number in an <a/> is that of the stanzas the client sent from its   *)
(* last <enable/> to the <r/> that asks, modulo the width of the counter:  *)
(* what arrived in the same segment behind the <r/> is not in it           *)
(* (xmpp_sm_send_ack).  The exceptions are those of FramesMatch: a stray   *)
(* element counts as a stanza, though a client counts none of stream       *)
(* management, and a pair of tags ends what is said.                       *)
AckIsExact ==
    \A i \in Good : Rank(i) <= Len(handled) /\ handled[Rank(i)].what = "r" =>
        handled[Rank(i)].h = SentSinceEnable(i) % W

(* Once SM_ACK_INTERVAL stanzas went out since the last request, another   *)
(* one goes out, unless the connection closes: it is flagged also where    *)
(* the count wraps and where the stanza that makes it full is <enabled/>,  *)
(* <a/> or <r/> itself, and what is flagged is sent (README: "requesting   *)
(* acks every 10 stanzas").                                                *)
AskedInTime ==
    (unasked = SM_ACK_INTERVAL) ~> (unasked < SM_ACK_INTERVAL \/ ~open)

(* Every element a client sends is handled at last, unless its connection  *)
(* is closed: the loop never spins on a tag that is cut short.             *)
EveryElementHandled == <>[](open => Len(handled) >= Cardinality(Good))

----------------------------------------------------------------------------
(* The invariant that the safety properties rest on.                       *)

(* The callback is between elements c and c + 1 of the script: it has      *)
(* handled the first c and has not met the end of the stream or a pair of  *)
(* tags of stream management.                                              *)
InStep(c) ==
    /\ taken = Finish(c)
    /\ \A k \in 1 .. c : script[k] # "end" /\ ~Paired(k)
    /\ Len(handled) = Rank(c)
    /\ state = IF InSession(c + 1) THEN "SESSION" ELSE "BIND"
    /\ sm_enabled = (\E k \in 1 .. c : Meant(k) = "enable")
    /\ sm_inbound_h = SentSinceEnable(c + 1) % W

(* And when it has returned, element c + 1 is not there as a whole; or the *)
(* stream has ended; or a pair of tags of stream management was met, from  *)
(* which on nothing is said.                                               *)
InStepOrOver ==
    \/ \E c \in 0 .. Len(script) :
          /\ InStep(c)
          /\ pc = "idle" /\ open /\ c < Len(script) => arrived < Finish(c + 1)
    \/ pc = "idle" /\ ~open
    \/ Len(handled) > Cardinality(Good)

(* As long as no request is due, the sends since the last one are less     *)
(* than an interval.                                                       *)
DueIsFlagged == sm_want_ack \/ unasked <= sm_outbound_count % SM_ACK_INTERVAL

IInv ==
    /\ TypeOK
    /\ text = FlattenSeq([i \in DOMAIN script |-> Text[script[i]]])
    /\ InStepOrOver
    /\ FramesMatch
    /\ AckIsExact
    /\ DueIsFlagged

=============================================================================

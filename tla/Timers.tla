------------------------------- MODULE Timers -------------------------------
(***************************************************************************)
(* The clock of src/src/net/lwip_glue.c and the timers of lwIP that the    *)
(* main loop of src/src/kernel.c runs with sys_check_timeouts.             *)
(*                                                                         *)
(* sys_now divides the low half of the time stamp counter by the cycles of *)
(* a millisecond: it starts again from 0 whenever that half overflows, and *)
(* so takes far fewer values than the u32_t that lwIP computes due times   *)
(* with.  lwIP allows for the overflow of the u32_t only.                  *)
(*                                                                         *)
(* The model is kind to the code: the main loop is never late, an expired  *)
(* timer runs before the clock moves on.                                   *)
(***************************************************************************)
EXTENDS Naturals

CONSTANTS
    Wrap,             \* values of sys_now: 2^32 cycles at 2000000 a millisecond
    U32,              \* values of a u32_t
    TCP_TMR_INTERVAL,
    Cyclic,           \* lwip_cyclic_timers that always run: ARP, IP reassembly
    IntervalOf(_)     \* their intervals

Tcp == "tcp"
Timers == Cyclic \cup {Tcp}
Off == U32

VARIABLES
    now,   \* sys_now()
    due,   \* when a timer is due; Off: it is not in the list of timeouts
    pcbs,  \* tcp_active_pcbs or tcp_tw_pcbs is not empty
    ran    \* history: the timers that have run at this value of the clock

vars == <<now, due, pcbs, ran>>

(* lwIP: t is before c, if they are less than half the u32_t apart. *)
TIME_LESS_THAN(t, c) == (t + U32 - c) % U32 >= U32 \div 2

(* sys_timeouts_init, at the clock value n. *)
Init ==
    /\ now \in 0 .. Wrap - 1
    /\ due = [t \in Timers |-> IF t = Tcp THEN Off ELSE now + IntervalOf(t)]
    /\ pcbs = FALSE
    /\ ran = {}

Active == {t \in Timers : due[t] # Off}

(* The head of the list of timeouts has expired. *)
Expired(t) ==
    /\ t \in Active
    /\ \A s \in Active : ~TIME_LESS_THAN(due[s], due[t])
    /\ ~TIME_LESS_THAN(now, due[t])

(* A millisecond of the counter. *)
Tick ==
    /\ \A t \in Timers : ~Expired(t)
    /\ now' = (now + 1) % Wrap
    /\ ran' = {}
    /\ UNCHANGED <<due, pcbs>>

(* sys_timeout: due msecs from now. *)
sys_timeout(msecs) == (now + msecs) % U32

(* A cyclic timer runs, and is due one interval after it was due. *)
lwip_cyclic_timer(t) ==
    LET next == (due[t] + IntervalOf(t)) % U32 IN
    /\ Expired(t)
    /\ due' = [due EXCEPT ![t] = IF TIME_LESS_THAN(next, now)
                                 THEN sys_timeout(IntervalOf(t)) ELSE next]
    /\ ran' = ran \cup {t}
    /\ UNCHANGED <<now, pcbs>>

(* The TCP timer runs, and again if there are connections. *)
tcpip_tcp_timer ==
    /\ Expired(Tcp)
    /\ due' = [due EXCEPT ![Tcp] = IF pcbs THEN sys_timeout(TCP_TMR_INTERVAL) ELSE Off]
    /\ ran' = ran \cup {Tcp}
    /\ UNCHANGED <<now, pcbs>>

(* The first connection starts the TCP timer, unless it is still active. *)
tcp_timer_needed ==
    /\ ~pcbs
    /\ pcbs' = TRUE
    /\ due' = [due EXCEPT ![Tcp] = IF @ = Off THEN sys_timeout(TCP_TMR_INTERVAL) ELSE @]
    /\ UNCHANGED <<now, ran>>

(* The last connection goes. *)
NoPcbs ==
    /\ pcbs
    /\ pcbs' = FALSE
    /\ UNCHANGED <<now, due, ran>>

Next ==
    \/ Tick
    \/ \E t \in Cyclic : lwip_cyclic_timer(t)
    \/ tcpip_tcp_timer
    \/ tcp_timer_needed
    \/ NoPcbs

(* Time goes on, and the main loop runs the timers that have expired. *)
FairSpec ==
    /\ Init /\ [][Next]_vars
    /\ WF_vars(Tick)
    /\ \A t \in Cyclic : WF_vars(lwip_cyclic_timer(t))
    /\ WF_vars(tcpip_tcp_timer)

(* "the loop ... runs the lwIP timers" (README.md:11): as long as there    *)
(* are connections, the TCP timer, which retransmits and acknowledges,     *)
(* runs again and again.                                                   *)
TcpTimerRuns == pcbs ~> (Tcp \in ran \/ ~pcbs)
=============================================================================

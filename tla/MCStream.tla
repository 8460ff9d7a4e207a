------------------------------ MODULE MCStream ------------------------------
(* Scripts for Stream: each element before a session; two of any kind in   *)
(* one, and two of most between <enable/> and <r/>; and three long ones:   *)
(* two make both counters wrap and one loses its session between two       *)
(* requests and makes another.                                             *)
EXTENDS Stream

Exactly(n, E) == [1 .. n -> E]

MCScripts ==
    {<<"session">> \o s : s \in UNION {Exactly(n, Elements) : n \in 0 .. 2}}
        \cup {<<"session", "enable">> \o s \o <<"r", "empty">> :
                  s \in Exactly(2, Elements \ {"decl", "longenable", "longa", "end"})}
        \cup {s \o <<"session", "r">> : s \in Exactly(1, Elements)}
        \cup {<<"session", "enable", "empty", "empty", "blank", "empty", "decl",
                "empty", "r", "enable", "empty", "r", "end">>,
              <<"session", "enable", "a", "message", "r", "message", "empty",
                "session", "r", "longr", "message">>,
              <<"session", "enable", "restart", "r", "longa", "session", "r",
                "longenable", "empty">>}
=============================================================================

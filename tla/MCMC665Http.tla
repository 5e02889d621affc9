---------------------------- MODULE MCMC665Http -----------------------------
(* MC665Http for TLC: an update task and another reader. *)
EXTENDS MC665Http

CONSTANTS ota, reader

\* The update task opens sessions and reads; the other one reads or sets a
\* parameter.
UpdateAndReader == [c \in Callers |-> IF c = ota THEN {"session", "read"}
                                                ELSE {"read", "set_param"}]

TwoAndOne == [c \in Callers |-> IF c = ota THEN 2 ELSE 1]

ShortAndLong == [c \in Callers |-> IF c = ota THEN {1, 2} ELSE {1}]
Packets == [c \in Callers |-> {100, 512}]

OnlyReads == [c \in Callers |-> {"read"}]

ASSUME OneTask == OneSessionTask
=============================================================================

---------------------------- MODULE MCMC665Mqtt -----------------------------
(* MC665Mqtt for TLC: the application, and callbacks that call the service. *)
EXTENDS MC665Mqtt

AppAndCallback == [c \in Callers |-> IF c = Starter THEN {"open", "delete"}
                                                    ELSE {"pub"}]
TwoAndOne == [c \in Callers |-> IF c = Starter THEN 2 ELSE 1]

ASSUME OneTask == OneTaskPerRequest
=============================================================================

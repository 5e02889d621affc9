--------------------------- MODULE MCMC665Commands ---------------------------
(* Values for the constants of MC665Commands. *)
EXTENDS MC665Commands

AnyAnswer == [n \in {0, 2} |-> {<<>>, <<"data", "ok">>, <<"error">>, <<"cme">>,
                                <<"ok">>, <<"prompt">>, <<"ok", "data">>}]
DataAccepted == {<<>>, <<"ok">>, <<"error">>}
First == CHOOSE u \in Tasks : TRUE

\* One task publishes and asks for an address, twice; the other one publishes as
\* well, sends one command or three, or looks for the modem.
Shared == [t \in Tasks |-> IF t = First THEN {"publish", "request_ip"}
                           ELSE {"publish", "simple", "open", "detect"}]
TwoAndOne == [t \in Tasks |-> IF t = First THEN 2 ELSE 1]
OneForAll == [t \in Tasks |-> First]

\* The run is of the system that every theorem of MC665CommandsProofs speaks of.
ASSUME Hypotheses == NoHandler /\ PromptModem
=============================================================================

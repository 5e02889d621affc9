----------------------------- MODULE MCATClient -----------------------------
(* Values for the constants of ATClient.  The answers are those the commands
   of mc665.c and mc665_mqtt.c get: an optional information line and a final
   OK or ERROR, or as many lines as the caller set with at_resp_set_info. *)
EXTENDS ATClientService, TLC

Symmetry == Permutations(Tasks)

\* Each task has a response object of its own.
OneEach == [t \in Tasks |-> t]

\* Data without a prompt get no answer.
NoAnswer == {<<>>}

\* Answers that follow the protocol: what a caller with line_num n expects, an
\* error, or nothing at all.
ProtocolAnswers ==
  [n \in {0, 2} |->
     IF n = 0 THEN {<<>>, <<"ok">>, <<"data", "ok">>, <<"long", "ok">>,
                    <<"data", "error">>}
              ELSE {<<>>, <<"ok", "data">>, <<"error">>}]

\* One answer of each result.
PlainAnswers == [n \in {0} |-> {<<"ok">>, <<"data", "ok">>, <<"error">>}]

\* With a modem that may prompt for data, answer late or not at all.
PromptAnswers == [n \in {0} |-> {<<>>, <<"data", "ok">>, <<"prompt">>, <<"error">>}]
=============================================================================

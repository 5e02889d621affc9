------------------------------ MODULE ATService ------------------------------
(***************************************************************************)
(* What at_obj_exec_cmd promises the tasks that call it, without a parser, *)
(* a semaphore, a shared pointer or a buffer: commands are on their way    *)
(* one at a time, and each caller gets the modem's answer to its own       *)
(* command, whole and in order, with the result that answer calls for.     *)
(* ATClientService shows that ATClient implements it.                      *)
(***************************************************************************)
EXTENDS Sequences

CONSTANTS
  Tasks,       \* the callers
  None,        \* nobody
  Answer,      \* the answers a modem may give: sequences of lines
  IsReply(_),  \* a line of an answer, as opposed to an unsolicited one
  TooLong(_)   \* an answer that does not fit the caller's response

VARIABLES
  owner,   \* the task whose command is on its way
  answer,  \* the modem's answer to it, << >> if there was none so far
  result,  \* what the last call of a task returned, "none" during a call
  reply    \* the lines it got

vars == <<owner, answer, result, reply>>

\* What is left of an answer that is too long; its result is the same.
Cut == <<"cut">>

Init ==
  /\ owner = None /\ answer = <<>>
  /\ result = [t \in Tasks |-> "none"]
  /\ reply = [t \in Tasks |-> <<>>]

Has(a, k) == \E i \in DOMAIN a : a[i] = k

\* The result an answer calls for.
Verdict(a) == CASE Has(a, "error") -> "error"
                [] ~Has(a, "error") /\ Has(a, "ok") -> "ok"
                [] OTHER -> "timeout"

Call(t) ==
  /\ owner # t
  /\ result' = [result EXCEPT ![t] = "none"]
  /\ reply' = [reply EXCEPT ![t] = <<>>]
  /\ UNCHANGED <<owner, answer>>

Send(t) ==
  /\ owner = None /\ result[t] = "none"
  /\ owner' = t /\ answer' = <<>>
  /\ UNCHANGED <<result, reply>>

\* The modem answers, once.
Reply ==
  /\ owner # None /\ answer = <<>>
  /\ answer' \in Answer
  /\ UNCHANGED <<owner, result, reply>>

Return(t) ==
  /\ owner = t
  /\ owner' = None /\ answer' = <<>>
  /\ result' = [result EXCEPT ![t] = Verdict(answer)]
  /\ reply' = [reply EXCEPT ![t] = IF TooLong(answer) THEN Cut
                                     ELSE SelectSeq(answer, IsReply)]

Next == Reply \/ \E t \in Tasks : Call(t) \/ Send(t) \/ Return(t)

Spec == Init /\ [][Next]_vars

=============================================================================

--------------------------- MODULE ATClientService ---------------------------
(***************************************************************************)
(* ATClient implements ATService, as long as answers come before timeouts  *)
(* (Prompt) and no handler of a URC sends: a command is on its way from    *)
(* its com_write until the call gives the mutex back, although in between  *)
(* the parser, which holds no mutex, fills and takes the response.         *)
(***************************************************************************)
EXTENDS ATClient

\* What the proofs assume, and TLC's run has.  Timeouts are longer than any
\* answer takes, callers have response objects of their own, and nobody sends
\* what is answered to nobody: no raw data, no command without a response, no
\* command of a URC handler.  The modem answers with reply lines, the final one
\* (an error, or OK where the caller counts no lines) last, and with no more
\* lines than the caller counts.
ReliableModem ==
  /\ Prompt /\ Calls \subseteq {"exec", "wait_connect", "set_end_sign"}
  /\ "msgi" \notin Urcs
  /\ \A t, u \in Tasks : RespUsed[t] = RespUsed[u] => t = u
  /\ \A n \in LineNums : \A a \in Answers[n] :
       /\ a \in Seq(ReplyKinds \ {"prompt"}) /\ Reply(a) = a
       /\ \A i \in DOMAIN a :
            a[i] = "error" \/ (n = 0 /\ a[i] = "ok") => i = Len(a)
       /\ n # 0 => Len(a) <= n

\* Moreover an answer has fewer lines than the response has room for, and one
\* that is counted is short and, if it says OK, has all its lines: else the
\* client waits for a line that does not come, or drops one it should count.
FittingAnswers ==
  \A n \in LineNums : \A a \in Answers[n] :
    /\ Len(a) < BufSize
    /\ n # 0 => ~Has(a, "long")
    /\ n # 0 /\ ~Has(a, "error") => (Has(a, "ok") <=> Len(a) = n)

\* The task whose command is on its way.
OnItsWay == {t \in Tasks : call[t] = "exec" /\ pc[t] \in {"wait", "check", "finish"}}
Owner == IF OnItsWay = {} THEN None ELSE CHOOSE t \in OnItsWay : TRUE

OwnAnswer ==
  IF Owner # None /\ cmd[Owner] \in DOMAIN given THEN given[cmd[Owner]] ELSE <<>>

Done(t) == pc[t] = "idle" /\ call[t] = "exec"

KindsOf(lines) == [i \in DOMAIN lines |-> lines[i].kind]

\* What a caller finds in its response.
Delivered(t) ==
  IF resp[Own(t)].full THEN <<"cut">> ELSE KindsOf(resp[Own(t)].lines)

\* What the calls returned, and the lines they got.
Outcomes == [t \in Tasks |-> IF Done(t) THEN result[t] ELSE "none"]
Replies == [t \in Tasks |-> IF Done(t) THEN Delivered(t) ELSE <<>>]

Service == INSTANCE ATService WITH
  Answer  <- UNION {Answers[n] : n \in LineNums},
  IsReply <- LAMBDA k : k \in ReplyKinds,
  TooLong <- LAMBDA a : Has(a, "long"),
  owner   <- Owner,
  answer  <- OwnAnswer,
  result  <- Outcomes,
  reply   <- Replies

\* Every command that at_obj_exec_cmd sends is a command of the service: one at
\* a time, answered with the modem's own lines and the result they call for.
ImplementsService == Service!Spec

=============================================================================

------------------------------ MODULE ATClient ------------------------------
(***************************************************************************)
(* The AT client of components/at_client/at_client.c: tasks that send      *)
(* commands through a mutex-protected client object, and the one parser    *)
(* thread that reads lines from the UART and, WITHOUT taking the mutex,    *)
(* fills the response object of the waiting task and wakes it.             *)
(*                                                                         *)
(* A step is one access, or one uninterrupted group of accesses, to the    *)
(* state both sides share: client->resp, client->resp_status, the binary   *)
(* semaphore resp_notice and the response object.  The tasks and the       *)
(* parser run on two cores (sdkconfig: FREERTOS_UNICORE is not set), so    *)
(* every interleaving of these steps is possible.                          *)
(*                                                                         *)
(* Lines are abstracted to the kinds the parser tells apart.  `from' in a  *)
(* line and the variables cmd and given are history: they name the command *)
(* a line answers and never influence a step of the code.                  *)
(***************************************************************************)
EXTENDS Naturals, Sequences

CONSTANTS
  Tasks,     \* the tasks that call the client
  Parser,    \* the parser thread, as a holder of client->lock
  None,      \* RT_NULL; also "nobody" for the mutex
  Calls,     \* the API functions the tasks use
  LineNums,  \* the values of resp->line_num in use
  Answers,   \* Answers[n]: the answers a modem may give to a command whose
             \* caller set line_num = n; <<>> is "no answer"
  DataAnswers, \* the answers it may give to data that follow a prompt
  RespUsed,  \* RespUsed[t]: the task whose response object t's commands use
  Urcs,      \* the unsolicited lines the modem may send
  BufSize,   \* resp->buf_size, in units of one ordinary line
  MaxCalls,  \* bound: calls per task
  MaxTries,  \* "AT" probes before wait_connect's overall timeout has passed
  MaxUrcs,   \* bound: unsolicited lines
  Prompt     \* TRUE: a timeout is longer than any answer takes

CallKinds == {"exec", "exec_null", "wait_connect", "send", "set_end_sign"}

\* Lines that belong to answers.  "long" is a data line that does not fit the
\* response buffer, "prompt" a '>' without a line end, "payload" the fixed
\* length data that answers AT+MQTTREAD.
ReplyKinds == {"data", "long", "ok", "error", "prompt", "payload"}

\* Lines that match an entry of the URC table: a plain notification, the
\* "+CME ERROR:" entry of mc665.c, and "+MQTTMSGI:", whose handler talks to
\* the modem.
UrcKinds == {"urc", "cme", "msgi"}

Kinds == ReplyKinds \cup UrcKinds

ASSUME ConstantsOK ==
  /\ None \notin Tasks /\ Parser \notin Tasks /\ Parser # None
  /\ Calls \subseteq CallKinds
  /\ LineNums \subseteq Nat /\ 0 \in LineNums
  /\ Answers \in [LineNums -> SUBSET Seq(Kinds)]
  /\ DataAnswers \subseteq Seq(Kinds)
  /\ RespUsed \in [Tasks -> Tasks]
  /\ Urcs \subseteq UrcKinds
  /\ {BufSize, MaxCalls, MaxTries, MaxUrcs} \subseteq Nat
  /\ Prompt \in BOOLEAN

VARIABLES
  lock,        \* client->lock: its holder
  clientResp,  \* client->resp
  respStatus,  \* client->resp_status
  sem,         \* client->resp_notice, a binary semaphore
  endSign,     \* client->end_sign # 0
  resp,        \* the response objects
  live,        \* those wait_connect has created and not yet deleted
  pc, call, tries, result, calls,  \* the tasks
  ppc, pline, presp, partial,      \* the parser; presp is its local `resp'
  tx, rx, nurc,                    \* the serial line and the modem
  cmd, given                       \* history

taskVars == <<pc, call, tries, result, calls>>
parserVars == <<ppc, pline, presp, partial>>
vars == <<lock, clientResp, respStatus, sem, endSign, resp, live, taskVars,
          parserVars, tx, rx, nurc, cmd, given>>

-----------------------------------------------------------------------------
(* Values *)

\* A task's exec calls reuse one response object, which tasks may share;
\* wait_connect allocates its own with at_create_resp.
Own(t) == <<RespUsed[t], "own">>
Tmp(t) == <<t, "tmp">>
Objects == Tasks \X {"own", "tmp"}

ASSUME ObjectsOK == None \notin Objects

\* The response object a call in progress passes to the client.
RespOf(t) == CASE call[t] = "exec"         -> Own(t)
               [] call[t] = "wait_connect" -> Tmp(t)
               [] OTHER                    -> None

Lines == [kind : Kinds, from : Nat]
NoLine == [kind |-> "data", from |-> 0]

\* struct at_response: Len(lines) is line_counts, len is buf_len; `full'
\* records that a line was dropped.
EmptyResp == [lines |-> <<>>, len |-> 0, line_num |-> 0, full |-> FALSE]
Cleared(r) == [EmptyResp EXCEPT !.line_num = r.line_num]

Size(k) == IF k = "long" THEN BufSize ELSE 1

\* What a line counts as when a '>' that ended no line precedes it in the
\* line buffer: only strstr(line, "ERROR") still recognises it.
Glue(l) == IF partial /\ l.kind \notin {"error", "prompt", "long"}
           THEN [l EXCEPT !.kind = "data"] ELSE l

-----------------------------------------------------------------------------
Init ==
  /\ lock = None /\ clientResp = None /\ respStatus = "ok" /\ sem = 0
  /\ endSign = FALSE
  /\ resp = [o \in Objects |-> EmptyResp]
  /\ live = {}
  /\ pc = [t \in Tasks |-> "idle"]
  /\ call = [t \in Tasks |-> "none"]
  /\ tries = [t \in Tasks |-> 0]
  /\ result = [t \in Tasks |-> "none"]
  /\ calls = [t \in Tasks |-> 0]
  /\ ppc = "read" /\ pline = NoLine /\ presp = None /\ partial = FALSE
  /\ tx = <<>> /\ rx = <<>> /\ nurc = 0
  /\ cmd = [t \in Tasks |-> 0]
  /\ given = <<>>

-----------------------------------------------------------------------------
(* The tasks.  A call first waits for client->lock. *)

Goto(t, label) == pc' = [pc EXCEPT ![t] = label]
Return(t, label, r) == Goto(t, label) /\ result' = [result EXCEPT ![t] = r]

Begin(t, k) ==
  /\ pc[t] = "idle" /\ calls[t] < MaxCalls /\ k \in Calls
  /\ Return(t, "lock", "none")
  /\ call' = [call EXCEPT ![t] = k]
  /\ calls' = [calls EXCEPT ![t] = @ + 1]
  /\ tries' = [tries EXCEPT ![t] = 0]
  /\ UNCHANGED <<lock, clientResp, respStatus, sem, endSign, parserVars, tx,
                 rx, nurc, cmd, given>>

\* at_obj_exec_cmd with a response object that at_resp_set_info gave line_num n.
CallExec(t, n) ==
  /\ Begin(t, "exec")
  /\ resp' = [resp EXCEPT ![Own(t)].line_num = n]
  /\ UNCHANGED live

CallExecNull(t) == Begin(t, "exec_null") /\ UNCHANGED <<resp, live>>

\* at_client_obj_wait_connect creates its response object before it locks.
CallWaitConnect(t) ==
  /\ Begin(t, "wait_connect")
  /\ resp' = [resp EXCEPT ![Tmp(t)] = EmptyResp]
  /\ live' = live \cup {Tmp(t)}

CallSend(t) == Begin(t, "send") /\ UNCHANGED <<resp, live>>

\* at_obj_set_end_sign takes no lock.
SetEndSign(t, b) ==
  /\ pc[t] = "idle" /\ endSign # b /\ calls[t] < MaxCalls
  /\ "set_end_sign" \in Calls
  /\ endSign' = b
  /\ calls' = [calls EXCEPT ![t] = @ + 1]
  /\ UNCHANGED <<lock, clientResp, respStatus, sem, resp, live, pc, call, tries,
                 result, parserVars, tx, rx, nurc, cmd, given>>

TakeLock(t) ==
  /\ pc[t] = "lock" /\ lock = None
  /\ lock' = t
  /\ Goto(t, IF call[t] = "send" THEN "write" ELSE "prepare")
  /\ UNCHANGED <<clientResp, respStatus, sem, endSign, resp, live, call,
                 tries, result, calls, parserVars, tx, rx, nurc, cmd, given>>

\* Mutant: the previous response is not cleared.
ExecPrepareKeepsLines(t) ==
  /\ pc[t] = "prepare" /\ call[t] \in {"exec", "exec_null"}
  /\ respStatus' = "ok"
  /\ clientResp' = RespOf(t)
  /\ Goto(t, "reset")
  /\ UNCHANGED <<lock, sem, endSign, resp, live, call, tries, result, calls,
                 parserVars, tx, rx, nurc, cmd, given>>

ExecPrepare(t) ==
  /\ pc[t] = "prepare" /\ call[t] \in {"exec", "exec_null"}
  /\ respStatus' = "ok"
  /\ resp' = IF call[t] = "exec"
             THEN [resp EXCEPT ![Own(t)] = Cleared(@)] ELSE resp
  /\ clientResp' = RespOf(t)
  /\ Goto(t, "reset")
  /\ UNCHANGED <<lock, sem, endSign, live, call, tries, result, calls,
                 parserVars, tx, rx, nurc, cmd, given>>

\* wait_connect neither resets resp_status nor, here, the fresh response.
ConnectPrepare(t) ==
  /\ pc[t] = "prepare" /\ call[t] = "wait_connect"
  /\ clientResp' = RespOf(t)
  /\ Goto(t, "reset")
  /\ UNCHANGED <<lock, respStatus, sem, endSign, resp, live, call, tries,
                 result, calls, parserVars, tx, rx, nurc, cmd, given>>

\* rt_sem_control(RT_IPC_CMD_RESET), after client->resp has been set.
ResetSem(t) ==
  /\ pc[t] = "reset"
  /\ sem' = 0
  /\ Goto(t, "write")
  /\ UNCHANGED <<lock, clientResp, respStatus, endSign, resp, live, call,
                 tries, result, calls, parserVars, tx, rx, nurc, cmd, given>>

\* com_write of a command, of raw data, or of "AT+MQTTREAD".  The history
\* numbers everything written: item i of tx has number Len(given) + i.
Put(type, n) == tx' = Append(tx, [type |-> type, line_num |-> n])
NextNumber == Len(given) + Len(tx) + 1

ExecWrite(t) ==
  /\ pc[t] = "write" /\ call[t] \in {"exec", "exec_null"}
  /\ Put("cmd", IF call[t] = "exec" THEN resp[Own(t)].line_num ELSE 0)
  /\ cmd' = [cmd EXCEPT ![t] = NextNumber]
  /\ IF call[t] = "exec" THEN Goto(t, "wait") /\ UNCHANGED result
                         ELSE Return(t, "finish", "ok")
  /\ UNCHANGED <<lock, clientResp, respStatus, sem, endSign, resp, live, call,
                 tries, calls, parserVars, rx, nurc, given>>

\* One turn of wait_connect's loop: give up, or clear the response and probe.
ConnectGiveUp(t) ==
  /\ pc[t] = "write" /\ call[t] = "wait_connect" /\ tries[t] = MaxTries
  /\ Return(t, "delete", "timeout")
  /\ UNCHANGED <<lock, clientResp, respStatus, sem, endSign, resp, live, call,
                 tries, calls, parserVars, tx, rx, nurc, cmd, given>>

ConnectProbe(t) ==
  /\ pc[t] = "write" /\ call[t] = "wait_connect" /\ tries[t] < MaxTries
  /\ resp' = [resp EXCEPT ![Tmp(t)] = Cleared(@)]
  /\ Put("cmd", 0)
  /\ cmd' = [cmd EXCEPT ![t] = NextNumber]
  /\ tries' = [tries EXCEPT ![t] = @ + 1]
  /\ Goto(t, "wait")
  /\ UNCHANGED <<lock, clientResp, respStatus, sem, endSign, live, call,
                 result, calls, parserVars, rx, nurc, given>>

\* at_client_obj_send: write and release the mutex.
SendWrite(t) ==
  /\ pc[t] = "write" /\ call[t] = "send"
  /\ Put("data", 0)
  /\ lock' = None
  /\ Return(t, "idle", "ok")
  /\ UNCHANGED <<clientResp, respStatus, sem, endSign, resp, live, call, tries,
                 calls, parserVars, rx, nurc, cmd, given>>

\* rt_sem_take succeeds.
Woken(t) ==
  /\ pc[t] = "wait" /\ sem = 1
  /\ sem' = 0
  /\ IF call[t] = "exec" THEN Goto(t, "check") /\ UNCHANGED result
                         ELSE Return(t, "delete", "ok")
  /\ UNCHANGED <<lock, clientResp, respStatus, endSign, resp, live, call, tries,
                 calls, parserVars, tx, rx, nurc, cmd, given>>

\* Neither the modem nor the parser can take a step of its own accord.
Quiet ==
  /\ tx = <<>>
  /\ (ppc = "read" /\ rx = <<>>) \/ (ppc = "handler_lock" /\ lock # None)
MayTimeOut == Prompt => Quiet

\* Mutant: exec waits for ever.
OnlyProbesTimeOut(t) ==
  /\ pc[t] = "wait" /\ sem = 0 /\ MayTimeOut /\ call[t] # "exec"
  /\ Goto(t, "write")
  /\ UNCHANGED <<lock, clientResp, respStatus, sem, endSign, resp, live, call,
                 tries, result, calls, parserVars, tx, rx, nurc, cmd, given>>

\* Mutant: a timeout returns at once, with the mutex taken.
TimedOutKeepsLock(t) ==
  /\ pc[t] = "wait" /\ sem = 0 /\ MayTimeOut
  /\ IF call[t] = "exec"
     THEN respStatus' = "timeout" /\ Return(t, "idle", "timeout")
     ELSE Goto(t, "write") /\ UNCHANGED <<respStatus, result>>
  /\ UNCHANGED <<lock, clientResp, sem, endSign, resp, live, call, tries, calls,
                 parserVars, tx, rx, nurc, cmd, given>>

\* rt_sem_take times out.
TimedOut(t) ==
  /\ pc[t] = "wait" /\ sem = 0 /\ MayTimeOut
  /\ IF call[t] = "exec"
     THEN respStatus' = "timeout" /\ Return(t, "finish", "timeout")
     ELSE Goto(t, "write") /\ UNCHANGED <<respStatus, result>>
  /\ UNCHANGED <<lock, clientResp, sem, endSign, resp, live, call, tries, calls,
                 parserVars, tx, rx, nurc, cmd, given>>

\* Mutant: the status is not looked at.
CheckNothing(t) ==
  /\ pc[t] = "check"
  /\ Return(t, "finish", "ok")
  /\ UNCHANGED <<lock, clientResp, respStatus, sem, endSign, resp, live, call,
                 tries, calls, parserVars, tx, rx, nurc, cmd, given>>

CheckStatus(t) ==
  /\ pc[t] = "check"
  /\ Return(t, "finish", IF respStatus = "ok" THEN "ok" ELSE "error")
  /\ UNCHANGED <<lock, clientResp, respStatus, sem, endSign, resp, live, call,
                 tries, calls, parserVars, tx, rx, nurc, cmd, given>>

\* wait_connect deletes its response before it clears client->resp.
DeleteResp(t) ==
  /\ pc[t] = "delete"
  /\ live' = live \ {Tmp(t)}
  /\ Goto(t, "finish")
  /\ UNCHANGED <<lock, clientResp, respStatus, sem, endSign, resp, call, tries,
                 result, calls, parserVars, tx, rx, nurc, cmd, given>>

\* Mutant: the mutex is released with client->resp still set.
FinishKeepsResp(t) ==
  /\ pc[t] = "finish"
  /\ lock' = None
  /\ Goto(t, "idle")
  /\ UNCHANGED <<clientResp, respStatus, sem, endSign, resp, live, call, tries,
                 result, calls, parserVars, tx, rx, nurc, cmd, given>>

Finish(t) ==
  /\ pc[t] = "finish"
  /\ clientResp' = None
  /\ lock' = None
  /\ Goto(t, "idle")
  /\ UNCHANGED <<respStatus, sem, endSign, resp, live, call, tries, result,
                 calls, parserVars, tx, rx, nurc, cmd, given>>

CallStep(t) == \/ TakeLock(t) \/ ExecPrepare(t) \/ ConnectPrepare(t)
               \/ ResetSem(t) \/ ExecWrite(t) \/ ConnectGiveUp(t)
               \/ ConnectProbe(t) \/ SendWrite(t) \/ Woken(t) \/ TimedOut(t)
               \/ CheckStatus(t) \/ DeleteResp(t) \/ Finish(t)

TaskStep(t) == \/ \E n \in LineNums : CallExec(t, n)
               \/ CallExecNull(t) \/ CallWaitConnect(t) \/ CallSend(t)
               \/ \E b \in BOOLEAN : SetEndSign(t, b)
               \/ CallStep(t)

-----------------------------------------------------------------------------
(* The parser thread: at_recv_readline, get_urc_obj and client_parser.  The
   test of client->resp and the copy of it are one load: sdkconfig builds with
   COMPILER_OPTIMIZATION_SIZE and nothing is stored in between. *)

clientVars == <<lock, clientResp, respStatus, sem, endSign, resp, live>>

\* The next line the parser sees, once partial text is prepended.
Incoming == Glue(Head(rx))
EndsLine == Head(rx).kind # "prompt" \/ endSign

Receive == rx # <<>> /\ ppc = "read" /\ rx' = Tail(rx)

\* A '>' is a line of its own only while it is the end sign.
ReadPartial ==
  /\ Receive /\ ~EndsLine
  /\ partial' = TRUE
  /\ UNCHANGED <<clientVars, taskVars, ppc, pline, presp, tx, nurc, cmd, given>>

\* A registered URC runs its handler in the parser thread; the +MQTTMSGI one
\* sends a command itself, unless the message is too long for its buffer.
ReadUrc ==
  /\ Receive /\ EndsLine /\ Incoming.kind \in UrcKinds
  /\ partial' = FALSE
  /\ ppc' \in IF Incoming.kind = "msgi" THEN {"handler_lock", "read"} ELSE {"read"}
  /\ UNCHANGED <<clientVars, taskVars, pline, presp, tx, nurc, cmd, given>>

ReadUnrecognized ==
  /\ Receive /\ EndsLine /\ Incoming.kind \notin UrcKinds /\ clientResp = None
  /\ partial' = FALSE
  /\ UNCHANGED <<clientVars, taskVars, ppc, pline, presp, tx, nurc, cmd, given>>

ReadResponse ==
  /\ Receive /\ EndsLine /\ Incoming.kind \notin UrcKinds /\ clientResp # None
  /\ partial' = FALSE
  /\ pline' = Incoming /\ presp' = clientResp
  /\ ppc' = "store"
  /\ UNCHANGED <<clientVars, taskVars, tx, nurc, cmd, given>>

\* The tests that end a response.
EndsError(k) == k = "error"
EndsOk(k, r) ==
  /\ ~EndsError(k)
  /\ \/ r.line_num = 0 /\ (k = "ok" \/ (k = "prompt" /\ endSign))
     \/ r.line_num # 0 /\ Len(r.lines) = r.line_num

Fits(r, l) == r.len + Size(l.kind) < BufSize
Stored(r, l) ==
  IF Fits(r, l)
  THEN [r EXCEPT !.lines = Append(@, l), !.len = @ + Size(l.kind)]
  ELSE [r EXCEPT !.full = TRUE]

\* Copy the line, then decide whether it ends the response.  A status set for
\* a line that did not fit stays only until a line ends the response.
StoreLine ==
  LET r == Stored(resp[presp], pline)
      k == pline.kind
  IN  /\ ppc = "store"
      /\ resp' = [resp EXCEPT ![presp] = r]
      /\ \/ EndsError(k) /\ respStatus' = "error" /\ ppc' = "clear"
         \/ EndsOk(k, r) /\ respStatus' = "ok" /\ ppc' = "clear"
         \/ /\ ~EndsError(k) /\ ~EndsOk(k, r) /\ ppc' = "read"
            /\ respStatus' = IF Fits(resp[presp], pline) THEN respStatus
                                                         ELSE "full"
      /\ pline' = NoLine /\ presp' = None
      /\ UNCHANGED <<lock, clientResp, sem, endSign, live, taskVars, partial,
                     tx, rx, nurc, cmd, given>>

ClearResp ==
  /\ ppc = "clear"
  /\ clientResp' = None
  /\ ppc' = "notify"
  /\ UNCHANGED <<lock, respStatus, sem, endSign, resp, live, taskVars, pline,
                 presp, partial, tx, rx, nurc, cmd, given>>

\* Mutant: the waiting task is not woken.
NotifyNobody ==
  /\ ppc = "notify"
  /\ ppc' = "read"
  /\ UNCHANGED <<clientVars, taskVars, pline, presp, partial, tx, rx, nurc, cmd,
                 given>>

\* Mutant: resp_notice counts instead of being binary.
NotifyCounting ==
  /\ ppc = "notify"
  /\ sem' = sem + 1
  /\ ppc' = "read"
  /\ UNCHANGED <<lock, clientResp, respStatus, endSign, resp, live, taskVars,
                 pline, presp, partial, tx, rx, nurc, cmd, given>>

Notify ==
  /\ ppc = "notify"
  /\ sem' = 1
  /\ ppc' = "read"
  /\ UNCHANGED <<lock, clientResp, respStatus, endSign, resp, live, taskVars,
                 pline, presp, partial, tx, rx, nurc, cmd, given>>

\* The +MQTTMSGI handler: at_client_obj_send (which needs client->lock), then
\* at_client_obj_recv, which takes whatever comes next on the line until it has
\* the number of bytes it asked for or nothing has come for a while.
\* Mutant: the handler writes without waiting for the mutex.
HandlerDoesNotWait ==
  /\ ppc = "handler_lock"
  /\ ppc' = "handler_send"
  /\ UNCHANGED <<clientVars, taskVars, pline, presp, partial, tx, rx, nurc, cmd,
                 given>>

HandlerLock ==
  /\ ppc = "handler_lock" /\ lock = None
  /\ lock' = Parser
  /\ ppc' = "handler_send"
  /\ UNCHANGED <<clientResp, respStatus, sem, endSign, resp, live, taskVars,
                 pline, presp, partial, tx, rx, nurc, cmd, given>>

HandlerSend ==
  /\ ppc = "handler_send"
  /\ Put("read", 0)
  /\ lock' = None
  /\ ppc' = "handler_recv"
  /\ UNCHANGED <<clientResp, respStatus, sem, endSign, resp, live, taskVars,
                 pline, presp, partial, rx, nurc, cmd, given>>

HandlerRecv ==
  /\ ppc = "handler_recv" /\ rx # <<>>
  /\ rx' = Tail(rx)
  /\ ppc' \in {"handler_recv", "read"}
  /\ UNCHANGED <<clientVars, taskVars, pline, presp, partial, tx, nurc, cmd,
                 given>>

HandlerRecvTimedOut ==
  /\ ppc = "handler_recv" /\ rx = <<>> /\ (Prompt => tx = <<>>)
  /\ ppc' = "read"
  /\ UNCHANGED <<clientVars, taskVars, pline, presp, partial, tx, rx, nurc,
                 cmd, given>>

ParserStep == \/ ReadPartial \/ ReadUrc \/ ReadUnrecognized \/ ReadResponse
              \/ StoreLine \/ ClearResp \/ Notify
              \/ HandlerLock \/ HandlerSend \/ HandlerRecv
              \/ HandlerRecvTimedOut

-----------------------------------------------------------------------------
(* The modem (external): it serves what was written in order and may report
   an unsolicited line at any time. *)

AnswersTo(item) == CASE item.type = "cmd"  -> Answers[item.line_num]
                     [] item.type = "data" -> DataAnswers
                     [] item.type = "read" -> {<<>>, <<"payload">>}

Tagged(a, n) == [i \in DOMAIN a |-> [kind |-> a[i], from |-> n]]

ModemAnswer ==
  /\ tx # <<>>
  /\ \E a \in AnswersTo(Head(tx)) :
       /\ rx' = rx \o Tagged(a, Len(given) + 1)
       /\ given' = Append(given, a)
  /\ tx' = Tail(tx)
  /\ UNCHANGED <<clientVars, taskVars, parserVars, nurc, cmd>>

ModemUrc ==
  /\ nurc < MaxUrcs
  /\ \E k \in Urcs : rx' = Append(rx, [kind |-> k, from |-> 0])
  /\ nurc' = nurc + 1
  /\ UNCHANGED <<clientVars, taskVars, parserVars, tx, cmd, given>>

ModemStep == ModemAnswer \/ ModemUrc

\* Every call allowed by the bound has returned and nothing is in flight.
Terminated ==
  /\ \A t \in Tasks : pc[t] = "idle" /\ calls[t] = MaxCalls
  /\ Quiet
  /\ UNCHANGED vars

Next == (\E t \in Tasks : TaskStep(t)) \/ ParserStep \/ ModemStep \/ Terminated

Spec == Init /\ [][Next]_vars

\* The scheduler runs every ready task, the parser included.
Fairness == /\ \A t \in Tasks : WF_vars(CallStep(t))
            /\ WF_vars(ParserStep)
FairSpec == Spec /\ Fairness

-----------------------------------------------------------------------------
(* Properties *)

PcLabels == {"idle", "lock", "prepare", "reset", "write", "wait", "check",
             "delete", "finish"}
PpcLabels == {"read", "store", "clear", "notify", "handler_lock",
              "handler_send", "handler_recv"}
Results == {"none", "ok", "error", "timeout"}
Responses == [lines : Seq(Lines), len : Nat, line_num : LineNums, full : BOOLEAN]
Written == [type : {"cmd", "data", "read"}, line_num : LineNums]

\* Every variable has a value of its type; the semaphore stays binary.
TypeOK ==
  /\ lock \in Tasks \cup {Parser, None}
  /\ clientResp \in Objects \cup {None}
  /\ respStatus \in {"ok", "error", "full", "timeout"}
  /\ sem \in {0, 1}
  /\ endSign \in BOOLEAN
  /\ resp \in [Objects -> Responses]
  /\ live \in SUBSET Objects
  /\ pc \in [Tasks -> PcLabels]
  /\ call \in [Tasks -> CallKinds \cup {"none"}]
  /\ tries \in [Tasks -> Nat]
  /\ result \in [Tasks -> Results]
  /\ calls \in [Tasks -> Nat]
  /\ ppc \in PpcLabels
  /\ pline \in Lines
  /\ presp \in Objects \cup {None}
  /\ partial \in BOOLEAN
  /\ tx \in Seq(Written)
  /\ rx \in Seq(Lines)
  /\ nurc \in Nat
  /\ cmd \in [Tasks -> Nat]
  /\ given \in Seq(Seq(Kinds))

\* client->resp is shared with the parser, which clears it without the mutex.
\* Whenever it is set it is the response of the call that holds client->lock,
\* so a released client never leads the parser to somebody's buffer.
SlotBelongsToLockHolder ==
  clientResp # None => \E t \in Tasks : lock = t /\ clientResp = RespOf(t)

\* From the moment a task waits for an answer until it has looked at the
\* status, nobody (another task, or a URC handler in the parser thread) writes
\* to the serial line: at_client_obj_send takes the same mutex as exec.
LineIsQuietWhileWaiting ==
  [][\A t \in Tasks : pc[t] \in {"wait", "check"} => Len(tx') <= Len(tx)]_vars

\* With timeouts longer than any answer takes, a task that waits can still be
\* woken: its response is in client->resp, or the parser has taken it out and is
\* about to release the semaphore, or the semaphore is up.
NoLostWakeup ==
  \A t \in Tasks : pc[t] = "wait" => \/ clientResp = RespOf(t)
                                     \/ ppc = "notify" \/ sem = 1

Returned(t, results) == pc[t] = "idle" /\ call[t] = "exec" /\ result[t] \in results
Has(a, k) == \E i \in DOMAIN a : a[i] = k
Reply(a) == SelectSeq(a, LAMBDA k : k \in ReplyKinds)

\* What at_obj_exec_cmd returned is what the modem answered to that very
\* command, for as long as the caller keeps its response: the error result if
\* and only if an error line was in the answer, and (unless a line was dropped)
\* all the lines of the answer, in order, and none of another command or of an
\* unsolicited line.
ExecReportsItsAnswer ==
  \A t \in Tasks : Returned(t, {"ok", "error"}) =>
    /\ cmd[t] \in DOMAIN given
    /\ result[t] = "error" <=> Has(given[cmd[t]], "error")
    /\ resp[Own(t)].full \/
         resp[Own(t)].lines = Tagged(Reply(given[cmd[t]]), cmd[t])

\* at_obj_exec_cmd returns -2 only for a command that got no final answer.
TimeoutMeansNoAnswer ==
  \A t \in Tasks : Returned(t, {"timeout"}) =>
    /\ cmd[t] \in DOMAIN given
    /\ ~Has(given[cmd[t]], "ok") /\ ~Has(given[cmd[t]], "error")

\* A command that returns 0 was answered: its status is AT_RESP_OK, "response
\* end is OK", because OK came in answer to it.
SuccessIsAnswered ==
  \A t \in Tasks : Returned(t, {"ok"}) =>
    cmd[t] \in DOMAIN given /\ Has(given[cmd[t]], "ok")

\* Every call of the API returns, whatever the modem does: no task waits for
\* ever on the mutex or on an answer.
EveryCallReturns == \A t \in Tasks : pc[t] # "idle" ~> pc[t] = "idle"

\* A URC handler that sends a command from the parser thread waits for the
\* mutex, not for ever: the parser comes back to reading lines.
ParserComesBack == ppc = "handler_lock" ~> ppc = "read"

=============================================================================

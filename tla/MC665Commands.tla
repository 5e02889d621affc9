---------------------------- MODULE MC665Commands ----------------------------
(***************************************************************************)
(* The driver functions of components/mc665 on top of the client of        *)
(* ATClient.  A function takes mc665_drv_t.mutex, makes one or more calls  *)
(* of the client and changes settings that all its users share (the end    *)
(* sign, line_num of the one response object), and gives the mutex back.   *)
(* The mutex of the client protects one call, this one the sequence.       *)
(*                                                                         *)
(* A function is a sequence of steps, so that one set of actions runs them *)
(* all.  A step that is not `always' is left out once a call has failed.   *)
(* All tasks use the response object of the driver (RespUsed).             *)
(***************************************************************************)
EXTENDS ATClient

CONSTANTS
  Ops,     \* Ops[t]: the driver functions task t uses
  MaxOps   \* bound: functions called by each task

VARIABLES
  drvLock,  \* mc665_drv_t.mutex: its holder
  lineNum,  \* obj->resp->line_num
  op,       \* the function a task is in, "none" otherwise
  pos,      \* its step; 0 until the mutex is taken
  running,  \* the call of that step is under way
  failed,   \* a call has failed: `ret' is false
  outcome,  \* what the last function returned
  ops,      \* the number of functions called
  written   \* history: who wrote each item to the serial line, in which of its
            \* functions and in which step

opVars == <<drvLock, lineNum, op, pos, running, failed, outcome, ops>>
allVars == <<vars, opVars, written>>

-----------------------------------------------------------------------------
(* The functions *)

Step(do, arg, always) == [do |-> do, arg |-> arg, always |-> always]
Exec(answers) == Step("exec", answers, FALSE)

\* The answers the modem may give: to a command, which may fail with ERROR or
\* with the URC +CME ERROR; to one that asks for data; to one answered by its
\* result after an OK (line_num is 2 here, 4 in the code).
Plain == {<<"cme">>, <<"data", "ok">>, <<"error">>}
Asking == {<<"prompt">>, <<"error">>}
Late == {<<>>, <<"ok", "data">>, <<"error">>}

\* One command: most functions of mc665.c and mc665_http_set_param.
SimpleSteps == <<Exec(Plain)>>

\* mc665_mqtt_open: three commands.
OpenSteps == <<Exec(Plain), Exec(Plain), Exec(Plain)>>

\* A publish, and mc665_http_post alike: the second command is empty and waits
\* for the answer to the data.
PublishSteps == <<Step("sign", TRUE, TRUE), Exec(Asking), Step("sign", FALSE, TRUE),
                  Step("send", {}, FALSE), Exec({<<>>})>>

RequestIpSteps ==
  <<Step("line_num", 2, TRUE), Exec(Late), Step("line_num", 0, TRUE)>>

\* mc665_detect
DetectSteps == <<Step("connect", {<<>>, <<"ok">>}, FALSE)>>

\* Mutants: the end sign is put back only if the command succeeded; the data is
\* sent whatever became of the command.
FunctionForgetsSign(o) ==
  IF o = "publish" THEN [PublishSteps EXCEPT ![3] = Step("sign", FALSE, FALSE)]
                   ELSE SimpleSteps
FunctionSendsAlways(o) ==
  IF o = "publish" THEN [PublishSteps EXCEPT ![4] = Step("send", {}, TRUE)]
                   ELSE SimpleSteps

Function(o) == CASE o = "simple"     -> SimpleSteps
                 [] o = "open"       -> OpenSteps
                 [] o = "publish"    -> PublishSteps
                 [] o = "request_ip" -> RequestIpSteps
                 [] o = "detect"     -> DetectSteps

OpKinds == {"simple", "open", "publish", "request_ip", "detect"}

ASSUME OpsOK == Ops \in [Tasks -> SUBSET OpKinds] /\ MaxOps \in [Tasks -> Nat]

\* The client is modelled for the values of line_num that the functions set.
ASSUME LineNumsOK == {0, 2} \subseteq LineNums

Current(t) == Function(op[t])[pos[t]]
AtStep(t) == op[t] # "none" /\ pos[t] \in DOMAIN Function(op[t])
LeftOut(t) == failed[t] /\ ~Current(t).always

-----------------------------------------------------------------------------
CommandsInit ==
  /\ Init
  /\ drvLock = None /\ lineNum = 0
  /\ op = [t \in Tasks |-> "none"]
  /\ pos = [t \in Tasks |-> 0]
  /\ running = [t \in Tasks |-> FALSE]
  /\ failed = [t \in Tasks |-> FALSE]
  /\ outcome = [t \in Tasks |-> "none"]
  /\ ops = [t \in Tasks |-> 0]
  /\ written = <<>>

\* What a step of the client adds to the history.
Item(who) ==
  IF who = Parser THEN [by |-> who, run |-> 0, op |-> "none", pos |-> 0]
  ELSE [by |-> who, run |-> ops[who], op |-> op[who], pos |-> pos[who]]
Noted(who) ==
  written' = IF Len(tx') > Len(tx) THEN Append(written, Item(who)) ELSE written

CallOp(t, o) ==
  /\ op[t] = "none" /\ ops[t] < MaxOps[t] /\ o \in Ops[t]
  /\ op' = [op EXCEPT ![t] = o]
  /\ pos' = [pos EXCEPT ![t] = 0]
  /\ failed' = [failed EXCEPT ![t] = FALSE]
  /\ outcome' = [outcome EXCEPT ![t] = "none"]
  /\ ops' = [ops EXCEPT ![t] = @ + 1]
  /\ UNCHANGED <<vars, drvLock, lineNum, running, written>>

\* Mutant: the functions do not exclude one another.
TakeDrvLockShared(t) ==
  /\ op[t] # "none" /\ pos[t] = 0
  /\ drvLock' = t
  /\ pos' = [pos EXCEPT ![t] = 1]
  /\ UNCHANGED <<vars, lineNum, op, running, failed, outcome, ops, written>>

\* mc665_take_lock
TakeDrvLock(t) ==
  /\ op[t] # "none" /\ pos[t] = 0 /\ drvLock = None
  /\ drvLock' = t
  /\ pos' = [pos EXCEPT ![t] = 1]
  /\ UNCHANGED <<vars, lineNum, op, running, failed, outcome, ops, written>>

NextStep(t) == pos' = [pos EXCEPT ![t] = @ + 1]

LeaveOut(t) ==
  /\ AtStep(t) /\ ~running[t] /\ LeftOut(t)
  /\ NextStep(t)
  /\ UNCHANGED <<vars, drvLock, lineNum, op, running, failed, outcome, ops,
                 written>>

\* at_set_end_sign
SignStep(t) ==
  /\ AtStep(t) /\ ~LeftOut(t) /\ Current(t).do = "sign"
  /\ IF endSign = Current(t).arg THEN UNCHANGED vars
                                 ELSE SetEndSign(t, Current(t).arg)
  /\ NextStep(t)
  /\ UNCHANGED <<drvLock, lineNum, op, running, failed, outcome, ops, written>>

\* at_resp_set_info
LineNumStep(t) ==
  /\ AtStep(t) /\ ~LeftOut(t) /\ Current(t).do = "line_num"
  /\ lineNum' = Current(t).arg
  /\ NextStep(t)
  /\ UNCHANGED <<vars, drvLock, op, running, failed, outcome, ops, written>>

\* The call of a step.
Start(t) ==
  /\ AtStep(t) /\ ~running[t] /\ ~LeftOut(t)
  /\ \/ Current(t).do = "exec" /\ CallExec(t, lineNum)
     \/ Current(t).do = "send" /\ CallSend(t)
     \/ Current(t).do = "connect" /\ CallWaitConnect(t)
  /\ running' = [running EXCEPT ![t] = TRUE]
  /\ UNCHANGED <<drvLock, lineNum, op, pos, failed, outcome, ops, written>>

\* The caller of request_ip reads the line it has asked for.
Succeeded(t) ==
  /\ result[t] = "ok"
  /\ call[t] = "exec" /\ lineNum # 0 => Len(resp[Own(t)].lines) >= lineNum

\* Mutant: the last call decides.
FinishStepForgets(t) ==
  /\ AtStep(t) /\ running[t] /\ pc[t] = "idle"
  /\ running' = [running EXCEPT ![t] = FALSE]
  /\ failed' = [failed EXCEPT ![t] = FALSE]
  /\ NextStep(t)
  /\ UNCHANGED <<vars, drvLock, lineNum, op, outcome, ops, written>>

\* The call has returned; the value of at_client_send is not looked at.
FinishStep(t) ==
  /\ AtStep(t) /\ running[t] /\ pc[t] = "idle"
  /\ running' = [running EXCEPT ![t] = FALSE]
  /\ failed' = [failed EXCEPT ![t] = @ \/ ~Succeeded(t)]
  /\ NextStep(t)
  /\ UNCHANGED <<vars, drvLock, lineNum, op, outcome, ops, written>>

\* Mutant: a function that failed returns with the mutex.
ReleaseOnSuccess(t) ==
  /\ op[t] # "none" /\ pos[t] = Len(Function(op[t])) + 1
  /\ drvLock' = IF failed[t] THEN drvLock ELSE None
  /\ op' = [op EXCEPT ![t] = "none"]
  /\ outcome' = [outcome EXCEPT ![t] = IF failed[t] THEN "failed" ELSE "ok"]
  /\ UNCHANGED <<vars, lineNum, pos, running, failed, ops, written>>

\* mc665_release_lock
Release(t) ==
  /\ op[t] # "none" /\ pos[t] = Len(Function(op[t])) + 1
  /\ drvLock' = None
  /\ op' = [op EXCEPT ![t] = "none"]
  /\ outcome' = [outcome EXCEPT ![t] = IF failed[t] THEN "failed" ELSE "ok"]
  /\ UNCHANGED <<vars, lineNum, pos, running, failed, ops, written>>

InCall(t) == CallStep(t) /\ Noted(t) /\ UNCHANGED opVars
InParser == ParserStep /\ Noted(Parser) /\ UNCHANGED opVars

OpStep(t) == \/ TakeDrvLock(t) \/ LeaveOut(t) \/ SignStep(t) \/ LineNumStep(t)
             \/ Start(t) \/ FinishStep(t) \/ Release(t) \/ InCall(t)

\* The modem (external) knows the commands: the answer it gives to an item is
\* one that the step which wrote the item expects.
Expected(item) ==
  IF item.by = Parser THEN {<<>>, <<"payload">>}
  ELSE LET s == Function(item.op)[item.pos]
       IN  IF s.do = "send" THEN DataAnswers ELSE s.arg

InModemAnswer ==
  /\ ModemAnswer /\ given'[Len(given')] \in Expected(written[Len(given')])
  /\ UNCHANGED <<opVars, written>>
InModemUrc == ModemUrc /\ UNCHANGED <<opVars, written>>

AllDone ==
  /\ \A t \in Tasks : op[t] = "none" /\ ops[t] = MaxOps[t]
  /\ Quiet
  /\ UNCHANGED allVars

CommandsNext ==
  \/ \E t \in Tasks : OpStep(t) \/ \E o \in OpKinds : CallOp(t, o)
  \/ InParser \/ InModemAnswer \/ InModemUrc \/ AllDone

\* The scheduler runs every ready task and the parser.  Where timeouts are
\* longer than any answer takes, time decides what the modem does with a command
\* before the timeout comes (no answer is <<>>); otherwise it is bound to nothing.
CommandsSpec ==
  /\ CommandsInit /\ [][CommandsNext]_allVars
  /\ \A t \in Tasks : WF_allVars(OpStep(t))
  /\ WF_allVars(InParser) /\ (Prompt => WF_allVars(InModemAnswer))

-----------------------------------------------------------------------------
(* What some theorems assume of the modem *)

\* No notification starts a handler that writes.
NoHandler ==
  /\ "msgi" \notin Urcs
  /\ \A n \in LineNums : \A a \in Answers[n] : ~Has(a, "msgi")
  /\ \A a \in DataAnswers : ~Has(a, "msgi")

\* An answer comes before the timeout or not at all, and data are answered with
\* OK, with ERROR, or not at all.
PromptModem == Prompt /\ DataAnswers \subseteq {<<>>, <<"ok">>, <<"error">>}

-----------------------------------------------------------------------------
(* Properties *)

Positions(t, r) == {i \in DOMAIN written : written[i].by = t /\ written[i].run = r}

\* mc665.h says of the mutex that it keeps the execution of several AT commands
\* from being disturbed: what one function writes to the modem comes in a row,
\* with nothing of another task between its commands or in front of its data.
ExchangeUninterrupted ==
  \A t \in Tasks : \A r \in 1 .. ops[t] :
    \A i, j \in Positions(t, r) : i .. j \subseteq Positions(t, r)

\* The data of a publish goes out only after the modem has asked for it, in
\* answer to this very publish: it never reaches a modem that waits for a
\* command, and what it sends is not taken for one.
DataWasAskedFor ==
  \A i \in DOMAIN written :
    written[i].op = "publish" /\ written[i].pos = 4 =>
      i - 1 \in DOMAIN given /\ Has(given[i - 1], "prompt")

\* The modem has accepted an item; the empty command behind the data (step 5)
\* waits for the answer to the data.
Answering(i) == IF written[i].pos = 5 THEN i - 1 ELSE i
Accepted(i) ==
  LET a == Answering(i)
  IN  a \in DOMAIN given /\ (Has(given[a], "ok") \/ Has(given[a], "prompt"))
        /\ ~Has(given[a], "error")

\* A function that returns true had every one of its commands accepted, and its
\* data: no answer stands for another, and no error on the way is forgotten.  The
\* probes of mc665_detect may go unanswered, but for one.
TrueMeansAllAccepted ==
  \A t \in Tasks : outcome[t] = "ok" =>
    LET mine == Positions(t, ops[t])
    IN  \A i \in mine : \/ Accepted(i)
                        \/ written[i].op = "detect" /\ \E j \in mine : Accepted(j)

\* Whatever failed, a function leaves the settings it shares with all the others
\* as it found them: no end sign that cuts their lines, and no line_num that
\* makes the client count their lines.
SettingsRestored == drvLock = None => ~endSign /\ lineNum = 0

\* When a caller reads the response object that all functions share, the lines
\* in it answer its own command.
SharedResponseIsOwn ==
  \A t \in Tasks :
    running[t] /\ pc[t] = "idle" /\ call[t] = "exec" /\ result[t] = "ok" =>
      \A i \in DOMAIN resp[Own(t)].lines :
        resp[Own(t)].lines[i].from \in {Answering(j) : j \in Positions(t, ops[t])}

\* Every function returns, whether or not the modem answers.
EveryFunctionReturns == \A t \in Tasks : op[t] # "none" ~> op[t] = "none"

=============================================================================

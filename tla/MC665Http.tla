----------------------------- MODULE MC665Http ------------------------------
(***************************************************************************)
(* The HTTP service of components/mc665/mc665_http.c.  A caller of         *)
(* mc665_http_read_data points obj->msg at a structure on its own stack,   *)
(* sends AT+HTTPREAD and waits for an event bit; the URC handler, in the   *)
(* parser thread, copies the reply through obj->msg and sets the bit.      *)
(* Status and header of a session reach their callers through other bits   *)
(* of the same group.                                                      *)
(*                                                                         *)
(* A reply carries nothing that names its request.  `num' in a line, and   *)
(* asked, buf, given and sess are history: they name the request a reply   *)
(* answers and no step of the code reads them.                             *)
(***************************************************************************)
EXTENDS Naturals, Sequences, EventGroup

CONSTANTS
  Callers,   \* the tasks that use the service
  Parser,    \* the parser thread
  None,      \* NULL; also "nobody" for a mutex
  Ops,       \* Ops[c]: the functions caller c uses
  Lengths,   \* Lengths[c]: the lengths c asks for
  LineBuf,   \* client->recv_bufsz
  MaxCalls,  \* bound: MaxCalls[c] calls of caller c
  Prompts    \* the choices for `prompt'

OpKinds == {"set_param", "session", "read"}

ASSUME HttpConstantsOK ==
  /\ None \notin Callers /\ Parser \notin Callers /\ Parser # None
  /\ Ops \in [Callers -> SUBSET OpKinds]
  /\ Lengths \in [Callers -> SUBSET (Nat \ {0})]
  /\ LineBuf \in Nat
  /\ MaxCalls \in [Callers -> Nat]
  /\ Prompts \subseteq BOOLEAN

VARIABLES
  prompt,    \* never changes; TRUE: a timeout is longer than any answer takes
  stage,     \* how far mc665_http_init has come
  drvLock,   \* obj->drv->mutex: its holder
  objMutex,  \* obj->mutex: its holder
  msg,       \* obj->msg: whose structure it points at
  objResp,   \* obj->resp: the session it describes
  pc, op, len, ret, calls,  \* the callers; ret is what the call returned
  readLen,   \* read_len of a caller's structure
  ppc, pline, pmsg,         \* the parser; pmsg is the structure it writes
  tx, rx,    \* the serial line
  asked, buf, given, sess   \* history

callerVars == <<pc, op, len, ret, calls>>
parserVars == <<ppc, pline, pmsg>>
history == <<asked, buf, given, sess>>
vars == <<prompt, stage, drvLock, objMutex, msg, objResp, callerVars, readLen,
          parserVars, tx, rx, history, groupVars>>

Min2(a, b) == IF a < b THEN a ELSE b

\* sizeof("\r\n\r\nOK\r\n") - 1, read with the data.
Trailer == 8

\* A line from the modem.  `whole' says that the bytes which follow a
\* +HTTPREAD line all come in time.
Lines == [kind : {"read", "success", "fail", "res"}, num : Nat, len : Nat,
          whole : BOOLEAN]
Line(kind, num) == [kind |-> kind, num |-> num, len |-> 0, whole |-> TRUE]
NoLine == Line("read", 0)

\* What a request can be answered with: no line, a reply of at most the length
\* asked for, a reply cut short, or the lines of a session.  A session that has
\* failed has no header.
Reply(num, n, w) == <<[kind |-> "read", num |-> num, len |-> n, whole |-> w]>>
Replies(item, num) ==
  IF item.type = "act"
  THEN {<<>>, <<Line("fail", num)>>, <<Line("success", num), Line("res", num)>>}
  ELSE {<<>>, Reply(num, item.len, FALSE)} \cup
       {Reply(num, Min2(n, item.len), TRUE) :
          n \in {0} \cup UNION {Lengths[c] : c \in Callers}}

-----------------------------------------------------------------------------
Init ==
  /\ prompt \in Prompts
  /\ stage = "none"
  /\ drvLock = None /\ objMutex = None /\ msg = None /\ objResp = 0
  /\ pc = [c \in Callers |-> "idle"]
  /\ op = [c \in Callers |-> "none"]
  /\ len = [c \in Callers |-> 0]
  /\ ret = [c \in Callers |-> 0]
  /\ calls = [c \in Callers |-> 0]
  /\ readLen = [c \in Callers |-> 0]
  /\ ppc = "read" /\ pline = NoLine /\ pmsg = None
  /\ tx = <<>> /\ rx = <<>>
  /\ asked = [c \in Callers |-> 0]
  /\ buf = [c \in Callers |-> [num |-> 0, len |-> 0]]
  /\ given = <<>> /\ sess = [c \in Callers |-> 0]
  /\ InitGroup(Callers)

\* mc665_http_init: any of the URC table, the event group and the mutex may be
\* refused, and then none is kept but the table.
HttpInit ==
  /\ stage = "none"
  /\ stage' \in {"ready", "failed"}
  /\ UNCHANGED <<prompt, drvLock, objMutex, msg, objResp, callerVars, readLen,
                 parserVars, tx, rx, history, groupVars>>

-----------------------------------------------------------------------------
(* The callers *)

Goto(c, label) == pc' = [pc EXCEPT ![c] = label]
Return(c, r) == Goto(c, "idle") /\ ret' = [ret EXCEPT ![c] = r]

Call(c, o, n) ==
  /\ stage = "ready" /\ pc[c] = "idle" /\ calls[c] < MaxCalls[c] /\ o \in Ops[c]
  /\ Goto(c, "lock")
  /\ op' = [op EXCEPT ![c] = o]
  /\ len' = [len EXCEPT ![c] = n]
  /\ ret' = [ret EXCEPT ![c] = 0]
  /\ calls' = [calls EXCEPT ![c] = @ + 1]
  /\ readLen' = [readLen EXCEPT ![c] = 0]
  /\ buf' = [buf EXCEPT ![c] = [num |-> 0, len |-> 0]]
  /\ UNCHANGED <<prompt, stage, drvLock, objMutex, msg, objResp, parserVars,
                 tx, rx, asked, given, sess, groupVars>>

TakeLock(c) ==
  /\ pc[c] = "lock" /\ drvLock = None
  /\ drvLock' = c
  /\ Goto(c, IF op[c] = "read" THEN "set" ELSE "exec")
  /\ UNCHANGED <<prompt, stage, objMutex, msg, objResp, op, len, ret, calls,
                 readLen, parserVars, tx, rx, history, groupVars>>

\* mc665_http_set_param, and mc665_http_start of a session: one AT command, OK
\* or not, and the mutex is released.
Put(c, type, n) ==
  /\ tx' = Append(tx, [type |-> type, len |-> n])
  /\ asked' = [asked EXCEPT ![c] = Len(given) + Len(tx) + 1]

Exec(c) ==
  /\ pc[c] = "exec"
  /\ drvLock' = None
  /\ \/ op[c] = "session" /\ Put(c, "act", 0) /\ Goto(c, "status")
     \/ Goto(c, "idle") /\ UNCHANGED <<tx, asked>>
  /\ UNCHANGED <<prompt, stage, objMutex, msg, objResp, op, len, ret, calls,
                 readLen, parserVars, rx, buf, given, sess, groupVars>>

\* mc665_http_read_status and mc665_http_read_resp, in the order of the task
\* in main/mc665_ota.c:127-139, wait without the driver's mutex.
AwaitStatus(c) ==
  /\ pc[c] = "status"
  /\ WaitBits(c, {"success", "fail"})
  /\ Goto(c, "status_wait")
  /\ UNCHANGED <<prompt, stage, drvLock, objMutex, msg, objResp, op, len, ret,
                 calls, readLen, parserVars, tx, rx, history>>

StatusDone(c) ==
  /\ pc[c] = "status_wait" /\ want[c] = {}
  /\ Goto(c, IF "success" \in got[c] THEN "resp" ELSE "idle")
  /\ UNCHANGED <<prompt, stage, drvLock, objMutex, msg, objResp, op, len, ret,
                 calls, readLen, parserVars, tx, rx, history, groupVars>>

\* Mutant: the wait leaves the bit set.
AwaitRespKeepsBit(c) ==
  /\ pc[c] = "resp"
  /\ IF "resp" \in bits
     THEN got' = [got EXCEPT ![c] = {"resp"}] /\ UNCHANGED <<bits, want>>
     ELSE WaitBits(c, {"resp"})
  /\ Goto(c, "resp_wait")
  /\ UNCHANGED <<prompt, stage, drvLock, objMutex, msg, objResp, op, len, ret,
                 calls, readLen, parserVars, tx, rx, history>>

AwaitResp(c) ==
  /\ pc[c] = "resp"
  /\ WaitBits(c, {"resp"})
  /\ Goto(c, "resp_wait")
  /\ UNCHANGED <<prompt, stage, drvLock, objMutex, msg, objResp, op, len, ret,
                 calls, readLen, parserVars, tx, rx, history>>

\* The copy of obj->resp under obj->mutex, or a timeout.
RespDone(c) ==
  /\ pc[c] = "resp_wait" /\ want[c] = {}
  /\ \/ "resp" \notin got[c] /\ UNCHANGED <<ret, sess>>
     \/ /\ "resp" \in got[c] /\ objMutex = None
        /\ ret' = [ret EXCEPT ![c] = 1]
        /\ sess' = [sess EXCEPT ![c] = objResp]
  /\ Goto(c, "idle")
  /\ UNCHANGED <<prompt, stage, drvLock, objMutex, msg, objResp, op, len, calls,
                 readLen, parserVars, tx, rx, asked, buf, given, groupVars>>

\* mc665_http_read_data, step by step.
ReadSetMsg(c) ==
  /\ pc[c] = "set" /\ objMutex = None
  /\ msg' = c
  /\ Goto(c, "send")
  /\ UNCHANGED <<prompt, stage, drvLock, objMutex, objResp, op, len, ret, calls,
                 readLen, parserVars, tx, rx, history, groupVars>>

ReadSend(c) ==
  /\ pc[c] = "send"
  /\ Put(c, "read", len[c])
  /\ Goto(c, "await")
  /\ UNCHANGED <<prompt, stage, drvLock, objMutex, msg, objResp, op, len, ret,
                 calls, readLen, parserVars, rx, buf, given, sess, groupVars>>

\* Mutant: the wait leaves the bit set.
ReadAwaitKeepsBit(c) ==
  /\ pc[c] = "await"
  /\ IF "data" \in bits THEN UNCHANGED groupVars ELSE WaitBits(c, {"data"})
  /\ Goto(c, "data_wait")
  /\ UNCHANGED <<prompt, stage, drvLock, objMutex, msg, objResp, op, len, ret,
                 calls, readLen, parserVars, tx, rx, history>>

ReadAwait(c) ==
  /\ pc[c] = "await"
  /\ WaitBits(c, {"data"})
  /\ Goto(c, "data_wait")
  /\ UNCHANGED <<prompt, stage, drvLock, objMutex, msg, objResp, op, len, ret,
                 calls, readLen, parserVars, tx, rx, history>>

\* Mutant: obj->msg is cleared without taking obj->mutex.
ReadClearNoMutex(c) ==
  /\ pc[c] = "data_wait" /\ want[c] = {}
  /\ msg' = None
  /\ Goto(c, "return")
  /\ UNCHANGED <<prompt, stage, drvLock, objMutex, objResp, op, len, ret, calls,
                 readLen, parserVars, tx, rx, history, groupVars>>

\* Mutant: obj->msg is not cleared.
ReadClearForgets(c) ==
  /\ pc[c] = "data_wait" /\ want[c] = {}
  /\ Goto(c, "return")
  /\ UNCHANGED <<prompt, stage, drvLock, objMutex, msg, objResp, op, len, ret,
                 calls, readLen, parserVars, tx, rx, history, groupVars>>

ReadClearMsg(c) ==
  /\ pc[c] = "data_wait" /\ want[c] = {} /\ objMutex = None
  /\ msg' = None
  /\ Goto(c, "return")
  /\ UNCHANGED <<prompt, stage, drvLock, objMutex, objResp, op, len, ret, calls,
                 readLen, parserVars, tx, rx, history, groupVars>>

ReadReturn(c) ==
  /\ pc[c] = "return"
  /\ drvLock' = None
  /\ Return(c, readLen[c])
  /\ UNCHANGED <<prompt, stage, objMutex, msg, objResp, op, len, calls, readLen,
                 parserVars, tx, rx, history, groupVars>>

\* Nothing is on its way from the modem or through the parser.
Quiet == tx = <<>> /\ rx = <<>> /\ ppc = "read"

\* Mutant: a read waits for ever.
OnlySessionsTimeOut(c) ==
  /\ want[c] # {} /\ (prompt => Quiet) /\ op[c] = "session"
  /\ WaitExpires(c)
  /\ UNCHANGED <<prompt, stage, drvLock, objMutex, msg, objResp, callerVars,
                 readLen, parserVars, tx, rx, history>>

WaitTimesOut(c) ==
  /\ want[c] # {} /\ (prompt => Quiet)
  /\ WaitExpires(c)
  /\ UNCHANGED <<prompt, stage, drvLock, objMutex, msg, objResp, callerVars,
                 readLen, parserVars, tx, rx, history>>

CallStep(c) == \/ TakeLock(c) \/ Exec(c) \/ AwaitStatus(c) \/ StatusDone(c)
               \/ AwaitResp(c) \/ RespDone(c) \/ ReadSetMsg(c) \/ ReadSend(c)
               \/ ReadAwait(c) \/ ReadClearMsg(c) \/ ReadReturn(c)
               \/ WaitTimesOut(c)

-----------------------------------------------------------------------------
(* The URC handler, in the parser thread *)

HandleStatus ==
  /\ ppc = "read" /\ rx # <<>> /\ Head(rx).kind \in {"success", "fail"}
  /\ rx' = Tail(rx)
  /\ SetBits({Head(rx).kind})
  /\ UNCHANGED <<prompt, stage, drvLock, objMutex, msg, objResp, callerVars,
                 readLen, parserVars, tx, history>>

HandleResp ==
  /\ ppc = "read" /\ rx # <<>> /\ Head(rx).kind = "res" /\ objMutex = None
  /\ rx' = Tail(rx)
  /\ objResp' = Head(rx).num
  /\ SetBits({"resp"})
  /\ UNCHANGED <<prompt, stage, drvLock, objMutex, msg, callerVars, readLen,
                 parserVars, tx, history>>

\* A reply that does not fit the line buffer, or of which bytes are missing
\* after 20 ticks, is dropped.
FitsLineBuf(n) == n + Trailer <= LineBuf

HandleData ==
  /\ ppc = "read" /\ rx # <<>> /\ Head(rx).kind = "read"
  /\ rx' = Tail(rx)
  /\ IF FitsLineBuf(Head(rx).len) /\ Head(rx).whole
     THEN pline' = Head(rx) /\ ppc' = "take" ELSE UNCHANGED <<pline, ppc>>
  /\ UNCHANGED <<prompt, stage, drvLock, objMutex, msg, objResp, callerVars,
                 readLen, pmsg, tx, history, groupVars>>

HandlerTake ==
  /\ ppc = "take" /\ objMutex = None
  /\ objMutex' = Parser
  /\ ppc' = "check"
  /\ UNCHANGED <<prompt, stage, drvLock, msg, objResp, callerVars, readLen,
                 pline, pmsg, tx, rx, history, groupVars>>

\* obj->msg is NULL, or its buffer too small, or it is used.
HandlerCheck ==
  /\ ppc = "check"
  /\ IF msg # None /\ pline.len <= len[msg]
     THEN ppc' = "copy" /\ pmsg' = msg ELSE ppc' = "give" /\ UNCHANGED pmsg
  /\ UNCHANGED <<prompt, stage, drvLock, objMutex, msg, objResp, callerVars,
                 readLen, pline, tx, rx, history, groupVars>>

HandlerCopy ==
  /\ ppc = "copy"
  /\ buf' = [buf EXCEPT ![pmsg] = [num |-> pline.num, len |-> pline.len]]
  /\ ppc' = "set_len"
  /\ UNCHANGED <<prompt, stage, drvLock, objMutex, msg, objResp, callerVars,
                 readLen, pline, pmsg, tx, rx, asked, given, sess, groupVars>>

HandlerSetLen ==
  /\ ppc = "set_len"
  /\ readLen' = [readLen EXCEPT ![pmsg] = pline.len]
  /\ SetBits({"data"})
  /\ ppc' = "give"
  /\ UNCHANGED <<prompt, stage, drvLock, objMutex, msg, objResp, callerVars,
                 pline, pmsg, tx, rx, history>>

HandlerGive ==
  /\ ppc = "give"
  /\ objMutex' = None
  /\ ppc' = "read" /\ pmsg' = None /\ pline' = NoLine
  /\ UNCHANGED <<prompt, stage, drvLock, msg, objResp, callerVars, readLen, tx,
                 rx, history, groupVars>>

ParserStep == \/ HandleStatus \/ HandleResp \/ HandleData \/ HandlerTake
              \/ HandlerCheck \/ HandlerCopy \/ HandlerSetLen \/ HandlerGive

\* The modem (external) serves requests in order.
ModemServe ==
  /\ tx # <<>>
  /\ \E a \in Replies(Head(tx), Len(given) + 1) :
       rx' = rx \o a /\ given' = Append(given, a)
  /\ tx' = Tail(tx)
  /\ UNCHANGED <<prompt, stage, drvLock, objMutex, msg, objResp, callerVars,
                 readLen, parserVars, asked, buf, sess, groupVars>>

Terminated ==
  /\ stage = "failed" \/ \A c \in Callers : pc[c] = "idle" /\ calls[c] = MaxCalls[c]
  /\ stage # "none" /\ Quiet
  /\ UNCHANGED vars

Next == \/ HttpInit
        \/ \E c \in Callers : \/ \E n \in Lengths[c] : Call(c, "read", n)
                              \/ Call(c, "session", 0) \/ Call(c, "set_param", 0)
                              \/ CallStep(c)
        \/ ParserStep \/ ModemServe \/ Terminated

Spec == Init /\ [][Next]_vars

\* Every ready task runs.  ModemServe is the moment from which a request is
\* answered or never will be; it comes for each.
FairSpec == /\ Spec
            /\ \A c \in Callers : WF_vars(CallStep(c))
            /\ WF_vars(ParserStep) /\ WF_vars(ModemServe)

-----------------------------------------------------------------------------
(* Properties *)

PcLabels == {"idle", "lock", "exec", "status", "status_wait", "resp",
             "resp_wait", "set", "send", "await", "data_wait", "return"}
PpcLabels == {"read", "take", "check", "copy", "set_len", "give"}
BitNames == {"success", "fail", "resp", "data"}

\* Every variable has a value of its type.
TypeOK ==
  /\ prompt \in BOOLEAN
  /\ stage \in {"none", "ready", "failed"}
  /\ drvLock \in Callers \cup {None}
  /\ objMutex \in {Parser, None}
  /\ msg \in Callers \cup {None}
  /\ objResp \in Nat
  /\ pc \in [Callers -> PcLabels]
  /\ op \in [Callers -> OpKinds \cup {"none"}]
  /\ len \in [Callers -> Nat]
  /\ ret \in [Callers -> Nat]
  /\ calls \in [Callers -> Nat]
  /\ readLen \in [Callers -> Nat]
  /\ ppc \in PpcLabels
  /\ pline \in Lines
  /\ pmsg \in Callers \cup {None}
  /\ tx \in Seq([type : {"act", "read"}, len : Nat])
  /\ rx \in Seq(Lines)
  /\ asked \in [Callers -> Nat]
  /\ buf \in [Callers -> [num : Nat, len : Nat]]
  /\ given \in Seq(Seq(Lines))
  /\ sess \in [Callers -> Nat]
  /\ bits \subseteq BitNames
  /\ want \in [Callers -> SUBSET BitNames]
  /\ got \in [Callers -> SUBSET BitNames]

\* The parser writes to a buffer and a structure on a caller's stack.  It does
\* so only while that caller is inside mc665_http_read_data, between the stores
\* to obj->msg, whatever the timing of timeouts and late replies, and it never
\* writes more than the buffer holds.
WritesIntoLiveBuffer ==
  ppc \in {"copy", "set_len"} =>
    /\ pc[pmsg] \in {"send", "await", "data_wait"}
    /\ pline.len <= len[pmsg]

\* The length that mc665_http_read_data returns is that of the reply whose bytes
\* are in the buffer, also when two replies came and when the wait had timed out.
LengthMatchesBuffer ==
  \A c \in Callers :
    pc[c] = "idle" /\ op[c] = "read" /\ ret[c] > 0 => buf[c].len = ret[c]

\* The reply that the modem gave to request n, of length > 0, could be read.
Usable(n) == n \in DOMAIN given /\ given[n] # <<>> /\ given[n][1].whole
             /\ FitsLineBuf(given[n][1].len)

\* With timeouts longer than any answer takes, a read returns the bytes of the
\* reply to its own request, and returns nothing only if there was no reply it
\* could use: neither a stale bit nor another reader's reply gets in the way.
ReadGetsItsReply ==
  \A c \in Callers :
    prompt /\ pc[c] = "idle" /\ op[c] = "read" =>
      /\ ret[c] > 0 => buf[c].num = asked[c] /\ given[asked[c]][1].len = ret[c]
      /\ ret[c] = 0 => ~Usable(asked[c]) \/ given[asked[c]][1].len = 0

\* One task opens sessions, as the update task of main/mc665_ota.c does.
OneSessionTask ==
  \A c, d \in Callers : "session" \in Ops[c] /\ "session" \in Ops[d] => c = d

\* With prompt answers the header that mc665_http_read_resp returns belongs to
\* the session that this caller started last.
HeaderOfThisSession ==
  \A c \in Callers :
    prompt /\ pc[c] = "idle" /\ op[c] = "session" /\ ret[c] = 1 =>
      sess[c] = asked[c]

\* Every function returns, also when the modem says nothing or says it late.
EveryCallReturns == \A c \in Callers : pc[c] # "idle" ~> pc[c] = "idle"

\* MC665_OTA_PACKT_SIZE is "less than the line cache of the AT client", so a
\* packet that the modem sends whole and in time reaches its reader.
PacketFitsLineBuf ==
  \A c \in Callers :
    prompt /\ pc[c] = "idle" /\ op[c] = "read" /\ ret[c] = 0 =>
      given[asked[c]] = <<>> \/ ~given[asked[c]][1].whole
                             \/ given[asked[c]][1].len = 0
=============================================================================

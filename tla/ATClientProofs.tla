--------------------------- MODULE ATClientProofs ---------------------------
(***************************************************************************)
(* Theorems about ATClient.                                                *)
(*                                                                         *)
(* For every set of tasks, every modem and every bound: its type           *)
(* correctness, that the shared client->resp belongs to the holder of      *)
(* client->lock, and that nobody writes to the serial line while a task    *)
(* waits for an answer.  SlotBelongsToLockHolder is not inductive.  The    *)
(* invariant IInv adds why it holds: which steps of a call and of the      *)
(* parser hold the mutex.                                                  *)
(*                                                                         *)
(* With timeouts longer than any answer takes: a waiting task can always   *)
(* be woken, at_obj_exec_cmd returns the answer to its own command, and    *)
(* the client implements ATService; for any number of tasks, calls,        *)
(* notifications and lines in an answer.  The invariant LineInv says where *)
(* the answer to the command on its way is: not given yet, partly in rx    *)
(* and partly in the response, with one line in the parser, or all in the  *)
(* response with the wakeup on its way.                                    *)
(***************************************************************************)
EXTENDS ATClientService, TLAPS

\* The steps of a call between rt_mutex_take and rt_mutex_release.
Critical == {"prepare", "reset", "write", "wait", "check", "delete", "finish"}

TypeInv == TypeOK /\ (ppc = "store" => presp \in Objects)

LockInv ==
  /\ \A t \in Tasks : pc[t] \in Critical <=> lock = t
  /\ ppc = "handler_send" <=> lock = Parser

SlotInv == clientResp # None => lock \in Tasks /\ clientResp = RespOf(lock)

IInv == TypeInv /\ LockInv /\ SlotInv

-----------------------------------------------------------------------------
(* The helpers *)

LEMMA ObjectsOfTask ==
  ASSUME NEW t \in Tasks PROVE Own(t) \in Objects /\ Tmp(t) \in Objects
<1>1. RespUsed[t] \in Tasks
  BY ConstantsOK
<1> QED BY <1>1 DEF Objects, Own, Tmp

\* The response object of a call is one of the objects, or none.
LEMMA RespOfType ==
  ASSUME NEW t \in Tasks PROVE RespOf(t) \in Objects \cup {None}
BY ObjectsOfTask DEF RespOf

\* Clearing a response and storing a line leave a response.
LEMMA ClearedType == \A r \in Responses : Cleared(r) \in Responses
<1> SUFFICES ASSUME NEW r \in Responses PROVE Cleared(r) \in Responses
  OBVIOUS
<1>1. <<>> \in Seq(Lines)
  OBVIOUS
<1> QED BY <1>1 DEF Cleared, EmptyResp, Responses

LEMMA StoredType ==
  \A r \in Responses, l \in Lines : Stored(r, l) \in Responses
<1> SUFFICES ASSUME NEW r \in Responses, NEW l \in Lines
             PROVE Stored(r, l) \in Responses
  OBVIOUS
<1>1. Size(l.kind) \in Nat
  BY ConstantsOK DEF Size
<1>2. Append(r.lines, l) \in Seq(Lines)
  BY DEF Responses
<1>3. CASE Fits(r, l)
  <2>1. Stored(r, l) = [r EXCEPT !.lines = Append(@, l),
                                 !.len = @ + Size(l.kind)]
    BY <1>3 DEF Stored
  <2>2. r.len + Size(l.kind) \in Nat
    BY <1>1 DEF Responses
  <2> QED BY <1>2, <2>1, <2>2 DEF Responses
<1>4. CASE ~Fits(r, l)
  BY <1>4 DEF Stored, Responses
<1> QED BY <1>3, <1>4

\* An answer, numbered, is a sequence of lines.
LEMMA TaggedType ==
  \A a \in Seq(Kinds), n \in Nat : Tagged(a, n) \in Seq(Lines)
<1> SUFFICES ASSUME NEW a \in Seq(Kinds), NEW n \in Nat
             PROVE Tagged(a, n) \in Seq(Lines)
  OBVIOUS
<1>1. DOMAIN a = 1 .. Len(a) /\ Len(a) \in Nat
  OBVIOUS
<1>2. \A i \in 1 .. Len(a) : [kind |-> a[i], from |-> n] \in Lines
  BY DEF Lines
<1> QED BY <1>1, <1>2 DEF Tagged

LEMMA AnswersType == \A item \in Written : AnswersTo(item) \subseteq Seq(Kinds)
<1> SUFFICES ASSUME NEW item \in Written
             PROVE AnswersTo(item) \subseteq Seq(Kinds)
  OBVIOUS
<1>1. <<>> \in Seq(Kinds) /\ <<"payload">> \in Seq(Kinds)
  BY DEF Kinds, ReplyKinds
<1>2. item.line_num \in LineNums /\ item.type \in {"cmd", "data", "read"}
  BY DEF Written
<1>3. Answers[item.line_num] \subseteq Seq(Kinds) /\ DataAnswers \subseteq Seq(Kinds)
  BY <1>2, ConstantsOK
<1> QED BY <1>1, <1>2, <1>3 DEF AnswersTo

LEMMA GlueType == \A l \in Lines : Glue(l) \in Lines
BY DEF Glue, Lines, Kinds, ReplyKinds

LEMMA EmptyRespType == EmptyResp \in Responses
<1>1. <<>> \in Seq(Lines)
  OBVIOUS
<1> QED BY <1>1, ConstantsOK DEF EmptyResp, Responses

LEMMA NoLineType == NoLine \in Lines
BY DEF NoLine, Lines, Kinds, ReplyKinds

-----------------------------------------------------------------------------
(* Type correctness *)

LEMMA TypeInit == Init => TypeInv
<1> SUFFICES ASSUME Init PROVE TypeInv
  OBVIOUS
<1>1. /\ tx \in Seq(Written) /\ rx \in Seq(Lines)
      /\ given \in Seq(Seq(Kinds))
  BY DEF Init
<1>2. resp \in [Objects -> Responses]
  BY EmptyRespType DEF Init
<1>3. /\ pc \in [Tasks -> PcLabels]
      /\ call \in [Tasks -> CallKinds \cup {"none"}]
      /\ tries \in [Tasks -> Nat] /\ result \in [Tasks -> Results]
      /\ calls \in [Tasks -> Nat] /\ cmd \in [Tasks -> Nat]
  BY DEF Init, PcLabels, Results
<1>4. /\ ppc \in PpcLabels /\ pline \in Lines /\ presp \in Objects \cup {None}
      /\ partial \in BOOLEAN /\ ppc # "store"
  BY NoLineType DEF Init, PpcLabels
<1> QED BY <1>1, <1>2, <1>3, <1>4 DEF Init, TypeInv, TypeOK

\* Starting a call, and the steps of a call.
LEMMA TypeTask ==
  ASSUME TypeInv, NEW t \in Tasks, TaskStep(t) PROVE TypeInv'
<1> USE DEF TypeInv, TypeOK
<1>1. ASSUME NEW n \in LineNums, CallExec(t, n) PROVE TypeInv'
  <2>1. resp[Own(t)] \in Responses
    BY ObjectsOfTask
  <2>2. [resp[Own(t)] EXCEPT !.line_num = n] \in Responses
    BY <1>1, <2>1 DEF Responses
  <2>3. resp' \in [Objects -> Responses]
    BY <1>1, <2>2, ObjectsOfTask DEF CallExec
  <2> QED BY <1>1, <2>3 DEF CallExec, Begin, Goto, Return, PcLabels, Results,
          CallKinds, parserVars
<1>2. ASSUME CallExecNull(t) PROVE TypeInv'
  BY <1>2 DEF CallExecNull, Begin, Goto, Return, PcLabels, Results,
     CallKinds, parserVars
<1>3. ASSUME CallWaitConnect(t) PROVE TypeInv'
  BY <1>3, ObjectsOfTask, EmptyRespType DEF CallWaitConnect, Begin, Goto,
     Return, PcLabels, Results, CallKinds, parserVars
<1>4. ASSUME CallSend(t) PROVE TypeInv'
  BY <1>4 DEF CallSend, Begin, Goto, Return, PcLabels, Results, CallKinds,
     parserVars
<1>5. ASSUME NEW b \in BOOLEAN, SetEndSign(t, b) PROVE TypeInv'
  BY <1>5 DEF SetEndSign, taskVars, parserVars
<1>6. ASSUME TakeLock(t) PROVE TypeInv'
  BY <1>6 DEF TakeLock, Goto, PcLabels, parserVars
<1>7. ASSUME ExecPrepare(t) PROVE TypeInv'
  BY <1>7, ObjectsOfTask, RespOfType, ClearedType DEF ExecPrepare, Goto,
     PcLabels, parserVars
<1>8. ASSUME ConnectPrepare(t) PROVE TypeInv'
  BY <1>8, RespOfType DEF ConnectPrepare, Goto, PcLabels, parserVars
<1>9. ASSUME ResetSem(t) PROVE TypeInv'
  BY <1>9 DEF ResetSem, Goto, PcLabels, parserVars
<1>10. ASSUME ExecWrite(t) PROVE TypeInv'
  <2>1. tx' \in Seq(Written)
    BY <1>10, ObjectsOfTask, ConstantsOK DEF ExecWrite, Put, Written,
     Responses
  <2>2. NextNumber \in Nat
    BY DEF NextNumber
  <2>3. cmd' \in [Tasks -> Nat]
    BY <1>10, <2>2 DEF ExecWrite
  <2> QED BY <1>10, <2>1, <2>3 DEF ExecWrite, Goto, Return, PcLabels, Results,
          parserVars
<1>11. ASSUME ConnectGiveUp(t) PROVE TypeInv'
  BY <1>11 DEF ConnectGiveUp, Goto, Return, PcLabels, Results, parserVars
<1>12. ASSUME ConnectProbe(t) PROVE TypeInv'
  <2>1. tx' \in Seq(Written)
    BY <1>12, ConstantsOK DEF ConnectProbe, Put, Written
  <2>2. NextNumber \in Nat
    BY DEF NextNumber
  <2>3. cmd' \in [Tasks -> Nat]
    BY <1>12, <2>2 DEF ConnectProbe
  <2>4. resp' \in [Objects -> Responses]
    BY <1>12, ObjectsOfTask, ClearedType DEF ConnectProbe
  <2> QED BY <1>12, <2>1, <2>3, <2>4 DEF ConnectProbe, Goto, PcLabels,
     parserVars
<1>13. ASSUME SendWrite(t) PROVE TypeInv'
  BY <1>13, ConstantsOK DEF SendWrite, Put, Written, Goto, Return, PcLabels,
     Results, parserVars
<1>14. ASSUME Woken(t) PROVE TypeInv'
  BY <1>14 DEF Woken, Goto, Return, PcLabels, Results, parserVars
<1>15. ASSUME TimedOut(t) PROVE TypeInv'
  BY <1>15 DEF TimedOut, Goto, Return, PcLabels, Results, parserVars
<1>16. ASSUME CheckStatus(t) PROVE TypeInv'
  BY <1>16 DEF CheckStatus, Goto, Return, PcLabels, Results, parserVars
<1>17. ASSUME DeleteResp(t) PROVE TypeInv'
  BY <1>17, ObjectsOfTask DEF DeleteResp, Goto, PcLabels, parserVars
<1>18. ASSUME Finish(t) PROVE TypeInv'
  BY <1>18 DEF Finish, Goto, PcLabels, parserVars
<1> QED BY <1>1, <1>2, <1>3, <1>4, <1>5, <1>6, <1>7, <1>8, <1>9, <1>10, <1>11,
           <1>12, <1>13, <1>14, <1>15, <1>16, <1>17, <1>18
     DEF TaskStep, CallStep

LEMMA TypeParser ==
  ASSUME TypeInv, ParserStep PROVE TypeInv'
<1> USE DEF TypeInv, TypeOK
<1>1. ASSUME ReadPartial PROVE TypeInv'
  BY <1>1 DEF ReadPartial, Receive, taskVars, clientVars, PpcLabels
<1>2. ASSUME ReadUrc PROVE TypeInv'
  <2>1. ppc' \in {"handler_lock", "read"} /\ partial' \in BOOLEAN
    BY <1>2 DEF ReadUrc
  <2>2. rx' \in Seq(Lines)
    BY <1>2 DEF ReadUrc, Receive
  <2> QED BY <1>2, <2>1, <2>2 DEF ReadUrc, taskVars, clientVars, PpcLabels
<1>3. ASSUME ReadUnrecognized PROVE TypeInv'
  <2>1. rx' \in Seq(Lines) /\ ppc = "read"
    BY <1>3 DEF ReadUnrecognized, Receive
  <2> QED BY <1>3, <2>1 DEF ReadUnrecognized, taskVars, clientVars
<1>4. ASSUME ReadResponse PROVE TypeInv'
  <2>1. rx' \in Seq(Lines) /\ Head(rx) \in Lines
    BY <1>4 DEF ReadResponse, Receive
  <2>2. pline' \in Lines
    BY <1>4, <2>1, GlueType DEF ReadResponse, Incoming
  <2>3. presp' \in Objects
    BY <1>4 DEF ReadResponse
  <2> QED BY <1>4, <2>1, <2>2, <2>3 DEF ReadResponse, taskVars, clientVars,
          PpcLabels
<1>5. ASSUME StoreLine PROVE TypeInv'
  BY <1>5, StoredType, NoLineType DEF StoreLine, taskVars, clientVars,
     PpcLabels
<1>6. ASSUME ClearResp PROVE TypeInv'
  BY <1>6 DEF ClearResp, taskVars, clientVars, PpcLabels
<1>7. ASSUME Notify PROVE TypeInv'
  BY <1>7 DEF Notify, taskVars, clientVars, PpcLabels
<1>8. ASSUME HandlerLock PROVE TypeInv'
  BY <1>8 DEF HandlerLock, taskVars, clientVars, PpcLabels
<1>9. ASSUME HandlerSend PROVE TypeInv'
  BY <1>9, ConstantsOK DEF HandlerSend, Put, Written, taskVars, clientVars,
     PpcLabels
<1>10. ASSUME HandlerRecv PROVE TypeInv'
  BY <1>10 DEF HandlerRecv, taskVars, clientVars, PpcLabels
<1>11. ASSUME HandlerRecvTimedOut PROVE TypeInv'
  BY <1>11 DEF HandlerRecvTimedOut, taskVars, clientVars, PpcLabels
<1> QED BY <1>1, <1>2, <1>3, <1>4, <1>5, <1>6, <1>7, <1>8, <1>9, <1>10, <1>11
     DEF ParserStep

LEMMA TypeModem ==
  ASSUME TypeInv, ModemStep PROVE TypeInv'
<1> USE DEF TypeInv, TypeOK
<1>1. ASSUME ModemAnswer PROVE TypeInv'
  <2>1. PICK a \in AnswersTo(Head(tx)) :
          /\ rx' = rx \o Tagged(a, Len(given) + 1)
          /\ given' = Append(given, a)
    BY <1>1 DEF ModemAnswer
  <2>2. a \in Seq(Kinds) /\ tx' \in Seq(Written)
    BY <1>1, AnswersType DEF ModemAnswer
  <2>3. Tagged(a, Len(given) + 1) \in Seq(Lines)
    BY <2>2, TaggedType
  <2>4. rx' \in Seq(Lines) /\ given' \in Seq(Seq(Kinds))
    BY <2>1, <2>2, <2>3
  <2> QED BY <1>1, <2>2, <2>4 DEF ModemAnswer, taskVars, parserVars,
     clientVars
<1>2. ASSUME ModemUrc PROVE TypeInv'
  <2>1. \A k \in Urcs : [kind |-> k, from |-> 0] \in Lines
    BY ConstantsOK DEF Lines, Kinds
  <2>2. rx' \in Seq(Lines)
    BY <1>2, <2>1 DEF ModemUrc
  <2> QED BY <1>2, <2>2 DEF ModemUrc, taskVars, parserVars, clientVars
<1> QED BY <1>1, <1>2 DEF ModemStep

LEMMA TypeStutter == TypeInv /\ UNCHANGED vars => TypeInv'
BY DEF TypeInv, TypeOK, vars, taskVars, parserVars

LEMMA TypeNext == TypeInv /\ [Next]_vars => TypeInv'
BY TypeTask, TypeParser, TypeModem, TypeStutter DEF Next, Terminated

\* Every variable of the client keeps its type: in particular the parser only
\* ever stores into a response object, and resp_notice stays binary.
THEOREM TypeCorrect == Spec => []TypeOK
<1>1. TypeInv => TypeOK
  BY DEF TypeInv
<1> QED BY TypeInit, TypeNext, <1>1, PTL DEF Spec

-----------------------------------------------------------------------------
(* Who holds the mutex, and whose response the parser may fill *)

LEMMA LockInit == Init => LockInv /\ SlotInv
BY ConstantsOK DEF Init, LockInv, SlotInv, Critical

\* A call that holds the mutex is the only one, so what it does to client->resp
\* it does to its own response.
LEMMA LockTask ==
  ASSUME IInv, NEW t \in Tasks, TaskStep(t) PROVE LockInv' /\ SlotInv'
<1> USE DEF LockInv, SlotInv, Critical
<1>0. /\ pc \in [Tasks -> PcLabels]
      /\ call \in [Tasks -> CallKinds \cup {"none"}]
      /\ LockInv /\ SlotInv
      /\ None \notin Tasks /\ Parser \notin Tasks /\ Parser # None
  BY ConstantsOK DEF IInv, TypeInv, TypeOK
<1>1. ASSUME NEW k \in CallKinds, Begin(t, k) PROVE LockInv' /\ SlotInv'
  <2>1. lock # t
    BY <1>0, <1>1 DEF Begin
  <2>2. LockInv'
    BY <1>0, <1>1, <2>1 DEF Begin, Return, Goto, parserVars
  <2>3. SlotInv'
    BY <1>0, <1>1, <2>1 DEF Begin, RespOf
  <2> QED BY <2>2, <2>3
<1>2. ASSUME NEW bb \in BOOLEAN, SetEndSign(t, bb) PROVE LockInv' /\ SlotInv'
  BY <1>0, <1>2 DEF SetEndSign, taskVars, parserVars, RespOf
<1>3. ASSUME TakeLock(t) PROVE LockInv' /\ SlotInv'
  BY <1>0, <1>3 DEF TakeLock, Goto, parserVars, RespOf
<1>4. ASSUME ExecPrepare(t) PROVE LockInv' /\ SlotInv'
  BY <1>0, <1>4 DEF ExecPrepare, Goto, parserVars, RespOf
<1>5. ASSUME ConnectPrepare(t) PROVE LockInv' /\ SlotInv'
  BY <1>0, <1>5 DEF ConnectPrepare, Goto, parserVars, RespOf
<1>6. ASSUME ResetSem(t) PROVE LockInv' /\ SlotInv'
  BY <1>0, <1>6 DEF ResetSem, Goto, parserVars, RespOf
<1>7. ASSUME ExecWrite(t) PROVE LockInv' /\ SlotInv'
  BY <1>0, <1>7 DEF ExecWrite, Return, Goto, parserVars, RespOf
<1>8. ASSUME ConnectGiveUp(t) PROVE LockInv' /\ SlotInv'
  BY <1>0, <1>8 DEF ConnectGiveUp, Return, Goto, parserVars, RespOf
<1>9. ASSUME ConnectProbe(t) PROVE LockInv' /\ SlotInv'
  BY <1>0, <1>9 DEF ConnectProbe, Goto, parserVars, RespOf
<1>10. ASSUME SendWrite(t) PROVE LockInv' /\ SlotInv'
  BY <1>0, <1>10 DEF SendWrite, Return, Goto, parserVars, RespOf
<1>11. ASSUME Woken(t) PROVE LockInv' /\ SlotInv'
  BY <1>0, <1>11 DEF Woken, Return, Goto, parserVars, RespOf
<1>12. ASSUME TimedOut(t) PROVE LockInv' /\ SlotInv'
  BY <1>0, <1>12 DEF TimedOut, Return, Goto, parserVars, RespOf
<1>13. ASSUME CheckStatus(t) PROVE LockInv' /\ SlotInv'
  BY <1>0, <1>13 DEF CheckStatus, Return, Goto, parserVars, RespOf
<1>14. ASSUME DeleteResp(t) PROVE LockInv' /\ SlotInv'
  BY <1>0, <1>14 DEF DeleteResp, Goto, parserVars, RespOf
<1>15. ASSUME Finish(t) PROVE LockInv' /\ SlotInv'
  BY <1>0, <1>15 DEF Finish, Goto, parserVars, RespOf
<1> QED BY <1>1, <1>2, <1>3, <1>4, <1>5, <1>6, <1>7, <1>8, <1>9, <1>10, <1>11,
           <1>12, <1>13, <1>14, <1>15
     DEF TaskStep, CallStep, CallExec, CallExecNull, CallWaitConnect, CallSend,
         CallKinds

\* The parser only ever takes a response out of client->resp, and holds the
\* mutex only inside a URC handler.
LEMMA LockParser ==
  ASSUME IInv, ParserStep PROVE LockInv' /\ SlotInv'
<1> USE DEF LockInv, SlotInv, Critical
<1>0. /\ LockInv /\ SlotInv
      /\ None \notin Tasks /\ Parser \notin Tasks /\ Parser # None
  BY ConstantsOK DEF IInv
<1>1. ASSUME ReadPartial PROVE LockInv' /\ SlotInv'
  BY <1>0, <1>1 DEF ReadPartial, Receive, taskVars, clientVars, RespOf
<1>2. ASSUME ReadUrc PROVE LockInv' /\ SlotInv'
  BY <1>0, <1>2 DEF ReadUrc, Receive, taskVars, clientVars, RespOf
<1>3. ASSUME ReadUnrecognized PROVE LockInv' /\ SlotInv'
  BY <1>0, <1>3 DEF ReadUnrecognized, Receive, taskVars, clientVars, RespOf
<1>4. ASSUME ReadResponse PROVE LockInv' /\ SlotInv'
  BY <1>0, <1>4 DEF ReadResponse, Receive, taskVars, clientVars, RespOf
<1>5. ASSUME StoreLine PROVE LockInv' /\ SlotInv'
  BY <1>0, <1>5 DEF StoreLine, taskVars, clientVars, RespOf
<1>6. ASSUME ClearResp PROVE LockInv' /\ SlotInv'
  BY <1>0, <1>6 DEF ClearResp, taskVars, clientVars, RespOf
<1>7. ASSUME Notify PROVE LockInv' /\ SlotInv'
  BY <1>0, <1>7 DEF Notify, taskVars, clientVars, RespOf
<1>8. ASSUME HandlerLock PROVE LockInv' /\ SlotInv'
  BY <1>0, <1>8 DEF HandlerLock, taskVars, clientVars, RespOf
<1>9. ASSUME HandlerSend PROVE LockInv' /\ SlotInv'
  BY <1>0, <1>9 DEF HandlerSend, taskVars, clientVars, RespOf
<1>10. ASSUME HandlerRecv PROVE LockInv' /\ SlotInv'
  BY <1>0, <1>10 DEF HandlerRecv, taskVars, clientVars, RespOf
<1>11. ASSUME HandlerRecvTimedOut PROVE LockInv' /\ SlotInv'
  BY <1>0, <1>11 DEF HandlerRecvTimedOut, taskVars, clientVars, RespOf
<1> QED BY <1>1, <1>2, <1>3, <1>4, <1>5, <1>6, <1>7, <1>8, <1>9, <1>10, <1>11
     DEF ParserStep

LEMMA LockOthers ==
  ASSUME IInv, ModemStep \/ UNCHANGED vars PROVE LockInv' /\ SlotInv'
BY DEF IInv, LockInv, SlotInv, RespOf, ModemStep, ModemAnswer, ModemUrc, vars,
   clientVars, taskVars, parserVars

LEMMA InvInit == Init => IInv
BY TypeInit, LockInit DEF IInv

LEMMA InvNext == IInv /\ [Next]_vars => IInv'
<1> SUFFICES ASSUME IInv, [Next]_vars PROVE IInv'
  OBVIOUS
<1>1. TypeInv'
  BY TypeNext DEF IInv
<1>2. LockInv' /\ SlotInv'
  BY LockTask, LockParser, LockOthers DEF Next, Terminated
<1> QED BY <1>1, <1>2 DEF IInv

LEMMA InvAlways == Spec => []IInv
BY InvInit, InvNext, PTL DEF Spec

\* Whenever client->resp is set, it is the response of the call that holds
\* client->lock, whatever the modem sends and whenever it sends it.
THEOREM SlotSafe == Spec => []SlotBelongsToLockHolder
<1>1. IInv => SlotBelongsToLockHolder
  BY DEF IInv, SlotInv, SlotBelongsToLockHolder
<1> QED BY InvAlways, <1>1, PTL

-----------------------------------------------------------------------------
(* The serial line *)

Quieter == \A t \in Tasks : pc[t] \in {"wait", "check"} => Len(tx') <= Len(tx)

LEMMA QuietStep == IInv /\ [Next]_vars => Quieter
<1> SUFFICES ASSUME IInv, [Next]_vars, NEW t \in Tasks,
                    pc[t] \in {"wait", "check"}
             PROVE Len(tx') <= Len(tx)
  BY DEF Quieter
<1>0. tx \in Seq(Written) /\ lock = t /\ t # Parser
  BY ConstantsOK DEF IInv, TypeInv, TypeOK, LockInv, Critical
<1>1. tx' = tx => Len(tx') <= Len(tx)
  BY <1>0
<1>2. ASSUME NEW u \in Tasks, TaskStep(u) PROVE tx' = tx
  <2>1. pc[u] # "write"
    BY <1>0 DEF IInv, LockInv, Critical
  <2>2. ~ExecWrite(u) /\ ~ConnectGiveUp(u) /\ ~ConnectProbe(u) /\ ~SendWrite(u)
    BY <2>1 DEF ExecWrite, ConnectGiveUp, ConnectProbe, SendWrite
  <2>3. CASE CallStep(u)
    BY <2>2, <2>3 DEF CallStep, TakeLock, ExecPrepare, ConnectPrepare,
       ResetSem, Woken, TimedOut, CheckStatus, DeleteResp, Finish
  <2> QED BY <1>2, <2>3 DEF TaskStep, CallExec, CallExecNull, CallWaitConnect,
          CallSend, Begin, SetEndSign
<1>3. ASSUME ParserStep PROVE tx' = tx
  <2>1. ~HandlerSend
    BY <1>0 DEF IInv, LockInv, HandlerSend
  <2> QED BY <1>3, <2>1 DEF ParserStep, ReadPartial, ReadUrc, ReadUnrecognized,
          ReadResponse, StoreLine, ClearResp, Notify, HandlerLock, HandlerRecv,
          HandlerRecvTimedOut
<1>4. ASSUME ModemStep PROVE Len(tx') <= Len(tx)
  BY <1>0, <1>4 DEF ModemStep, ModemAnswer, ModemUrc
<1>5. ASSUME UNCHANGED vars PROVE tx' = tx
  BY <1>5 DEF vars
<1> QED BY <1>1, <1>2, <1>3, <1>4, <1>5 DEF Next, Terminated

\* While a task waits for an answer or looks at its status, nobody writes to the
\* serial line, not even a URC handler in the parser thread.
THEOREM LineQuiet == Spec => LineIsQuietWhileWaiting
<1>1. IInv /\ [Next]_vars => [Quieter]_vars
  BY QuietStep
<1>2. [][Quieter]_vars => LineIsQuietWhileWaiting
  BY DEF Quieter, LineIsQuietWhileWaiting
<1> QED BY InvAlways, <1>1, <1>2, PTL DEF Spec

-----------------------------------------------------------------------------
(* The answer to the command on its way, with prompt answers *)

\* Of the lines s, those after the first k of the answer a, numbered n, with
\* notifications in front and behind.
OnlyUrcs(s) == \A i \in DOMAIN s : s[i].kind \in Urcs
Rest(s, a, n, k) ==
  \E p \in 0 .. Len(s) :
    /\ p + (Len(a) - k) <= Len(s)
    /\ \A i \in DOMAIN s :
         IF p < i /\ i <= p + (Len(a) - k)
         THEN s[i] = [kind |-> a[k + i - p], from |-> n]
         ELSE s[i].kind \in Urcs

\* The response r holds the first k lines of the answer a, numbered n, unless
\* one of them was too long or there are too many.
LongIn(a, k) == \E i \in 1 .. k : a[i] = "long"
Holds(r, a, n, k) ==
  /\ Len(r.lines) <= k /\ r.len = Len(r.lines)
  /\ \/ r.full
     \/ /\ Len(r.lines) = k
        /\ \A i \in 1 .. k : r.lines[i] = [kind |-> a[i], from |-> n]
  /\ LongIn(a, k) => r.full
  /\ r.full => LongIn(a, k) \/ Len(a) >= BufSize
Fresh(r) == r.lines = <<>> /\ r.len = 0 /\ ~r.full

\* The line k ends the response r (a prompt does not occur).
Ends(k, r) ==
  \/ k = "error"
  \/ r.line_num = 0 /\ k = "ok"
  \/ r.line_num # 0 /\ Len(r.lines) = r.line_num
StatusOf(a) == IF Has(a, "error") THEN "error" ELSE "ok"

Resp(t) == resp[RespOf(t)]
Mine(t) == given[cmd[t]]

\* The command of t is written, and not answered.
Sent(t) ==
  /\ tx = <<[type |-> "cmd", line_num |-> Resp(t).line_num]>>
  /\ ppc = "read" /\ sem = 0 /\ OnlyUrcs(rx)
  /\ clientResp = RespOf(t) /\ cmd[t] = Len(given) + 1
  /\ Fresh(Resp(t))

\* It is answered; the parser has taken k lines of the answer from rx, and is
\* to read the next one, or stores the last one, or has seen the final one.
Listening(t, k) ==
  /\ ppc = "read" /\ sem = 0 /\ clientResp = RespOf(t)
  /\ Holds(Resp(t), Mine(t), cmd[t], k)
  /\ k > 0 => ~Ends(Mine(t)[k], Resp(t))
Storing(t, k) ==
  /\ ppc = "store" /\ sem = 0 /\ clientResp = RespOf(t) /\ presp = RespOf(t)
  /\ k > 0 /\ pline = [kind |-> Mine(t)[k], from |-> cmd[t]]
  /\ Holds(Resp(t), Mine(t), cmd[t], k - 1)
Ended(t, k) ==
  /\ k = Len(Mine(t)) /\ Holds(Resp(t), Mine(t), cmd[t], k)
  /\ k > 0 /\ Ends(Mine(t)[k], Resp(t)) /\ respStatus = StatusOf(Mine(t))
  /\ \/ ppc = "clear" /\ sem = 0 /\ clientResp = RespOf(t)
     \/ ppc = "notify" /\ sem = 0
     \/ ppc = "read" /\ sem = 1
Answered(t, k) ==
  /\ tx = <<>> /\ cmd[t] \in DOMAIN given
  /\ Mine(t) \in Answers[Resp(t).line_num]
  /\ k \in 0 .. Len(Mine(t)) /\ Rest(rx, Mine(t), cmd[t], k)
  /\ Listening(t, k) \/ Storing(t, k) \/ Ended(t, k)

OnTheWay(t) == Sent(t) \/ \E k \in Nat : Answered(t, k)
Idle == tx = <<>> /\ ppc = "read" /\ sem = 0 /\ OnlyUrcs(rx)

WaitInv == \A t \in Tasks : pc[t] = "wait" => OnTheWay(t)
IdleInv == (\A t \in Tasks : pc[t] # "wait") => Idle

\* The calls that come before and after: a response is empty when its command is
\* written, and nobody touches it from the final line to the next call.
CallInv ==
  /\ ~partial
  /\ \A t \in Tasks :
       /\ resp[Tmp(t)].line_num = 0
       /\ call[t] \in {"none", "exec", "wait_connect"}
       /\ pc[t] # "idle" => call[t] # "none"
       /\ pc[t] = "delete" => call[t] # "exec"
       /\ pc[t] \in {"reset", "write"} =>
            /\ clientResp = RespOf(t)
            /\ call[t] = "exec" => Fresh(resp[Own(t)])

\* The answer is all in the response; whether its last line ended the response
\* decides what the call returns.
Kept(t) ==
  /\ call[t] = "exec" /\ cmd[t] \in DOMAIN given
  /\ Mine(t) \in Answers[resp[Own(t)].line_num]
  /\ Holds(resp[Own(t)], Mine(t), cmd[t], Len(Mine(t)))
Final(t) ==
  Len(Mine(t)) > 0 /\ Ends(Mine(t)[Len(Mine(t))], resp[Own(t)])
Due(t) == IF Final(t) THEN StatusOf(Mine(t)) ELSE "timeout"
ReportInv ==
  \A t \in Tasks :
    /\ pc[t] = "check" => Kept(t) /\ Final(t) /\ respStatus = Due(t)
    /\ call[t] = "exec" /\ pc[t] \in {"finish", "idle"} =>
         Kept(t) /\ result[t] = Due(t)

LineInv == IInv /\ WaitInv /\ IdleInv /\ CallInv /\ ReportInv

-----------------------------------------------------------------------------
(* The answer in rx *)

LEMMA SameLength ==
  ASSUME NEW x \in Nat, NEW y \in Nat, 1 .. x = 1 .. y PROVE x = y
<1>1. x # 0 => x \in 1 .. y
  <2>1. x # 0 => x \in 1 .. x
    OBVIOUS
  <2> QED BY <2>1
<1>2. y # 0 => y \in 1 .. x
  <2>1. y # 0 => y \in 1 .. y
    OBVIOUS
  <2> QED BY <2>1
<1>3. x <= y /\ y <= x
  BY <1>1, <1>2
<1> QED BY <1>3

LEMMA RestStart ==
  ASSUME NEW s \in Seq(Lines), OnlyUrcs(s), NEW a \in Seq(Kinds), NEW n \in Nat
  PROVE  Rest(s \o Tagged(a, n), a, n, 0)
<1> DEFINE b == Tagged(a, n)
<1>1. b \in Seq(Lines) /\ Len(b) = Len(a)
      /\ \A i \in 1 .. Len(a) : b[i] = [kind |-> a[i], from |-> n]
  <2>1. b \in Seq(Lines)
    BY TaggedType
  <2>2. DOMAIN b = DOMAIN a /\ DOMAIN b = 1 .. Len(b) /\ DOMAIN a = 1 .. Len(a)
    BY <2>1 DEF Tagged
  <2>3. Len(a) \in Nat /\ Len(b) \in Nat
    BY <2>1
  <2>4. Len(b) = Len(a)
    BY <2>2, <2>3, SameLength
  <2> QED BY <2>1, <2>2, <2>4 DEF Tagged
<1>2. Len(s \o b) = Len(s) + Len(a) /\ Len(s) \in Nat /\ Len(a) \in Nat
  BY <1>1
<1>3. ASSUME NEW i \in DOMAIN (s \o b)
      PROVE  IF Len(s) < i /\ i <= Len(s) + (Len(a) - 0)
             THEN (s \o b)[i] = [kind |-> a[0 + i - Len(s)], from |-> n]
             ELSE (s \o b)[i].kind \in Urcs
  <2>1. i \in 1 .. (Len(s) + Len(a))
    BY <1>1, <1>2
  <2>2. CASE i <= Len(s)
    <3>1. (s \o b)[i] = s[i] /\ i \in DOMAIN s
      BY <1>1, <1>2, <2>1, <2>2
    <3> QED BY <3>1, <1>2, <2>1, <2>2 DEF OnlyUrcs
  <2>3. CASE i > Len(s)
    <3>1. (s \o b)[i] = b[i - Len(s)] /\ i - Len(s) \in 1 .. Len(a)
      BY <1>1, <1>2, <2>1, <2>3
    <3> QED BY <3>1, <1>1, <1>2, <2>1, <2>3
  <2> QED BY <1>2, <2>1, <2>2, <2>3
<1>4. Len(s) \in 0 .. Len(s \o b) /\ Len(s) + (Len(a) - 0) <= Len(s \o b)
  BY <1>2
<1> QED BY <1>3, <1>4 DEF Rest

\* A notification comes behind, or is taken from the front.
LEMMA RestAppend ==
  ASSUME NEW s \in Seq(Lines), NEW a \in Seq(Kinds), NEW n \in Nat,
         NEW k \in 0 .. Len(a), Rest(s, a, n, k),
         NEW l \in Lines, l.kind \in Urcs
  PROVE  Rest(Append(s, l), a, n, k)
<1>1. PICK p \in 0 .. Len(s) :
        /\ p + (Len(a) - k) <= Len(s)
        /\ \A i \in DOMAIN s :
             IF p < i /\ i <= p + (Len(a) - k)
             THEN s[i] = [kind |-> a[k + i - p], from |-> n]
             ELSE s[i].kind \in Urcs
  BY DEF Rest
<1>2. Len(Append(s, l)) = Len(s) + 1 /\ Len(s) \in Nat /\ Len(a) \in Nat
  OBVIOUS
<1>3. ASSUME NEW i \in DOMAIN Append(s, l)
      PROVE  IF p < i /\ i <= p + (Len(a) - k)
             THEN Append(s, l)[i] = [kind |-> a[k + i - p], from |-> n]
             ELSE Append(s, l)[i].kind \in Urcs
  <2>1. i \in 1 .. Len(s) + 1
    BY <1>2
  <2>2. CASE i <= Len(s)
    <3>1. Append(s, l)[i] = s[i] /\ i \in DOMAIN s
      BY <1>2, <2>1, <2>2
    <3> QED BY <3>1, <1>1
  <2>3. CASE i = Len(s) + 1
    <3>1. Append(s, l)[i] = l /\ ~(i <= p + (Len(a) - k))
      BY <1>1, <1>2, <2>3
    <3> QED BY <3>1
  <2> QED BY <1>2, <2>1, <2>2, <2>3
<1>4. p \in 0 .. Len(Append(s, l)) /\ p + (Len(a) - k) <= Len(Append(s, l))
  BY <1>1, <1>2
<1> QED BY <1>3, <1>4 DEF Rest

LEMMA TailFacts ==
  ASSUME NEW s \in Seq(Lines), s # <<>>
  PROVE  /\ Head(s) = s[1] /\ Tail(s) \in Seq(Lines) /\ 1 \in DOMAIN s
         /\ Len(s) \in Nat \ {0} /\ Len(Tail(s)) = Len(s) - 1
         /\ \A i \in DOMAIN Tail(s) : Tail(s)[i] = s[i + 1] /\ i + 1 \in DOMAIN s
                                      /\ i \in 1 .. Len(s) - 1
OBVIOUS

LEMMA OnlyUrcsTail ==
  ASSUME NEW s \in Seq(Lines), OnlyUrcs(s), s # <<>>
  PROVE  Head(s).kind \in Urcs /\ OnlyUrcs(Tail(s))
BY TailFacts DEF OnlyUrcs

\* The first line is a notification, or the next line of the answer.
LEMMA RestUrc ==
  ASSUME NEW s \in Seq(Lines), NEW a \in Seq(Kinds), NEW n \in Nat,
         NEW k \in 0 .. Len(a), Rest(s, a, n, k),
         s # <<>>, Head(s).kind \in UrcKinds,
         \A i \in DOMAIN a : a[i] \in ReplyKinds
  PROVE  Head(s).kind \in Urcs /\ Rest(Tail(s), a, n, k)
<1>0. PICK m \in Nat : m = Len(a) - k
  OBVIOUS
<1>1. PICK p \in 0 .. Len(s) :
        /\ p + m <= Len(s)
        /\ \A i \in DOMAIN s :
             IF p < i /\ i <= p + m
             THEN s[i] = [kind |-> a[k + i - p], from |-> n]
             ELSE s[i].kind \in Urcs
  BY <1>0 DEF Rest
<1>2. Len(a) \in Nat /\ DOMAIN a = 1 .. Len(a) /\ Len(s) \in Nat
  OBVIOUS
<1>3. p = 0 => m = 0
  <2> SUFFICES ASSUME p = 0, m > 0 PROVE FALSE
    OBVIOUS
  <2>0. k + 1 - p = k + 1 /\ p < 1 /\ 1 <= p + m /\ 1 \in DOMAIN s
    BY TailFacts
  <2>1. s[1] = [kind |-> a[k + 1], from |-> n]
    BY <1>1, <2>0
  <2>2. k + 1 \in DOMAIN a
    BY <1>0, <1>2
  <2> QED BY <2>1, <2>2, TailFacts DEF UrcKinds, ReplyKinds
<1>4. s[1].kind \in Urcs
  BY <1>1, <1>2, <1>3, TailFacts
<1> DEFINE q == IF p = 0 THEN 0 ELSE p - 1
<1>5. q \in 0 .. Len(Tail(s)) /\ q + m <= Len(Tail(s))
  BY <1>1, <1>2, <1>3, TailFacts
<1>6. ASSUME NEW i \in DOMAIN Tail(s)
      PROVE  IF q < i /\ i <= q + m
             THEN Tail(s)[i] = [kind |-> a[k + i - q], from |-> n]
             ELSE Tail(s)[i].kind \in Urcs
  <2>1. Tail(s)[i] = s[i + 1] /\ i + 1 \in DOMAIN s /\ i \in Nat
    BY TailFacts
  <2>2. IF p < i + 1 /\ i + 1 <= p + m
        THEN s[i + 1] = [kind |-> a[k + (i + 1) - p], from |-> n]
        ELSE s[i + 1].kind \in Urcs
    BY <1>1, <2>1
  <2>3. CASE p = 0
    <3>1. m = 0 /\ q = 0
      BY <1>3, <2>3
    <3>2. ~(i + 1 <= p + m) /\ ~(i <= q + m)
      BY <1>5, <2>1, <2>3, <3>1, TailFacts
    <3> QED BY <2>1, <2>2, <3>2
  <2>4. CASE p > 0
    <3>1. k + (i + 1) - p = k + i - q /\ (q < i <=> p < i + 1)
          /\ (i <= q + m <=> i + 1 <= p + m)
      BY <1>2, <2>1, <2>4
    <3> QED BY <2>1, <2>2, <3>1
  <2> QED BY <2>3, <2>4
<1> QED BY <1>0, <1>4, <1>5, <1>6, TailFacts DEF Rest

LEMMA RestReply ==
  ASSUME NEW s \in Seq(Lines), NEW a \in Seq(Kinds), NEW n \in Nat,
         NEW k \in 0 .. Len(a), Rest(s, a, n, k),
         s # <<>>, Head(s).kind \notin Urcs
  PROVE  /\ k + 1 \in 1 .. Len(a) /\ Head(s) = [kind |-> a[k + 1], from |-> n]
         /\ Rest(Tail(s), a, n, k + 1)
<1>1. PICK p \in 0 .. Len(s) :
        /\ p + (Len(a) - k) <= Len(s)
        /\ \A i \in DOMAIN s :
             IF p < i /\ i <= p + (Len(a) - k)
             THEN s[i] = [kind |-> a[k + i - p], from |-> n]
             ELSE s[i].kind \in Urcs
  BY DEF Rest
<1>2. Len(a) \in Nat /\ Len(s) \in Nat
  OBVIOUS
<1>3. p = 0 /\ Len(a) - k > 0
  BY <1>1, <1>2, TailFacts
<1>4. k + 1 \in 1 .. Len(a) /\ Head(s) = [kind |-> a[k + 1], from |-> n]
  BY <1>1, <1>2, <1>3, TailFacts
<1>5. ASSUME NEW i \in DOMAIN Tail(s)
      PROVE  IF 0 < i /\ i <= 0 + (Len(a) - (k + 1))
             THEN Tail(s)[i] = [kind |-> a[k + 1 + i - 0], from |-> n]
             ELSE Tail(s)[i].kind \in Urcs
  <2>1. Tail(s)[i] = s[i + 1] /\ i + 1 \in DOMAIN s /\ i \in Nat \ {0}
    BY TailFacts
  <2>2. IF p < i + 1 /\ i + 1 <= p + (Len(a) - k)
        THEN s[i + 1] = [kind |-> a[k + (i + 1) - p], from |-> n]
        ELSE s[i + 1].kind \in Urcs
    BY <1>1, <2>1
  <2>3. k + 1 + i - 0 = k + (i + 1) - p
    BY <1>2, <1>3, <2>1
  <2> QED BY <1>2, <1>3, <2>1, <2>2, <2>3
<1>6. 0 \in 0 .. Len(Tail(s)) /\ 0 + (Len(a) - (k + 1)) <= Len(Tail(s))
  BY <1>1, <1>2, <1>3, TailFacts
<1> QED BY <1>4, <1>5, <1>6 DEF Rest

LEMMA RestOver ==
  ASSUME NEW s \in Seq(Lines), NEW a \in Seq(Kinds), NEW n \in Nat,
         Rest(s, a, n, Len(a))
  PROVE  OnlyUrcs(s)
<1>1. PICK p \in 0 .. Len(s) :
        \A i \in DOMAIN s :
          IF p < i /\ i <= p + (Len(a) - Len(a))
          THEN s[i] = [kind |-> a[Len(a) + i - p], from |-> n]
          ELSE s[i].kind \in Urcs
  BY DEF Rest
<1>2. Len(a) \in Nat /\ \A i \in DOMAIN s : i \in Nat
  OBVIOUS
<1> QED BY <1>1, <1>2 DEF OnlyUrcs

LEMMA RestNothing ==
  ASSUME NEW a \in Seq(Kinds), NEW n \in Nat, NEW k \in 0 .. Len(a),
         Rest(<<>>, a, n, k)
  PROVE  k = Len(a)
BY DEF Rest

-----------------------------------------------------------------------------
(* The answer in the response *)

LEMMA AnswerFacts ==
  ASSUME ReliableModem, NEW n \in LineNums, NEW a \in Answers[n]
  PROVE  /\ a \in Seq(Kinds) /\ DOMAIN a = 1 .. Len(a) /\ Len(a) \in Nat
         /\ \A i \in DOMAIN a : a[i] \in ReplyKinds /\ a[i] # "prompt"
         /\ \A i \in DOMAIN a :
              a[i] = "error" \/ (n = 0 /\ a[i] = "ok") => i = Len(a)
         /\ n # 0 => Len(a) <= n
         /\ Reply(a) = a
<1>1. a \in Seq(ReplyKinds \ {"prompt"}) /\ a \in Seq(Kinds)
  BY ConstantsOK DEF ReliableModem
<1>2. \A i \in DOMAIN a : a[i] \in ReplyKinds \ {"prompt"}
  BY <1>1
<1> QED BY <1>1, <1>2 DEF ReliableModem

LEMMA EndsMeans ==
  ASSUME NEW k \in Kinds, k # "prompt", NEW r \in Responses
  PROVE  Ends(k, r) <=> EndsError(k) \/ EndsOk(k, r)
BY DEF Ends, EndsError, EndsOk

LEMMA HoldsFresh ==
  ASSUME NEW r \in Responses, Fresh(r), NEW a \in Seq(Kinds), NEW n \in Nat
  PROVE  Holds(r, a, n, 0)
BY DEF Fresh, Holds, LongIn

\* Storing the k-th line of an answer.
LEMMA HoldsStore ==
  ASSUME NEW r \in Responses, NEW a \in Seq(Kinds), NEW n \in Nat,
         NEW k \in 1 .. Len(a), Holds(r, a, n, k - 1)
  PROVE  LET q == Stored(r, [kind |-> a[k], from |-> n])
         IN  Holds(q, a, n, k) /\ q.line_num = r.line_num
<1> DEFINE l == [kind |-> a[k], from |-> n]
<1>1. /\ r.lines \in Seq(Lines) /\ Len(r.lines) \in Nat /\ r.full \in BOOLEAN
      /\ BufSize \in Nat /\ k \in Nat \ {0} /\ Len(a) \in Nat /\ k <= Len(a)
  BY ConstantsOK DEF Responses
<1>2. /\ Len(r.lines) <= k - 1 /\ r.len = Len(r.lines)
      /\ \/ r.full
         \/ /\ Len(r.lines) = k - 1
            /\ \A i \in 1 .. k - 1 : r.lines[i] = [kind |-> a[i], from |-> n]
      /\ LongIn(a, k - 1) => r.full
      /\ r.full => LongIn(a, k - 1) \/ Len(a) >= BufSize
  BY DEF Holds
<1>3. LongIn(a, k) <=> LongIn(a, k - 1) \/ a[k] = "long"
  <2>1. 1 .. k = 1 .. k - 1 \cup {k}
    BY <1>1
  <2> QED BY <2>1 DEF LongIn
<1>4. CASE Fits(r, l)
  <2>1. a[k] # "long"
    <3> SUFFICES ASSUME a[k] = "long" PROVE FALSE
      OBVIOUS
    <3>1. Size(l.kind) = BufSize
      BY DEF Size
    <3> QED BY <1>1, <1>2, <1>4, <3>1 DEF Fits
  <2>2. Size(l.kind) = 1
    BY <2>1 DEF Size
  <2> DEFINE q == [r EXCEPT !.lines = Append(r.lines, l), !.len = r.len + 1]
  <2>3. Stored(r, l) = q
    BY <1>4, <2>2 DEF Stored
  <2>4. /\ q.lines = Append(r.lines, l) /\ q.len = r.len + 1 /\ q.full = r.full
        /\ q.line_num = r.line_num
    BY DEF Responses
  <2>5. l \in Lines
    BY DEF Lines
  <2>6. /\ Len(q.lines) = Len(r.lines) + 1
        /\ \A i \in 1 .. Len(r.lines) : q.lines[i] = r.lines[i]
        /\ q.lines[Len(r.lines) + 1] = l
    BY <1>1, <2>4, <2>5
  <2> HIDE DEF q
  <2>7. \/ q.full
        \/ /\ Len(q.lines) = k
           /\ \A i \in 1 .. k : q.lines[i] = [kind |-> a[i], from |-> n]
    <3>1. CASE r.full
      BY <2>4, <3>1
    <3>2. CASE ~r.full
      <4>1. Len(r.lines) = k - 1
            /\ \A i \in 1 .. k - 1 : r.lines[i] = [kind |-> a[i], from |-> n]
        BY <1>2, <3>2
      <4>2. ASSUME NEW i \in 1 .. k
            PROVE  q.lines[i] = [kind |-> a[i], from |-> n]
        <5>1. CASE i = k
          <6>1. q.lines[k] = l
            BY <1>1, <2>6, <4>1
          <6> QED BY <5>1, <6>1
        <5>2. CASE i \in 1 .. k - 1
          BY <2>6, <4>1, <5>2
        <5> QED BY <1>1, <5>1, <5>2
      <4>3. Len(q.lines) = k
        BY <1>1, <2>6, <4>1
      <4> QED BY <4>2, <4>3
    <3> QED BY <3>1, <3>2
  <2>8. Len(q.lines) <= k /\ q.len = Len(q.lines)
    BY <1>1, <1>2, <2>4, <2>6
  <2>9. /\ LongIn(a, k) => q.full
        /\ q.full => LongIn(a, k) \/ Len(a) >= BufSize
    BY <1>2, <1>3, <2>1, <2>4
  <2> QED BY <2>3, <2>4, <2>7, <2>8, <2>9 DEF Holds
<1>5. CASE ~Fits(r, l)
  <2> DEFINE q == [r EXCEPT !.full = TRUE]
  <2>1. Stored(r, l) = q
    BY <1>5 DEF Stored
  <2>2. /\ q.lines = r.lines /\ q.len = r.len /\ q.full = TRUE
        /\ q.line_num = r.line_num
    BY DEF Responses
  <2>3. a[k] = "long" \/ Len(a) >= BufSize
    <3> SUFFICES ASSUME a[k] # "long" PROVE Len(a) >= BufSize
      OBVIOUS
    <3>1. Size(l.kind) = 1
      BY DEF Size
    <3> QED BY <1>1, <1>2, <1>5, <3>1 DEF Fits
  <2>4. Len(q.lines) <= k /\ q.len = Len(q.lines)
    BY <1>1, <1>2, <2>2
  <2> HIDE DEF q
  <2> QED BY <1>3, <2>1, <2>2, <2>3, <2>4 DEF Holds
<1> QED BY <1>4, <1>5

\* The line that ends a response is the last one of the answer, and an error
\* line is nowhere else.
LEMMA LastLineEnds ==
  ASSUME ReliableModem, NEW r \in Responses, NEW a \in Answers[r.line_num],
         NEW m \in Nat, NEW k \in 1 .. Len(a), Holds(r, a, m, k),
         Ends(a[k], r)
  PROVE  k = Len(a) /\ (a[k] = "error" <=> Has(a, "error"))
<1> DEFINE n == r.line_num
<1>1. n \in LineNums /\ n \in Nat
  BY ConstantsOK DEF Responses
<1>2. /\ a \in Seq(Kinds) /\ DOMAIN a = 1 .. Len(a) /\ Len(a) \in Nat
      /\ \A i \in DOMAIN a : a[i] \in ReplyKinds /\ a[i] # "prompt"
      /\ \A i \in DOMAIN a :
           a[i] = "error" \/ (n = 0 /\ a[i] = "ok") => i = Len(a)
      /\ n # 0 => Len(a) <= n
  BY <1>1, AnswerFacts
<1>3. k = Len(a)
  <2>1. CASE a[k] = "error"
    BY <1>2, <2>1
  <2>2. CASE n = 0 /\ a[k] = "ok"
    BY <1>2, <2>2
  <2>3. CASE n # 0 /\ Len(r.lines) = n
    <3>1. n <= k
      BY <2>3 DEF Holds
    <3>2. Len(a) <= n
      BY <1>2, <2>3
    <3>3. n \in Nat /\ Len(a) \in Nat /\ k \in Nat /\ k <= Len(a)
      BY <1>1, <1>2
    <3> HIDE DEF n
    <3> QED BY <3>1, <3>2, <3>3
  <2> QED BY <2>1, <2>2, <2>3 DEF Ends
<1>4. Has(a, "error") => a[k] = "error"
  BY <1>2, <1>3 DEF Has
<1> QED BY <1>2, <1>3, <1>4 DEF Has

\* An answer that does not end the response calls for a timeout.
LEMMA NothingEnds ==
  ASSUME ReliableModem, FittingAnswers, NEW r \in Responses,
         NEW a \in Answers[r.line_num], NEW m \in Nat, Holds(r, a, m, Len(a)),
         Len(a) > 0 => ~Ends(a[Len(a)], r)
  PROVE  ~Has(a, "error") /\ ~Has(a, "ok")
<1> DEFINE n == r.line_num
<1>1. n \in LineNums /\ n \in Nat
  BY ConstantsOK DEF Responses
<1>2. /\ a \in Seq(Kinds) /\ DOMAIN a = 1 .. Len(a) /\ Len(a) \in Nat
      /\ \A i \in DOMAIN a :
           a[i] = "error" \/ (n = 0 /\ a[i] = "ok") => i = Len(a)
  BY <1>1, AnswerFacts
<1>3. /\ Len(a) < BufSize
      /\ n # 0 => ~Has(a, "long")
      /\ n # 0 /\ ~Has(a, "error") => (Has(a, "ok") <=> Len(a) = n)
  BY <1>1 DEF FittingAnswers
<1>4. ~Has(a, "error")
  <2> SUFFICES ASSUME Has(a, "error") PROVE FALSE
    OBVIOUS
  <2>1. PICK i \in DOMAIN a : a[i] = "error"
    BY DEF Has
  <2> QED BY <1>2, <2>1 DEF Ends
<1>5. ~Has(a, "ok")
  <2> SUFFICES ASSUME Has(a, "ok") PROVE FALSE
    OBVIOUS
  <2>1. PICK i \in DOMAIN a : a[i] = "ok"
    BY DEF Has
  <2>2. Len(a) > 0 /\ Len(a) \in DOMAIN a /\ a[Len(a)] # "error"
    BY <1>2, <1>4, <2>1 DEF Has
  <2>3. CASE n = 0
    BY <1>2, <2>1, <2>2, <2>3 DEF Ends
  <2>4. CASE n # 0
    <3>1. Len(a) = n /\ ~Has(a, "long")
      BY <1>3, <1>4, <2>4
    <3>2. ~r.full
      <4>1. ~LongIn(a, Len(a))
        BY <1>2, <3>1 DEF LongIn, Has
      <4>2. ~(Len(a) >= BufSize)
        BY <1>2, <1>3, ConstantsOK
      <4> QED BY <4>1, <4>2 DEF Holds
    <3>3. Len(r.lines) = n
      BY <3>1, <3>2 DEF Holds
    <3> QED BY <2>2, <2>4, <3>3 DEF Ends
  <2> QED BY <2>3, <2>4
<1> QED BY <1>4, <1>5

-----------------------------------------------------------------------------
(* Who is who *)

LEMMA DistinctObjects ==
  ASSUME ReliableModem, NEW t \in Tasks, NEW u \in Tasks, t # u
  PROVE  /\ Own(t) # Own(u) /\ Tmp(t) # Tmp(u)
         /\ {Own(t), Own(u)} \cap {Tmp(t), Tmp(u)} = {}
BY DEF ReliableModem, Own, Tmp

LEMMA OwnNotTmp ==
  ASSUME NEW t \in Tasks
  PROVE  /\ Own(t) # Tmp(t) /\ Own(t) \in Objects /\ Tmp(t) \in Objects
         /\ Own(t) # None /\ Tmp(t) # None
BY ObjectsOfTask, ObjectsOK DEF Own, Tmp

\* At most one call is past the mutex.
LEMMA OneCritical ==
  ASSUME IInv, NEW t \in Tasks, NEW u \in Tasks,
         pc[t] \in Critical, pc[u] \in Critical
  PROVE  t = u
BY DEF IInv, LockInv

\* The response of a call.
LEMMA RespOfCall ==
  ASSUME CallInv, NEW t \in Tasks, pc[t] # "idle"
  PROVE  /\ \/ call[t] = "exec" /\ RespOf(t) = Own(t)
            \/ call[t] = "wait_connect" /\ RespOf(t) = Tmp(t)
         /\ RespOf(t) \in Objects /\ RespOf(t) # None
<1>1. call[t] \in {"exec", "wait_connect"}
  BY DEF CallInv
<1> QED BY <1>1, OwnNotTmp DEF RespOf

LEMMA RespOfOthers ==
  ASSUME ReliableModem, CallInv, NEW t \in Tasks, NEW u \in Tasks, t # u,
         pc[t] # "idle"
  PROVE  RespOf(t) # Own(u) /\ RespOf(t) # Tmp(u)
BY RespOfCall, DistinctObjects

\* What is on the way stays so in a step of somebody else.
lineVars == <<tx, rx, ppc, sem, clientResp, respStatus, pline, presp, given>>

LEMMA OnTheWayStays ==
  ASSUME NEW t \in Tasks, OnTheWay(t), UNCHANGED lineVars, cmd'[t] = cmd[t],
         RespOf(t)' = RespOf(t), Resp(t)' = Resp(t)
  PROVE  OnTheWay(t)'
<1> USE DEF lineVars
<1>1. Mine(t)' = Mine(t)
  BY DEF Mine
<1>2. Sent(t) => Sent(t)'
  BY DEF Sent
<1>3. ASSUME NEW k \in Nat, Answered(t, k) PROVE Answered(t, k)'
  <2>1. Listening(t, k) => Listening(t, k)'
    BY <1>1 DEF Listening
  <2>2. Storing(t, k) => Storing(t, k)'
    BY <1>1 DEF Storing
  <2>3. Ended(t, k) => Ended(t, k)'
    BY <1>1 DEF Ended
  <2> QED BY <1>1, <1>3, <2>1, <2>2, <2>3 DEF Answered
<1> QED BY <1>2, <1>3 DEF OnTheWay

\* A task that does not wait for an answer leaves the line alone.
LEMMA StepAside ==
  ASSUME WaitInv, IdleInv, NEW u \in Tasks,
         pc[u] # "wait", pc'[u] # "wait", UNCHANGED lineVars,
         \A t \in Tasks \ {u} :
           /\ pc'[t] = pc[t] /\ cmd'[t] = cmd[t]
           /\ pc[t] = "wait" => RespOf(t)' = RespOf(t) /\ Resp(t)' = Resp(t)
  PROVE  WaitInv' /\ IdleInv'
<1>1. WaitInv'
  BY OnTheWayStays DEF WaitInv
<1>2. IdleInv'
  BY DEF IdleInv, Idle, lineVars
<1> QED BY <1>1, <1>2

LEMMA NobodyWaits ==
  ASSUME IdleInv, UNCHANGED <<tx, rx, ppc>>, sem' \in {sem, 0},
         \A t \in Tasks : pc[t] # "wait" /\ pc'[t] # "wait"
  PROVE  WaitInv' /\ IdleInv'
BY DEF WaitInv, IdleInv, Idle

\* What a call that waits for its answer finds when it does so no more.
LEMMA WokenFacts ==
  ASSUME ReliableModem, LineInv, NEW t \in Tasks, pc[t] = "wait", sem = 1
  PROVE  /\ tx = <<>> /\ ppc = "read" /\ OnlyUrcs(rx)
         /\ call[t] = "exec" =>
              Kept(t) /\ Final(t) /\ respStatus = Due(t)
<1>1. PICK k \in Nat : Answered(t, k)
  BY DEF LineInv, WaitInv, OnTheWay, Sent
<1>2. Ended(t, k) /\ ppc = "read" /\ tx = <<>>
  BY <1>1 DEF Answered, Listening, Storing, Ended
<1>3. Resp(t) \in Responses /\ Resp(t).line_num \in LineNums
  BY RespOfCall DEF LineInv, IInv, TypeInv, TypeOK, Resp, Responses
<1>4. Mine(t) \in Seq(Kinds) /\ cmd[t] \in Nat /\ rx \in Seq(Lines)
  BY <1>1, <1>3, AnswerFacts DEF Answered, LineInv, IInv, TypeInv, TypeOK
<1>5. OnlyUrcs(rx)
  BY <1>1, <1>2, <1>4, RestOver DEF Answered, Ended
<1>6. call[t] = "exec" => Kept(t) /\ Final(t) /\ respStatus = Due(t)
  <2> SUFFICES ASSUME call[t] = "exec"
               PROVE  Kept(t) /\ Final(t) /\ respStatus = Due(t)
    OBVIOUS
  <2>1. Resp(t) = resp[Own(t)]
    BY RespOfCall DEF LineInv, Resp
  <2> QED BY <1>1, <1>2, <1>3, <2>1 DEF Answered, Ended, Kept, Final, Due
<1> QED BY <1>2, <1>5, <1>6

LEMMA TimeoutFacts ==
  ASSUME ReliableModem, LineInv, NEW t \in Tasks, pc[t] = "wait", sem = 0,
         MayTimeOut
  PROVE  /\ tx = <<>> /\ ppc = "read" /\ rx = <<>> /\ clientResp = RespOf(t)
         /\ cmd[t] \in DOMAIN given /\ Mine(t) \in Answers[Resp(t).line_num]
         /\ Listening(t, Len(Mine(t)))
<1>1. Quiet
  BY DEF ReliableModem, MayTimeOut
<1>2. PICK k \in Nat : Answered(t, k)
  BY <1>1 DEF LineInv, WaitInv, OnTheWay, Sent, Quiet
<1>3. ppc = "read" /\ rx = <<>>
  BY <1>1, <1>2 DEF Quiet, Answered, Listening, Storing, Ended
<1>4. Listening(t, k)
  BY <1>2, <1>3 DEF Answered, Storing, Ended
<1>5. Resp(t).line_num \in LineNums
  BY RespOfCall DEF LineInv, IInv, TypeInv, TypeOK, Resp, Responses
<1>6. Mine(t) \in Seq(Kinds) /\ cmd[t] \in Nat
  BY <1>2, <1>5, AnswerFacts DEF Answered, LineInv, IInv, TypeInv, TypeOK
<1>7. k = Len(Mine(t))
  BY <1>2, <1>3, <1>6, RestNothing DEF Answered
<1> QED BY <1>2, <1>3, <1>4, <1>7 DEF Answered, Listening

-----------------------------------------------------------------------------
(* The steps of a task *)

LEMMA TaskFacts ==
  ASSUME ReliableModem, LineInv
  PROVE  /\ pc \in [Tasks -> PcLabels] /\ cmd \in [Tasks -> Nat]
         /\ call \in [Tasks -> CallKinds \cup {"none"}]
         /\ result \in [Tasks -> Results]
         /\ resp \in [Objects -> Responses] /\ given \in Seq(Seq(Kinds))
         /\ \A t \in Tasks : ~CallExecNull(t) /\ ~CallSend(t) /\ call[t] # "send"
         /\ \A t \in Tasks : call[t] # "exec_null"
         /\ tx \in Seq(Written) /\ rx \in Seq(Lines)
BY DEF LineInv, IInv, TypeInv, TypeOK, ReliableModem, CallExecNull, CallSend,
   Begin, CallInv

LEMMA WaitTask ==
  ASSUME ReliableModem, LineInv, NEW u \in Tasks, TaskStep(u)
  PROVE  WaitInv' /\ IdleInv'
<1> USE TaskFacts
<1>0. WaitInv /\ IdleInv /\ CallInv /\ IInv
  BY DEF LineInv
<1>1. ASSUME NEW o \in Objects, o \in {Own(u), Tmp(u)}, NEW r,
             resp' = [resp EXCEPT ![o] = r], NEW k, Begin(u, k)
      PROVE  WaitInv' /\ IdleInv'
  <2>1. /\ pc[u] = "idle" /\ pc' = [pc EXCEPT ![u] = "lock"]
        /\ call' = [call EXCEPT ![u] = k] /\ cmd' = cmd /\ UNCHANGED lineVars
    BY <1>1 DEF Begin, Return, Goto, lineVars, parserVars
  <2>2. ASSUME NEW t \in Tasks \ {u}, pc[t] = "wait"
        PROVE  RespOf(t)' = RespOf(t) /\ Resp(t)' = Resp(t)
    <3>1. RespOf(t)' = RespOf(t)
      BY <2>1 DEF RespOf
    <3>2. RespOf(t) # o /\ RespOf(t) \in Objects
      BY <1>0, <1>1, <2>2, RespOfOthers, RespOfCall
    <3> QED BY <1>1, <3>1, <3>2 DEF Resp
  <2> QED BY <1>0, <2>1, <2>2, StepAside
<1>2. ASSUME NEW n \in LineNums, CallExec(u, n) PROVE WaitInv' /\ IdleInv'
  <2>1. resp' = [resp EXCEPT ![Own(u)] = [resp[Own(u)] EXCEPT !.line_num = n]]
    BY <1>2 DEF CallExec
  <2> QED BY <1>1, <1>2, <2>1, OwnNotTmp DEF CallExec
<1>3. ASSUME CallWaitConnect(u) PROVE WaitInv' /\ IdleInv'
  BY <1>1, <1>3, OwnNotTmp DEF CallWaitConnect
<1>4. ASSUME NEW b \in BOOLEAN, SetEndSign(u, b) PROVE WaitInv' /\ IdleInv'
  <2>1. /\ pc[u] = "idle" /\ pc' = pc /\ call' = call /\ cmd' = cmd
        /\ resp' = resp /\ UNCHANGED lineVars
    BY <1>4 DEF SetEndSign, lineVars, parserVars
  <2> QED BY <1>0, <2>1, StepAside DEF RespOf, Resp
<1>5. ASSUME pc[u] # "wait", lock = u \/ lock = None, pc'[u] # "wait",
             \A t \in Tasks \ {u} : pc'[t] = pc[t],
             UNCHANGED <<tx, rx, ppc>>, sem' \in {sem, 0}
      PROVE  WaitInv' /\ IdleInv'
  <2>1. \A t \in Tasks : pc[t] # "wait"
    BY <1>0, <1>5, ConstantsOK DEF IInv, LockInv, Critical
  <2> QED BY <1>0, <1>5, <2>1, NobodyWaits
<1>6. ASSUME TakeLock(u) \/ ExecPrepare(u) \/ ConnectPrepare(u) \/ ResetSem(u)
               \/ ConnectGiveUp(u) \/ CheckStatus(u) \/ DeleteResp(u)
               \/ Finish(u)
      PROVE  WaitInv' /\ IdleInv'
  <2>1. pc[u] # "wait" /\ pc'[u] # "wait"
        /\ \A t \in Tasks \ {u} : pc'[t] = pc[t]
    BY <1>6 DEF TakeLock, ExecPrepare, ConnectPrepare, ResetSem, ConnectGiveUp,
       CheckStatus, DeleteResp, Finish, Goto, Return
  <2>2. UNCHANGED <<tx, rx, ppc>> /\ sem' \in {sem, 0}
    BY <1>6 DEF TakeLock, ExecPrepare, ConnectPrepare, ResetSem, ConnectGiveUp,
       CheckStatus, DeleteResp, Finish, parserVars
  <2>3. lock = u \/ lock = None
    BY <1>0, <1>6 DEF IInv, LockInv, Critical, TakeLock, ExecPrepare,
       ConnectPrepare, ResetSem, ConnectGiveUp, CheckStatus, DeleteResp, Finish
  <2> QED BY <1>5, <2>1, <2>2, <2>3
<1>7. ASSUME pc[u] = "write", pc' = [pc EXCEPT ![u] = "wait"],
             UNCHANGED <<rx, ppc, sem, clientResp, given>>,
             cmd' = [cmd EXCEPT ![u] = NextNumber],
             RespOf(u)' = RespOf(u), Fresh(Resp(u)'),
             Put("cmd", Resp(u)'.line_num)
      PROVE  WaitInv' /\ IdleInv'
  <2>1. \A t \in Tasks : t # u => pc[t] # "wait"
    BY <1>0, <1>7, OneCritical DEF Critical
  <2>2. Idle /\ clientResp = RespOf(u)
    BY <1>0, <1>7, <2>1 DEF IdleInv, CallInv
  <2>3. tx' = <<[type |-> "cmd", line_num |-> Resp(u)'.line_num]>>
    BY <1>7, <2>2 DEF Put, Idle
  <2>4. cmd'[u] = Len(given) + 1
    BY <1>7, <2>2 DEF NextNumber, Idle
  <2>5. Sent(u)'
    BY <1>7, <2>2, <2>3, <2>4 DEF Sent, Idle
  <2>6. \A t \in Tasks : t # u => pc'[t] # "wait"
    BY <1>7, <2>1
  <2> QED BY <1>7, <2>5, <2>6 DEF WaitInv, IdleInv, OnTheWay
<1>8. ASSUME ExecWrite(u) PROVE WaitInv' /\ IdleInv'
  <2>1. call[u] = "exec" /\ pc[u] = "write"
    BY <1>8 DEF ExecWrite
  <2>2. RespOf(u) = Own(u) /\ RespOf(u)' = RespOf(u) /\ Resp(u)' = resp[Own(u)]
        /\ Fresh(resp[Own(u)])
    BY <1>0, <1>8, <2>1 DEF ExecWrite, RespOf, Resp, CallInv, Own
  <2> QED BY <1>7, <1>8, <2>1, <2>2 DEF ExecWrite, Goto, parserVars
<1>9. ASSUME ConnectProbe(u) PROVE WaitInv' /\ IdleInv'
  <2>1. call[u] = "wait_connect" /\ pc[u] = "write"
    BY <1>9 DEF ConnectProbe
  <2>2. RespOf(u) = Tmp(u) /\ RespOf(u)' = RespOf(u)
    BY <1>9, <2>1 DEF ConnectProbe, RespOf, Tmp
  <2>3. resp'[Tmp(u)] = Cleared(resp[Tmp(u)])
    BY <1>9, OwnNotTmp DEF ConnectProbe
  <2>4. Resp(u)' = Cleared(resp[Tmp(u)])
    BY <2>2, <2>3 DEF Resp
  <2>5. Fresh(Resp(u)') /\ Resp(u)'.line_num = 0
    BY <1>0, <2>4 DEF CallInv, Cleared, EmptyResp, Fresh
  <2> QED BY <1>7, <1>9, <2>1, <2>2, <2>5 DEF ConnectProbe, Goto, parserVars
<1>10. ASSUME Woken(u) PROVE WaitInv' /\ IdleInv'
  <2>1. pc[u] = "wait" /\ sem = 1 /\ sem' = 0 /\ UNCHANGED <<tx, rx, ppc>>
    BY <1>10 DEF Woken, parserVars
  <2>2. pc'[u] # "wait" /\ \A t \in Tasks \ {u} : pc'[t] = pc[t]
    BY <1>10 DEF Woken, Goto, Return
  <2>3. \A t \in Tasks : pc'[t] # "wait"
    BY <1>0, <2>1, <2>2, OneCritical DEF Critical
  <2>4. Idle'
    BY <2>1, WokenFacts DEF Idle
  <2> QED BY <2>3, <2>4 DEF WaitInv, IdleInv
<1>11. ASSUME TimedOut(u) PROVE WaitInv' /\ IdleInv'
  <2>1. pc[u] = "wait" /\ sem = 0 /\ MayTimeOut /\ UNCHANGED <<sem, tx, rx, ppc>>
    BY <1>11 DEF TimedOut, parserVars
  <2>2. pc'[u] # "wait" /\ \A t \in Tasks \ {u} : pc'[t] = pc[t]
    BY <1>11 DEF TimedOut, Goto, Return
  <2>3. \A t \in Tasks : pc'[t] # "wait"
    BY <1>0, <2>1, <2>2, OneCritical DEF Critical
  <2>4. tx = <<>> /\ ppc = "read" /\ rx = <<>>
    BY <2>1, TimeoutFacts
  <2>5. Idle'
    BY <2>1, <2>4 DEF Idle, OnlyUrcs
  <2> QED BY <2>3, <2>5 DEF WaitInv, IdleInv
<1>12. ~SendWrite(u) /\ ~CallExecNull(u) /\ ~CallSend(u)
  BY DEF SendWrite
<1> QED BY <1>2, <1>3, <1>4, <1>6, <1>8, <1>9, <1>10, <1>11, <1>12
     DEF TaskStep, CallStep

\* One task's part of CallInv and of ReportInv.
CallOf(t) ==
  /\ resp[Tmp(t)].line_num = 0
  /\ call[t] \in {"none", "exec", "wait_connect"}
  /\ pc[t] # "idle" => call[t] # "none"
  /\ pc[t] = "delete" => call[t] # "exec"
  /\ pc[t] \in {"reset", "write"} =>
       /\ clientResp = RespOf(t)
       /\ call[t] = "exec" => Fresh(resp[Own(t)])
ReportOf(t) ==
  /\ pc[t] = "check" => Kept(t) /\ Final(t) /\ respStatus = Due(t)
  /\ call[t] = "exec" /\ pc[t] \in {"finish", "idle"} =>
       Kept(t) /\ result[t] = Due(t)

LEMMA Parts ==
  /\ CallInv <=> ~partial /\ \A t \in Tasks : CallOf(t)
  /\ ReportInv <=> \A t \in Tasks : ReportOf(t)
BY DEF CallInv, CallOf, ReportInv, ReportOf

\* A step of somebody else keeps them, if it leaves the response alone, and the
\* shared variables while the task is past the mutex.
LEMMA CallStays ==
  ASSUME NEW t \in Tasks, CallOf(t), call'[t] = call[t], pc'[t] = pc[t],
         resp'[Tmp(t)].line_num = resp[Tmp(t)].line_num,
         pc[t] \in {"reset", "write"} =>
           clientResp' = clientResp /\ resp'[Own(t)] = resp[Own(t)]
  PROVE  CallOf(t)'
BY DEF CallOf, RespOf, Own, Tmp

LEMMA KeptStays ==
  ASSUME NEW t \in Tasks, Kept(t), call'[t] = call[t], cmd'[t] = cmd[t],
         resp'[Own(t)] = resp[Own(t)],
         \A i \in DOMAIN given : i \in DOMAIN given' /\ given'[i] = given[i]
  PROVE  /\ Kept(t)' /\ Mine(t)' = Mine(t) /\ (Final(t)' <=> Final(t))
         /\ Due(t)' = Due(t)
<1>1. Mine(t)' = Mine(t) /\ Kept(t)'
  BY DEF Kept, Mine, Own
<1>2. Final(t)' <=> Final(t)
  BY <1>1 DEF Final, Own, Ends
<1> QED BY <1>1, <1>2 DEF Due

LEMMA ReportStays ==
  ASSUME NEW t \in Tasks, ReportOf(t), call'[t] = call[t], pc'[t] = pc[t],
         result'[t] = result[t], cmd'[t] = cmd[t],
         resp'[Own(t)] = resp[Own(t)], pc[t] = "check" => respStatus' = respStatus,
         \A i \in DOMAIN given : i \in DOMAIN given' /\ given'[i] = given[i]
  PROVE  ReportOf(t)'
<1>1. Kept(t) => Kept(t)' /\ (Final(t)' <=> Final(t)) /\ Due(t)' = Due(t)
  BY KeptStays
<1> QED BY <1>1 DEF ReportOf

\* What a step of task u leaves alone of every other task.
LEMMA OthersStay ==
  ASSUME ReliableModem, LineInv, NEW u \in Tasks, TaskStep(u),
         NEW t \in Tasks, t # u
  PROVE  /\ call'[t] = call[t] /\ pc'[t] = pc[t] /\ result'[t] = result[t]
         /\ cmd'[t] = cmd[t] /\ given' = given /\ partial' = partial
         /\ resp'[Own(t)] = resp[Own(t)] /\ resp'[Tmp(t)] = resp[Tmp(t)]
         /\ pc[t] \in {"reset", "write", "check"} =>
              clientResp' = clientResp /\ respStatus' = respStatus
<1> USE TaskFacts
<1>1. Own(t) # Own(u) /\ Own(t) # Tmp(u) /\ Tmp(t) # Tmp(u) /\ Tmp(t) # Own(u)
  BY DistinctObjects
<1>2. resp' = resp \/ (\E r : resp' = [resp EXCEPT ![Own(u)] = r])
        \/ (\E r : resp' = [resp EXCEPT ![Tmp(u)] = r])
  BY DEF TaskStep, CallStep, CallExec, CallExecNull, CallWaitConnect, CallSend,
     SetEndSign, TakeLock, ExecPrepare, ConnectPrepare, ResetSem, ExecWrite,
     ConnectGiveUp, ConnectProbe, SendWrite, Woken, TimedOut, CheckStatus,
     DeleteResp, Finish
<1>3. resp'[Own(t)] = resp[Own(t)] /\ resp'[Tmp(t)] = resp[Tmp(t)]
  BY <1>1, <1>2, OwnNotTmp
<1>4. /\ call'[t] = call[t] /\ pc'[t] = pc[t] /\ result'[t] = result[t]
      /\ cmd'[t] = cmd[t] /\ given' = given /\ partial' = partial
  BY DEF TaskStep, CallStep, CallExec, CallExecNull, CallWaitConnect, CallSend,
     Begin, SetEndSign, TakeLock, ExecPrepare, ConnectPrepare, ResetSem,
     ExecWrite, ConnectGiveUp, ConnectProbe, SendWrite, Woken, TimedOut,
     CheckStatus, DeleteResp, Finish, Goto, Return, parserVars
<1>5. ASSUME pc[t] \in {"reset", "write", "check"}
      PROVE  clientResp' = clientResp /\ respStatus' = respStatus
  <2>1. pc[u] \notin Critical
    BY <1>5, OneCritical DEF Critical, LineInv
  <2> QED BY <2>1 DEF Critical, TaskStep, CallStep, CallExec, CallExecNull,
     CallWaitConnect, CallSend, Begin, SetEndSign, TakeLock, ExecPrepare,
     ConnectPrepare, ResetSem, ExecWrite, ConnectGiveUp, ConnectProbe,
     SendWrite, Woken, TimedOut, CheckStatus, DeleteResp, Finish
<1> QED BY <1>3, <1>4, <1>5

LEMMA OwnCall ==
  ASSUME ReliableModem, LineInv, NEW u \in Tasks, TaskStep(u)
  PROVE  CallOf(u)' /\ partial' = partial
<1> USE TaskFacts, OwnNotTmp DEF CallOf
<1>0. CallOf(u) /\ RespOf(u)' = (CASE call'[u] = "exec" -> Own(u)
                                   [] call'[u] = "wait_connect" -> Tmp(u)
                                   [] OTHER -> None)
  BY Parts DEF LineInv, RespOf, Own, Tmp
<1>1. ASSUME NEW n \in LineNums, CallExec(u, n) PROVE CallOf(u)'
  BY <1>0, <1>1 DEF CallExec, Begin, Return, Goto, Own, Tmp
<1>2. ASSUME CallWaitConnect(u) PROVE CallOf(u)'
  <2>1. resp'[Tmp(u)].line_num = 0
    BY <1>2 DEF CallWaitConnect, EmptyResp
  <2> QED BY <1>2, <2>1 DEF CallWaitConnect, Begin, Return, Goto, Tmp
<1>3. ASSUME NEW b \in BOOLEAN, SetEndSign(u, b) PROVE CallOf(u)'
  BY <1>0, <1>3 DEF SetEndSign, RespOf, Own, Tmp
<1>4. ASSUME TakeLock(u) PROVE CallOf(u)'
  BY <1>0, <1>4 DEF TakeLock, Goto, Tmp
<1>5. ASSUME ExecPrepare(u) PROVE CallOf(u)'
  <2>1. call[u] = "exec"
    BY <1>5 DEF ExecPrepare
  <2>2. resp' = [resp EXCEPT ![Own(u)] = Cleared(resp[Own(u)])]
        /\ clientResp' = Own(u) /\ call' = call /\ pc'[u] = "reset"
    BY <1>5, <2>1 DEF ExecPrepare, RespOf, Goto
  <2>3. Fresh(resp'[Own(u)])
    BY <2>2 DEF Cleared, EmptyResp, Fresh
  <2>4. resp'[Tmp(u)] = resp[Tmp(u)]
    BY <2>2
  <2> QED BY <1>0, <2>1, <2>2, <2>3, <2>4 DEF Own, Tmp
<1>6. ASSUME ConnectPrepare(u) PROVE CallOf(u)'
  BY <1>0, <1>6 DEF ConnectPrepare, Goto, RespOf, Own, Tmp
<1>7. ASSUME ResetSem(u) PROVE CallOf(u)'
  BY <1>0, <1>7 DEF ResetSem, Goto, RespOf, Own, Tmp
<1>8. ASSUME ExecWrite(u) PROVE CallOf(u)'
  BY <1>0, <1>8 DEF ExecWrite, Goto, Tmp
<1>9. ASSUME ConnectGiveUp(u) PROVE CallOf(u)'
  BY <1>0, <1>9 DEF ConnectGiveUp, Goto, Return, Tmp
<1>10. ASSUME ConnectProbe(u) PROVE CallOf(u)'
  <2>1. resp'[Tmp(u)].line_num = 0
    BY <1>0, <1>10 DEF ConnectProbe, Cleared, EmptyResp
  <2> QED BY <1>0, <1>10, <2>1 DEF ConnectProbe, Goto, Tmp
<1>11. ASSUME Woken(u) PROVE CallOf(u)'
  BY <1>0, <1>11 DEF Woken, Goto, Return, Tmp
<1>12. ASSUME TimedOut(u) PROVE CallOf(u)'
  <2>1. clientResp = RespOf(u) /\ pc[u] = "wait"
    BY <1>12, TimeoutFacts DEF TimedOut
  <2>2. call[u] = "exec" => pc'[u] = "finish"
    BY <1>12 DEF TimedOut, Return, Goto
  <2>3. call' = call /\ resp' = resp /\ clientResp' = clientResp
        /\ RespOf(u)' = RespOf(u)
    BY <1>12 DEF TimedOut, RespOf, Own, Tmp
  <2> QED BY <1>0, <2>1, <2>2, <2>3 DEF Tmp
<1>13. ASSUME CheckStatus(u) PROVE CallOf(u)'
  BY <1>0, <1>13 DEF CheckStatus, Goto, Return, Tmp
<1>14. ASSUME DeleteResp(u) PROVE CallOf(u)'
  BY <1>0, <1>14 DEF DeleteResp, Goto, Tmp
<1>15. ASSUME Finish(u) PROVE CallOf(u)'
  BY <1>0, <1>15 DEF Finish, Goto, Tmp
<1>16. ~SendWrite(u) /\ ~CallExecNull(u) /\ ~CallSend(u)
  BY DEF SendWrite
<1>17. partial' = partial
  BY DEF TaskStep, CallStep, CallExec, CallExecNull, CallWaitConnect, CallSend,
     Begin, SetEndSign, TakeLock, ExecPrepare, ConnectPrepare, ResetSem,
     ExecWrite, ConnectGiveUp, ConnectProbe, SendWrite, Woken, TimedOut,
     CheckStatus, DeleteResp, Finish, parserVars
<1> QED BY <1>1, <1>2, <1>3, <1>4, <1>5, <1>6, <1>7, <1>8, <1>9, <1>10, <1>11,
           <1>12, <1>13, <1>14, <1>15, <1>16, <1>17
     DEF TaskStep, CallStep

LEMMA OwnReport ==
  ASSUME ReliableModem, LineInv, NEW u \in Tasks, TaskStep(u)
  PROVE  ReportOf(u)'
<1> USE TaskFacts DEF ReportOf
<1>0. ReportOf(u) /\ CallOf(u)
  BY Parts DEF LineInv
<1>1. ASSUME NEW b \in BOOLEAN, SetEndSign(u, b) PROVE ReportOf(u)'
  BY <1>0, <1>1, KeptStays DEF SetEndSign
<1>2. ASSUME Woken(u) PROVE ReportOf(u)'
  <2>1. CASE call[u] = "exec"
    <3>1. Kept(u) /\ Final(u) /\ respStatus = Due(u)
      BY <1>2, <2>1, WokenFacts DEF Woken
    <3>2. /\ Kept(u)' /\ Final(u)' /\ Due(u)' = Due(u)
          /\ respStatus' = respStatus
      BY <1>2, <3>1, KeptStays DEF Woken
    <3>3. pc'[u] = "check"
      BY <1>2, <2>1 DEF Woken, Goto
    <3> QED BY <3>1, <3>2, <3>3
  <2>2. CASE call[u] # "exec"
    BY <1>2, <2>2 DEF Woken, Goto, Return
  <2> QED BY <2>1, <2>2
<1>3. ASSUME TimedOut(u) PROVE ReportOf(u)'
  <2>1. CASE call[u] = "exec"
    <3>1. /\ cmd[u] \in DOMAIN given /\ Mine(u) \in Answers[Resp(u).line_num]
          /\ Listening(u, Len(Mine(u))) /\ Resp(u) = resp[Own(u)]
      BY <1>3, <2>1, TimeoutFacts DEF TimedOut, Resp, RespOf
    <3>2. Kept(u) /\ Due(u) = "timeout"
      BY <2>1, <3>1 DEF Kept, Final, Due, Listening
    <3>3. Kept(u)' /\ Due(u)' = Due(u)
      BY <1>3, <3>2, KeptStays DEF TimedOut
    <3>4. pc'[u] = "finish" /\ result'[u] = "timeout"
      BY <1>3, <2>1 DEF TimedOut, Goto, Return
    <3> QED BY <3>2, <3>3, <3>4
  <2>2. CASE call[u] # "exec"
    BY <1>3, <2>2 DEF TimedOut, Goto, Return
  <2> QED BY <2>1, <2>2
<1>4. ASSUME CheckStatus(u) PROVE ReportOf(u)'
  <2>1. Kept(u) /\ Final(u) /\ respStatus = Due(u)
    BY <1>0, <1>4 DEF CheckStatus
  <2>2. Kept(u)' /\ Due(u)' = Due(u)
    BY <1>4, <2>1, KeptStays DEF CheckStatus
  <2>3. pc'[u] = "finish" /\ result'[u] = Due(u)
    BY <1>4, <2>1 DEF CheckStatus, Goto, Return, StatusOf, Due
  <2> QED BY <2>1, <2>2, <2>3
<1>5. ASSUME Finish(u) PROVE ReportOf(u)'
  BY <1>0, <1>5, KeptStays DEF Finish, Goto
<1>6. ASSUME DeleteResp(u) PROVE ReportOf(u)'
  BY <1>0, <1>6 DEF DeleteResp, Goto, CallOf
<1>7. ASSUME pc'[u] \notin {"check", "finish", "idle"} PROVE ReportOf(u)'
  BY <1>7
<1>8. \/ pc'[u] \notin {"check", "finish", "idle"}
      \/ \E b \in BOOLEAN : SetEndSign(u, b)
      \/ Woken(u) \/ TimedOut(u) \/ CheckStatus(u) \/ Finish(u) \/ DeleteResp(u)
  BY DEF TaskStep, CallStep, CallExec, CallWaitConnect, Begin, TakeLock,
     ExecPrepare, ConnectPrepare, ResetSem, ExecWrite, ConnectGiveUp,
     ConnectProbe, SendWrite, Goto, Return
<1> QED BY <1>1, <1>2, <1>3, <1>4, <1>5, <1>6, <1>7, <1>8

LEMMA LineTask ==
  ASSUME ReliableModem, LineInv, NEW u \in Tasks, TaskStep(u)
  PROVE  WaitInv' /\ IdleInv' /\ CallInv' /\ ReportInv'
<1>1. CallInv /\ ReportInv
  BY DEF LineInv
<1>2. ASSUME NEW t \in Tasks PROVE CallOf(t)' /\ ReportOf(t)'
  <2>1. CASE t = u
    BY <2>1, OwnCall, OwnReport
  <2>2. CASE t # u
    <3>1. CallOf(t) /\ ReportOf(t)
      BY <1>1, Parts
    <3> QED BY <2>2, <3>1, OthersStay, CallStays, ReportStays
  <2> QED BY <2>1, <2>2
<1>3. ~partial'
  BY <1>1, OwnCall DEF CallInv
<1>4. CallInv' /\ ReportInv'
  BY <1>2, <1>3 DEF CallInv, CallOf, ReportInv, ReportOf
<1> QED BY <1>4, WaitTask

-----------------------------------------------------------------------------
(* The steps of the parser and of the modem *)

LEMMA AnsweredFacts ==
  ASSUME ReliableModem, LineInv, NEW t \in Tasks, pc[t] = "wait",
         NEW k \in Nat, Answered(t, k)
  PROVE  /\ Resp(t) \in Responses /\ Resp(t).line_num \in LineNums
         /\ Mine(t) \in Answers[Resp(t).line_num] /\ Mine(t) \in Seq(Kinds)
         /\ DOMAIN Mine(t) = 1 .. Len(Mine(t)) /\ Len(Mine(t)) \in Nat
         /\ \A i \in DOMAIN Mine(t) : Mine(t)[i] \in ReplyKinds
                                      /\ Mine(t)[i] # "prompt"
         /\ cmd[t] \in Nat /\ rx \in Seq(Lines) /\ k \in 0 .. Len(Mine(t))
         /\ Rest(rx, Mine(t), cmd[t], k)
<1>1. Resp(t) \in Responses /\ Resp(t).line_num \in LineNums
  BY RespOfCall DEF LineInv, IInv, TypeInv, TypeOK, Resp, Responses
<1> QED BY <1>1, AnswerFacts, TaskFacts DEF Answered

\* The first line in rx: a notification, or the next one of the answer to the
\* command of the task that waits.
LEMMA HeadFacts ==
  ASSUME ReliableModem, LineInv, rx # <<>>
  PROVE  /\ Head(rx).kind # "prompt" /\ Incoming = Head(rx)
         /\ Head(rx).kind \in Urcs <=> Head(rx).kind \in UrcKinds
         /\ (\A t \in Tasks : pc[t] # "wait" \/ Sent(t)) => OnlyUrcs(rx)
<1>0. ~partial /\ rx \in Seq(Lines) /\ Urcs \subseteq UrcKinds
  BY ConstantsOK, TaskFacts DEF LineInv, CallInv
<1>1. Incoming = Head(rx)
  BY <1>0 DEF Incoming, Glue
<1>2. ASSUME OnlyUrcs(rx)
      PROVE  Head(rx).kind # "prompt" /\ Head(rx).kind \in Urcs
  <2>1. Head(rx).kind \in Urcs
    BY <1>0, <1>2, OnlyUrcsTail
  <2> QED BY <1>0, <2>1 DEF UrcKinds
<1>3. ASSUME NEW t \in Tasks, pc[t] = "wait", NEW k \in Nat, Answered(t, k)
      PROVE  /\ Head(rx).kind # "prompt"
             /\ Head(rx).kind \in Urcs <=> Head(rx).kind \in UrcKinds
  <2>1. CASE Head(rx).kind \in Urcs
    BY <1>0, <2>1 DEF UrcKinds
  <2>2. CASE Head(rx).kind \notin Urcs
    <3>1. k + 1 \in DOMAIN Mine(t)
          /\ Head(rx) = [kind |-> Mine(t)[k + 1], from |-> cmd[t]]
      BY <1>3, <2>2, AnsweredFacts, RestReply
    <3>2. Head(rx).kind \in ReplyKinds /\ Head(rx).kind # "prompt"
      BY <1>3, <3>1, AnsweredFacts
    <3> QED BY <2>2, <3>2 DEF ReplyKinds, UrcKinds
  <2> QED BY <2>1, <2>2
<1>4. (\A t \in Tasks : pc[t] # "wait" \/ Sent(t)) => OnlyUrcs(rx)
  BY DEF LineInv, IdleInv, Idle, Sent
<1>5. \/ OnlyUrcs(rx)
      \/ \E t \in Tasks : pc[t] = "wait" /\ \E k \in Nat : Answered(t, k)
  BY <1>4 DEF LineInv, WaitInv, OnTheWay
<1> QED BY <1>0, <1>1, <1>2, <1>3, <1>4, <1>5

\* A parser that is not reading has a line of the answer to the command of a
\* task that waits.
LEMMA BusyParser ==
  ASSUME ReliableModem, LineInv, ppc # "read"
  PROVE  \E t \in Tasks, k \in Nat :
           pc[t] = "wait" /\ Answered(t, k) /\ (Storing(t, k) \/ Ended(t, k))
<1>1. PICK t \in Tasks : pc[t] = "wait" /\ OnTheWay(t)
  BY DEF LineInv, WaitInv, IdleInv, Idle
<1>2. PICK k \in Nat : Answered(t, k)
  BY <1>1 DEF OnTheWay, Sent
<1> QED BY <1>1, <1>2 DEF Answered, Listening

\* The only task that waits decides.
LEMMA WaiterDecides ==
  ASSUME IInv, NEW t \in Tasks, pc[t] = "wait", pc' = pc, OnTheWay(t)'
  PROVE  WaitInv' /\ IdleInv'
<1>1. \A u \in Tasks : pc[u] = "wait" => u = t
  BY OneCritical DEF Critical
<1> QED BY <1>1 DEF WaitInv, IdleInv

\* Steps that leave the tasks, their responses and the status alone.
LEMMA CallsStay ==
  ASSUME CallInv, ReportInv, ~partial', UNCHANGED <<taskVars, resp, cmd>>,
         \A t \in Tasks : pc[t] = "check" => respStatus' = respStatus,
         \A t \in Tasks : pc[t] \in {"reset", "write"} => clientResp' = clientResp,
         \A i \in DOMAIN given : i \in DOMAIN given' /\ given'[i] = given[i]
  PROVE  CallInv' /\ ReportInv'
<1> USE DEF taskVars
<1>1. ASSUME NEW t \in Tasks PROVE CallOf(t)' /\ ReportOf(t)'
  <2>1. CallOf(t) /\ ReportOf(t)
    BY Parts
  <2> QED BY <2>1, CallStays, ReportStays
<1> QED BY <1>1 DEF CallInv, CallOf, ReportInv, ReportOf

LEMMA LineUrc ==
  ASSUME ReliableModem, LineInv, ReadUrc
  PROVE  WaitInv' /\ IdleInv' /\ CallInv' /\ ReportInv'
<1>0. rx # <<>> /\ ppc = "read" /\ rx' = Tail(rx) /\ rx \in Seq(Lines)
  BY TaskFacts DEF ReadUrc, Receive
<1>1. Head(rx).kind \in Urcs /\ Head(rx).kind \in UrcKinds
  BY <1>0, HeadFacts DEF ReadUrc
<1>2. ppc' = "read"
  BY <1>0, <1>1, HeadFacts DEF ReadUrc, ReliableModem
<1>3. UNCHANGED <<tx, sem, clientResp, respStatus, resp, pline, presp, cmd,
                  given, taskVars>> /\ ~partial'
  BY DEF ReadUrc, clientVars
<1>4. CallInv' /\ ReportInv'
  BY <1>3, CallsStay DEF LineInv
<1>5. CASE \A t \in Tasks : pc[t] # "wait"
  <2>1. Idle
    BY <1>5 DEF LineInv, IdleInv
  <2>2. Idle'
    BY <1>0, <1>2, <1>3, <2>1, OnlyUrcsTail DEF Idle
  <2> QED BY <1>3, <1>4, <1>5, <2>2 DEF WaitInv, IdleInv, taskVars
<1>6. ASSUME NEW t \in Tasks, pc[t] = "wait" PROVE WaitInv' /\ IdleInv'
  <2>0. /\ Mine(t)' = Mine(t) /\ Resp(t)' = Resp(t) /\ RespOf(t)' = RespOf(t)
        /\ cmd' = cmd /\ pc' = pc
    BY <1>3 DEF Mine, Resp, RespOf, Own, Tmp, taskVars
  <2>1. CASE Sent(t)
    <3>1. OnlyUrcs(Tail(rx))
      BY <1>0, <2>1, OnlyUrcsTail DEF Sent
    <3>2. Sent(t)'
      BY <1>0, <1>2, <1>3, <2>0, <2>1, <3>1 DEF Sent
    <3> QED BY <1>6, <2>0, <3>2, WaiterDecides DEF OnTheWay, LineInv
  <2>2. ASSUME NEW k \in Nat, Answered(t, k) PROVE WaitInv' /\ IdleInv'
    <3>1. Rest(Tail(rx), Mine(t), cmd[t], k)
      BY <1>0, <1>1, <1>6, <2>2, AnsweredFacts, RestUrc
    <3>2. Listening(t, k) => Listening(t, k)'
      BY <1>2, <1>3, <2>0 DEF Listening
    <3>3. Ended(t, k) => Ended(t, k)'
      BY <1>0, <1>2, <1>3, <2>0 DEF Ended
    <3>4. ~Storing(t, k)
      BY <1>0 DEF Storing
    <3>5. Answered(t, k)'
      BY <1>0, <1>3, <2>0, <2>2, <3>1, <3>2, <3>3, <3>4 DEF Answered
    <3> QED BY <1>6, <2>0, <3>5, WaiterDecides DEF OnTheWay, LineInv
  <2> QED BY <1>6, <2>1, <2>2 DEF LineInv, WaitInv, OnTheWay
<1> QED BY <1>4, <1>5, <1>6

LEMMA LineResponse ==
  ASSUME ReliableModem, LineInv, ReadUnrecognized \/ ReadResponse
  PROVE  WaitInv' /\ IdleInv' /\ CallInv' /\ ReportInv'
<1>0. rx # <<>> /\ ppc = "read" /\ rx' = Tail(rx) /\ rx \in Seq(Lines)
  BY TaskFacts DEF ReadUnrecognized, ReadResponse, Receive
<1>1. Head(rx).kind \notin Urcs /\ Incoming = Head(rx)
  BY <1>0, HeadFacts DEF ReadUnrecognized, ReadResponse
<1>2. PICK t \in Tasks : pc[t] = "wait" /\ ~Sent(t)
  BY <1>0, <1>1, HeadFacts, OnlyUrcsTail
<1>3. PICK k \in Nat : Answered(t, k)
  BY <1>2 DEF LineInv, WaitInv, OnTheWay
<1>4. /\ k + 1 \in 1 .. Len(Mine(t)) /\ Rest(Tail(rx), Mine(t), cmd[t], k + 1)
      /\ Head(rx) = [kind |-> Mine(t)[k + 1], from |-> cmd[t]]
  BY <1>0, <1>1, <1>2, <1>3, AnsweredFacts, RestReply
<1>5. Listening(t, k)
  BY <1>0, <1>3, <1>4 DEF Answered, Storing, Ended
<1>6. clientResp = RespOf(t) /\ clientResp # None
  BY <1>2, <1>5, RespOfCall DEF Listening, LineInv
<1>7. ReadResponse
  BY <1>6 DEF ReadUnrecognized
<1>8. UNCHANGED <<tx, sem, clientResp, respStatus, resp, cmd, given, taskVars>>
      /\ ~partial'
  BY <1>7 DEF ReadResponse, clientVars
<1>9. CallInv' /\ ReportInv'
  BY <1>8, CallsStay DEF LineInv
<1>10. /\ Mine(t)' = Mine(t) /\ Resp(t)' = Resp(t) /\ RespOf(t)' = RespOf(t)
       /\ cmd' = cmd /\ pc' = pc
  BY <1>8 DEF Mine, Resp, RespOf, Own, Tmp, taskVars
<1>11. Storing(t, k + 1)'
  <2>1. ppc' = "store" /\ pline' = Head(rx) /\ presp' = clientResp
    BY <1>1, <1>7 DEF ReadResponse
  <2>2. k + 1 - 1 = k /\ k + 1 > 0
    OBVIOUS
  <2> QED BY <1>4, <1>5, <1>6, <1>8, <1>10, <2>1, <2>2 DEF Storing, Listening
<1>12. Answered(t, k + 1)'
  BY <1>0, <1>3, <1>4, <1>8, <1>10, <1>11 DEF Answered
<1> QED BY <1>2, <1>9, <1>10, <1>12, WaiterDecides DEF OnTheWay, LineInv

LEMMA LineStore ==
  ASSUME ReliableModem, LineInv, StoreLine
  PROVE  WaitInv' /\ IdleInv' /\ CallInv' /\ ReportInv'
<1>0. PICK t \in Tasks, k \in Nat :
        pc[t] = "wait" /\ Answered(t, k) /\ Storing(t, k)
  BY BusyParser DEF StoreLine, Ended
<1> DEFINE o == RespOf(t)
           a == Mine(t)
           q == Stored(Resp(t), [kind |-> a[k], from |-> cmd[t]])
<1>1. /\ Resp(t) \in Responses /\ a \in Seq(Kinds) /\ cmd[t] \in Nat
      /\ a \in Answers[Resp(t).line_num] /\ k \in 1 .. Len(a)
      /\ a[k] \in Kinds /\ a[k] # "prompt" /\ o \in Objects
  BY <1>0, AnsweredFacts, RespOfCall DEF Storing, LineInv
<1>2. Holds(q, a, cmd[t], k) /\ q.line_num = Resp(t).line_num
  BY <1>0, <1>1, HoldsStore DEF Storing
<1>3. /\ resp' = [resp EXCEPT ![o] = q]
      /\ \/ EndsError(a[k]) /\ respStatus' = "error" /\ ppc' = "clear"
         \/ EndsOk(a[k], q) /\ respStatus' = "ok" /\ ppc' = "clear"
         \/ ~EndsError(a[k]) /\ ~EndsOk(a[k], q) /\ ppc' = "read"
      /\ UNCHANGED <<tx, rx, sem, clientResp, cmd, given, taskVars, partial>>
  BY <1>0 DEF StoreLine, Storing, Resp
<1> HIDE DEF q
<1>4. q \in Responses
  BY <1>1, StoredType DEF Lines, q
<1>5. /\ Mine(t)' = a /\ RespOf(t)' = o /\ cmd' = cmd /\ pc' = pc
      /\ Resp(t)' = q
  <2>1. Mine(t)' = a /\ RespOf(t)' = o /\ cmd' = cmd /\ pc' = pc
    BY <1>3 DEF Mine, RespOf, Own, Tmp, taskVars
  <2>2. resp'[o] = q
    BY <1>1, <1>3, TaskFacts
  <2> QED BY <2>1, <2>2 DEF Resp
<1>6. Ends(a[k], q) <=> EndsError(a[k]) \/ EndsOk(a[k], q)
  BY <1>1, <1>4, EndsMeans
<1>7. /\ tx' = <<>> /\ (cmd[t] \in DOMAIN given)' /\ clientResp' = o /\ sem' = 0
      /\ a \in Answers[q.line_num] /\ Rest(rx', a, cmd[t], k)
      /\ k \in 0 .. Len(a) /\ k > 0
  BY <1>0, <1>1, <1>2, <1>3 DEF Answered, Storing
<1>8. Answered(t, k)'
  <2>1. CASE Ends(a[k], q)
    <3>1. k = Len(a) /\ (a[k] = "error" <=> Has(a, "error"))
      BY <1>1, <1>2, <1>4, <1>7, <2>1, LastLineEnds
    <3>2. ppc' = "clear" /\ respStatus' = StatusOf(a)
      BY <1>3, <1>6, <2>1, <3>1 DEF StatusOf, EndsError, EndsOk
    <3>3. Ended(t, k)'
      BY <1>2, <1>5, <1>7, <2>1, <3>1, <3>2 DEF Ended
    <3> QED BY <1>5, <1>7, <3>3 DEF Answered
  <2>2. CASE ~Ends(a[k], q)
    <3>1. ppc' = "read"
      BY <1>3, <1>6, <2>2
    <3>2. Listening(t, k)'
      BY <1>2, <1>5, <1>7, <2>2, <3>1 DEF Listening
    <3> QED BY <1>5, <1>7, <3>2 DEF Answered
  <2> QED BY <2>1, <2>2
<1>9. WaitInv' /\ IdleInv'
  BY <1>0, <1>5, <1>8, WaiterDecides DEF OnTheWay, LineInv
<1>10. ASSUME NEW u \in Tasks PROVE CallOf(u)' /\ ReportOf(u)'
  <2>0. CallOf(u) /\ ReportOf(u) /\ UNCHANGED <<pc, call, result, cmd, given>>
    BY <1>3, Parts DEF LineInv, taskVars
  <2>1. pc[u] \notin {"reset", "write", "check"}
    BY <1>0, OneCritical DEF LineInv, Critical
  <2>2. resp'[Tmp(u)].line_num = resp[Tmp(u)].line_num
    BY <1>1, <1>2, <1>3, OwnNotTmp, TaskFacts DEF Resp
  <2>3. CallOf(u)'
    BY <2>0, <2>1, <2>2, CallStays
  <2>4. CASE u = t
    BY <1>0, <2>0, <2>3, <2>4 DEF ReportOf
  <2>5. CASE u # t
    <3>1. o # Own(u)
      BY <1>0, <2>5, RespOfOthers DEF LineInv
    <3>2. resp'[Own(u)] = resp[Own(u)]
      BY <1>3, <3>1, OwnNotTmp, TaskFacts
    <3> QED BY <2>0, <2>1, <2>3, <3>2, ReportStays
  <2> QED BY <2>3, <2>4, <2>5
<1>11. CallInv' /\ ReportInv'
  BY <1>3, <1>10 DEF LineInv, CallInv, CallOf, ReportInv, ReportOf
<1> QED BY <1>9, <1>11

LEMMA LineWakeup ==
  ASSUME ReliableModem, LineInv, ClearResp \/ Notify
  PROVE  WaitInv' /\ IdleInv' /\ CallInv' /\ ReportInv'
<1>0. PICK t \in Tasks, k \in Nat :
        pc[t] = "wait" /\ Answered(t, k) /\ Ended(t, k)
  BY BusyParser DEF ClearResp, Notify, Storing
<1>1. UNCHANGED <<tx, rx, respStatus, resp, cmd, given, taskVars, partial>>
  BY DEF ClearResp, Notify
<1>2. /\ Mine(t)' = Mine(t) /\ Resp(t)' = Resp(t) /\ RespOf(t)' = RespOf(t)
      /\ cmd' = cmd /\ pc' = pc
  BY <1>1 DEF Mine, Resp, RespOf, Own, Tmp, taskVars
<1>3. \/ ppc' = "notify" /\ sem' = 0
      \/ ppc' = "read" /\ sem' = 1
  BY <1>0 DEF ClearResp, Notify, Ended
<1>4. Ended(t, k)'
  BY <1>0, <1>1, <1>2, <1>3 DEF Ended
<1>5. Answered(t, k)'
  BY <1>0, <1>1, <1>2, <1>4 DEF Answered
<1>6. \A u \in Tasks : pc[u] \notin {"reset", "write", "check"}
  BY <1>0, OneCritical DEF LineInv, Critical
<1>7. CallInv' /\ ReportInv'
  BY <1>1, <1>6, CallsStay DEF LineInv, CallInv
<1> QED BY <1>0, <1>2, <1>5, <1>7, WaiterDecides DEF OnTheWay, LineInv

LEMMA LineParser ==
  ASSUME ReliableModem, LineInv, ParserStep
  PROVE  WaitInv' /\ IdleInv' /\ CallInv' /\ ReportInv'
<1>1. ~ReadPartial
  BY HeadFacts DEF ReadPartial, Receive, EndsLine
<1>2. ppc \in {"read", "store", "clear", "notify"}
  BY BusyParser DEF Storing, Ended
<1>3. ~HandlerLock /\ ~HandlerSend /\ ~HandlerRecv /\ ~HandlerRecvTimedOut
  BY <1>2 DEF HandlerLock, HandlerSend, HandlerRecv, HandlerRecvTimedOut
<1> QED BY <1>1, <1>3, LineUrc, LineResponse, LineStore, LineWakeup
     DEF ParserStep

LEMMA LineModem ==
  ASSUME ReliableModem, LineInv, ModemStep
  PROVE  WaitInv' /\ IdleInv' /\ CallInv' /\ ReportInv'
<1> USE TaskFacts
<1>1. ASSUME ModemAnswer PROVE WaitInv' /\ IdleInv' /\ CallInv' /\ ReportInv'
  <2>1. PICK a \in AnswersTo(Head(tx)) :
          /\ rx' = rx \o Tagged(a, Len(given) + 1)
          /\ given' = Append(given, a)
    BY <1>1 DEF ModemAnswer
  <2>2. tx # <<>> /\ tx' = Tail(tx)
        /\ UNCHANGED <<clientVars, taskVars, parserVars, cmd>>
    BY <1>1 DEF ModemAnswer
  <2>3. PICK t \in Tasks : pc[t] = "wait" /\ Sent(t)
    BY <2>2 DEF LineInv, WaitInv, IdleInv, Idle, OnTheWay, Answered
  <2>4. Resp(t) \in Responses /\ Resp(t).line_num \in LineNums
    BY <2>3, RespOfCall DEF LineInv, Resp, Responses
  <2>5. Head(tx) = [type |-> "cmd", line_num |-> Resp(t).line_num] /\ tx' = <<>>
    BY <2>2, <2>3 DEF Sent
  <2>6. a \in Answers[Resp(t).line_num]
    BY <2>1, <2>5 DEF AnswersTo
  <2>7. a \in Seq(Kinds) /\ Len(a) \in Nat
    BY <2>4, <2>6, AnswerFacts
  <2>8. /\ cmd[t] = Len(given) + 1 /\ cmd[t] \in Nat /\ cmd[t] \in DOMAIN given'
        /\ given'[cmd[t]] = a
        /\ \A i \in DOMAIN given : i \in DOMAIN given' /\ given'[i] = given[i]
    BY <2>1, <2>3, <2>7 DEF Sent
  <2>9. /\ Mine(t)' = a /\ Resp(t)' = Resp(t) /\ RespOf(t)' = RespOf(t)
        /\ cmd' = cmd /\ pc' = pc /\ UNCHANGED <<ppc, sem, clientResp>>
    BY <2>2, <2>8 DEF Mine, Resp, RespOf, Own, Tmp, clientVars, taskVars,
       parserVars
  <2>10. Rest(rx', a, cmd[t], 0)
    BY <2>1, <2>3, <2>7, <2>8, RestStart DEF Sent
  <2>11. Listening(t, 0)'
    <3>1. Holds(Resp(t), a, cmd[t], 0)
      BY <2>3, <2>4, <2>7, <2>8, HoldsFresh DEF Sent
    <3> QED BY <2>3, <2>9, <3>1 DEF Sent, Listening
  <2>12. Answered(t, 0)'
    BY <2>5, <2>6, <2>7, <2>8, <2>9, <2>10, <2>11 DEF Answered
  <2>13. WaitInv' /\ IdleInv'
    BY <2>3, <2>9, <2>12, WaiterDecides DEF OnTheWay, LineInv
  <2>14. CallInv' /\ ReportInv'
    BY <2>2, <2>8, CallsStay DEF LineInv, CallInv, clientVars, parserVars
  <2> QED BY <2>13, <2>14
<1>2. ASSUME ModemUrc PROVE WaitInv' /\ IdleInv' /\ CallInv' /\ ReportInv'
  <2>1. PICK l \in Lines : l.kind \in Urcs /\ rx' = Append(rx, l)
    <3>1. PICK k \in Urcs : rx' = Append(rx, [kind |-> k, from |-> 0])
      BY <1>2 DEF ModemUrc
    <3>2. [kind |-> k, from |-> 0] \in Lines
      BY ConstantsOK DEF Lines, Kinds
    <3> QED BY <3>1, <3>2
  <2>2. UNCHANGED <<clientVars, taskVars, parserVars, tx, cmd, given>>
    BY <1>2 DEF ModemUrc
  <2>3. CallInv' /\ ReportInv'
    BY <2>2, CallsStay DEF LineInv, CallInv, clientVars, parserVars
  <2>4. OnlyUrcs(rx) => OnlyUrcs(rx')
    BY <2>1 DEF OnlyUrcs
  <2>5. CASE \A t \in Tasks : pc[t] # "wait"
    BY <2>2, <2>3, <2>4, <2>5 DEF LineInv, WaitInv, IdleInv, Idle, taskVars,
       clientVars, parserVars
  <2>6. ASSUME NEW t \in Tasks, pc[t] = "wait" PROVE WaitInv' /\ IdleInv'
    <3>0. /\ Mine(t)' = Mine(t) /\ Resp(t)' = Resp(t) /\ RespOf(t)' = RespOf(t)
          /\ cmd' = cmd /\ pc' = pc
          /\ UNCHANGED <<tx, ppc, sem, clientResp, respStatus, pline, presp,
                         given>>
      BY <2>2 DEF Mine, Resp, RespOf, Own, Tmp, taskVars, clientVars, parserVars
    <3>1. Sent(t) => Sent(t)'
      BY <2>4, <3>0 DEF Sent
    <3>2. ASSUME NEW k \in Nat, Answered(t, k) PROVE Answered(t, k)'
      <4>1. Rest(rx', Mine(t), cmd[t], k)
        BY <2>1, <2>6, <3>2, AnsweredFacts, RestAppend
      <4>2. Listening(t, k) => Listening(t, k)'
        BY <3>0 DEF Listening
      <4>3. Storing(t, k) => Storing(t, k)'
        BY <3>0 DEF Storing
      <4>4. Ended(t, k) => Ended(t, k)'
        BY <3>0 DEF Ended
      <4> QED BY <3>0, <3>2, <4>1, <4>2, <4>3, <4>4 DEF Answered
    <3>3. OnTheWay(t)'
      BY <2>6, <3>1, <3>2 DEF LineInv, WaitInv, OnTheWay
    <3> QED BY <2>6, <3>0, <3>3, WaiterDecides DEF LineInv
  <2> QED BY <2>3, <2>5, <2>6
<1> QED BY <1>1, <1>2 DEF ModemStep

LEMMA LineStutter ==
  ASSUME ReliableModem, LineInv, UNCHANGED vars
  PROVE  WaitInv' /\ IdleInv' /\ CallInv' /\ ReportInv'
<1> USE DEF vars, taskVars, parserVars
<1>1. CallInv' /\ ReportInv'
  BY CallsStay DEF LineInv, CallInv
<1>2. Idle => Idle'
  BY DEF Idle
<1>3. ASSUME NEW t \in Tasks, OnTheWay(t) PROVE OnTheWay(t)'
  BY <1>3, OnTheWayStays DEF lineVars, RespOf, Resp, Own, Tmp
<1> QED BY <1>1, <1>2, <1>3 DEF LineInv, WaitInv, IdleInv

LEMMA LineInit == Init => LineInv
<1> SUFFICES ASSUME Init PROVE LineInv
  OBVIOUS
<1>1. \A t \in Tasks : pc[t] = "idle" /\ call[t] = "none"
  BY DEF Init
<1>2. \A t \in Tasks : resp[Tmp(t)].line_num = 0
  BY OwnNotTmp DEF Init, EmptyResp
<1>3. OnlyUrcs(rx)
  BY DEF Init, OnlyUrcs
<1> QED BY InvInit, <1>1, <1>2, <1>3
     DEF Init, LineInv, WaitInv, IdleInv, Idle, CallInv, ReportInv

LEMMA LineNext ==
  ASSUME ReliableModem PROVE LineInv /\ [Next]_vars => LineInv'
<1> SUFFICES ASSUME LineInv, [Next]_vars PROVE LineInv'
  OBVIOUS
<1>1. IInv'
  BY InvNext DEF LineInv
<1>2. WaitInv' /\ IdleInv' /\ CallInv' /\ ReportInv'
  BY LineTask, LineParser, LineModem, LineStutter DEF Next, Terminated
<1> QED BY <1>1, <1>2 DEF LineInv

LEMMA LineAlways == ASSUME ReliableModem PROVE Spec => []LineInv
BY LineInit, LineNext, PTL DEF Spec

-----------------------------------------------------------------------------
(* What the callers get *)

\* A task that waits can still be woken: its response is in client->resp, or the
\* parser is about to release the semaphore, or has.
THEOREM WakeupSafe == ASSUME ReliableModem PROVE Spec => []NoLostWakeup
<1>1. LineInv => NoLostWakeup
  BY DEF LineInv, WaitInv, OnTheWay, Sent, Answered, Listening, Storing, Ended,
     NoLostWakeup
<1> QED BY LineAlways, <1>1, PTL

LEMMA LinesOfAnswer ==
  ASSUME ReliableModem, LineInv, NEW t \in Tasks, Kept(t)
  PROVE  resp[Own(t)].full
           \/ resp[Own(t)].lines = Tagged(Reply(Mine(t)), cmd[t])
<1> DEFINE r == resp[Own(t)]
           a == Mine(t)
<1>0. resp[Own(t)].line_num \in LineNums
  BY TaskFacts, OwnNotTmp DEF Responses
<1>1. a \in Seq(Kinds) /\ Reply(a) = a /\ DOMAIN a = 1 .. Len(a)
      /\ Len(a) \in Nat /\ cmd[t] \in Nat
  BY <1>0, AnswerFacts, TaskFacts DEF Kept
<1>2. r.lines \in Seq(Lines)
  BY TaskFacts, OwnNotTmp DEF Responses
<1>3. ASSUME ~r.full PROVE r.lines = Tagged(a, cmd[t])
  <2>1. /\ Len(r.lines) = Len(a)
        /\ \A i \in 1 .. Len(a) : r.lines[i] = [kind |-> a[i], from |-> cmd[t]]
    BY <1>3 DEF Kept, Holds
  <2>2. r.lines = [i \in 1 .. Len(a) |-> r.lines[i]]
    BY <1>2, <2>1
  <2>3. Tagged(a, cmd[t])
          = [i \in 1 .. Len(a) |-> [kind |-> a[i], from |-> cmd[t]]]
    BY <1>1 DEF Tagged
  <2> HIDE DEF r, a
  <2> QED BY <2>1, <2>2, <2>3
<1> QED BY <1>1, <1>3

\* A command that returned got the modem's answer to it, and nothing else.
THEOREM ReportSafe ==
  ASSUME ReliableModem PROVE Spec => []ExecReportsItsAnswer
<1>1. ASSUME LineInv PROVE ExecReportsItsAnswer
  <2> SUFFICES ASSUME NEW t \in Tasks, Returned(t, {"ok", "error"})
               PROVE  /\ cmd[t] \in DOMAIN given
                      /\ result[t] = "error" <=> Has(given[cmd[t]], "error")
                      /\ \/ resp[Own(t)].full
                         \/ resp[Own(t)].lines
                              = Tagged(Reply(given[cmd[t]]), cmd[t])
    BY DEF ExecReportsItsAnswer
  <2>1. Kept(t) /\ result[t] = StatusOf(Mine(t))
    BY <1>1 DEF LineInv, ReportInv, Returned, Due
  <2>2. result[t] = "error" <=> Has(Mine(t), "error")
    BY <2>1 DEF StatusOf
  <2> QED BY <1>1, <2>1, <2>2, LinesOfAnswer DEF Kept, Mine
<1> QED BY LineAlways, <1>1, PTL

-----------------------------------------------------------------------------
(* The client implements the service *)

\* What a call returns is the verdict on the answer, and the response has the
\* lines of the answer, or a part of them if one was too long.
LEMMA VerdictDue ==
  ASSUME ReliableModem, FittingAnswers, LineInv, NEW t \in Tasks, Kept(t)
  PROVE  /\ Due(t) = Service!Verdict(Mine(t))
         /\ Delivered(t) = IF Has(Mine(t), "long") THEN <<"cut">>
                                                   ELSE Reply(Mine(t))
<1> DEFINE r == resp[Own(t)]
           a == Mine(t)
           n == r.line_num
<1>1. r \in Responses /\ n \in LineNums /\ n \in Nat /\ r.lines \in Seq(Lines)
  BY ConstantsOK, TaskFacts, OwnNotTmp DEF Responses
<1>2. /\ a \in Seq(Kinds) /\ DOMAIN a = 1 .. Len(a) /\ Len(a) \in Nat
      /\ Reply(a) = a /\ cmd[t] \in Nat /\ a \in Answers[n]
      /\ Holds(r, a, cmd[t], Len(a))
  BY <1>1, AnswerFacts, TaskFacts DEF Kept
<1>3. /\ Len(a) < BufSize /\ BufSize \in Nat
      /\ n # 0 => ~Has(a, "long")
      /\ n # 0 /\ ~Has(a, "error") => (Has(a, "ok") <=> Len(a) = n)
  BY <1>1, <1>2, ConstantsOK DEF FittingAnswers
<1>4. r.full <=> Has(a, "long")
  <2>1. LongIn(a, Len(a)) <=> Has(a, "long")
    BY <1>2 DEF LongIn, Has
  <2>2. ~(Len(a) >= BufSize)
    BY <1>2, <1>3
  <2> QED BY <1>2, <2>1, <2>2 DEF Holds
<1>5. ASSUME ~r.full PROVE KindsOf(r.lines) = a
  <2>1. /\ Len(r.lines) = Len(a) /\ DOMAIN r.lines = 1 .. Len(a)
        /\ \A i \in 1 .. Len(a) : r.lines[i] = [kind |-> a[i], from |-> cmd[t]]
    BY <1>1, <1>2, <1>5 DEF Holds
  <2>2. KindsOf(r.lines) = [i \in 1 .. Len(a) |-> a[i]]
    <3>1. KindsOf(r.lines) = [i \in 1 .. Len(a) |-> r.lines[i].kind]
      BY <2>1 DEF KindsOf
    <3>2. ASSUME NEW i \in 1 .. Len(a) PROVE r.lines[i].kind = a[i]
      <4>1. r.lines[i] = [kind |-> a[i], from |-> cmd[t]]
        BY <2>1
      <4> QED BY <4>1
    <3> HIDE DEF r, a
    <3> QED BY <3>1, <3>2
  <2>3. a = [i \in 1 .. Len(a) |-> a[i]]
    BY <1>2
  <2> QED BY <2>2, <2>3
<1>6. Delivered(t) = IF Has(a, "long") THEN <<"cut">> ELSE Reply(a)
  BY <1>2, <1>4, <1>5 DEF Delivered
<1>7. Due(t) = Service!Verdict(a)
  <2>1. CASE Final(t)
    <3>1. Ends(a[Len(a)], r) /\ Len(a) > 0
      BY <2>1 DEF Final
    <3>2. ~Has(a, "error") => Has(a, "ok")
      <4> SUFFICES ASSUME ~Has(a, "error") PROVE Has(a, "ok")
        OBVIOUS
      <4>1. Len(a) \in DOMAIN a
        BY <1>2, <3>1
      <4>2. a[Len(a)] # "error"
        BY <4>1 DEF Has
      <4>3. CASE n = 0
        BY <3>1, <4>1, <4>2, <4>3 DEF Ends, Has
      <4>4. CASE n # 0
        <5>1. Len(r.lines) = n
          BY <3>1, <4>2, <4>4 DEF Ends
        <5>2. ~r.full
          BY <1>3, <1>4, <4>4
        <5>3. Len(a) = n
          BY <1>2, <5>1, <5>2 DEF Holds
        <5> QED BY <1>3, <4>4, <5>3
      <4> QED BY <4>3, <4>4
    <3> QED BY <2>1, <3>2 DEF Due, StatusOf, Service!Verdict, Service!Has, Has
  <2>2. CASE ~Final(t)
    <3>1. Len(a) > 0 => ~Ends(a[Len(a)], r)
      BY <2>2 DEF Final
    <3>2. ~Has(a, "error") /\ ~Has(a, "ok")
      BY <1>1, <1>2, <3>1, NothingEnds
    <3> QED BY <2>2, <3>2 DEF Due, Service!Verdict, Service!Has, Has
  <2> QED BY <2>1, <2>2
<1> QED BY <1>6, <1>7

\* Commands are on their way one at a time.
On(t) == call[t] = "exec" /\ pc[t] \in {"wait", "check", "finish"}

LEMMA OwnerIs ==
  ASSUME IInv, NEW t \in Tasks, On(t)
  PROVE  /\ Owner = t /\ Owner # None
         /\ OwnAnswer = IF cmd[t] \in DOMAIN given THEN Mine(t) ELSE <<>>
<1>1. \A u \in Tasks : On(u) => u = t
  BY OneCritical DEF On, Critical
<1>2. OnItsWay = {t}
  BY <1>1 DEF OnItsWay, On
<1>3. Owner = t /\ t # None
  BY <1>2, ConstantsOK DEF Owner
<1> QED BY <1>3 DEF OwnAnswer, Mine

LEMMA OwnerNone ==
  ASSUME \A t \in Tasks : ~On(t)
  PROVE  Owner = None /\ OwnAnswer = <<>>
<1>1. OnItsWay = {}
  BY DEF OnItsWay, On
<1> QED BY <1>1 DEF Owner, OwnAnswer

LEMMA OwnerIsNext ==
  ASSUME IInv', NEW t \in Tasks, On(t)'
  PROVE  /\ Owner' = t
         /\ OwnAnswer' = IF cmd'[t] \in DOMAIN given' THEN Mine(t)' ELSE <<>>
<1>1. \A u \in Tasks : On(u)' => u = t
  BY DEF IInv, LockInv, On, Critical
<1>2. OnItsWay' = {t}
  BY <1>1 DEF OnItsWay, On
<1>3. Owner' = t /\ t # None
  BY <1>2, ConstantsOK DEF Owner
<1> QED BY <1>3 DEF OwnAnswer, Mine

LEMMA OwnerNoneNext ==
  ASSUME \A t \in Tasks : ~On(t)'
  PROVE  Owner' = None /\ OwnAnswer' = <<>>
<1>1. OnItsWay' = {}
  BY DEF OnItsWay, On
<1> QED BY <1>1 DEF Owner, OwnAnswer

\* A step that starts and ends no command, and in which the modem does not
\* answer one, is not seen by the service.
LEMMA OwnerStays ==
  ASSUME IInv, IInv', \A t \in Tasks : On(t)' <=> On(t),
         \A t \in Tasks : On(t) => cmd'[t] = cmd[t], given' = given
  PROVE  Owner' = Owner /\ OwnAnswer' = OwnAnswer
<1>1. CASE \A t \in Tasks : ~On(t)
  BY <1>1, OwnerNone, OwnerNoneNext
<1>2. ASSUME NEW t \in Tasks, On(t) PROVE Owner' = Owner /\ OwnAnswer' = OwnAnswer
  BY <1>2, OwnerIs, OwnerIsNext DEF Mine
<1> QED BY <1>1, <1>2

DoneStays(t) ==
  /\ Done(t)' <=> Done(t)
  /\ Done(t) => result'[t] = result[t] /\ resp'[Own(t)] = resp[Own(t)]

LEMMA RepliesStay ==
  ASSUME \A t \in Tasks : DoneStays(t)
  PROVE  Outcomes' = Outcomes /\ Replies' = Replies
<1>1. \A t \in Tasks : Done(t) => Delivered(t)' = Delivered(t)
  BY DEF DoneStays, Delivered, Own
<1> QED BY <1>1 DEF Outcomes, Replies, DoneStays

LEMMA ServiceInit == Init => Service!Init
<1> SUFFICES ASSUME Init PROVE Service!Init
  OBVIOUS
<1>1. \A t \in Tasks : ~On(t) /\ ~Done(t)
  BY DEF Init, On, Done
<1>2. Owner = None /\ OwnAnswer = <<>>
  BY <1>1, OwnerNone
<1> QED BY <1>1, <1>2 DEF Service!Init, Outcomes, Replies

\* What the steps of a task do to a command of the service.
LEMMA ServiceStutter ==
  ASSUME IInv, IInv', \A t \in Tasks : On(t)' <=> On(t),
         \A t \in Tasks : On(t) => cmd'[t] = cmd[t], given' = given,
         \A t \in Tasks : DoneStays(t)
  PROVE  UNCHANGED Service!vars
BY OwnerStays, RepliesStay DEF Service!vars

LEMMA ServiceCall ==
  ASSUME ReliableModem, LineInv, LineInv', NEW u \in Tasks, NEW k, Begin(u, k),
         TaskStep(u)
  PROVE  Service!Call(u)
<1> USE TaskFacts
<1>1. /\ pc[u] = "idle" /\ pc' = [pc EXCEPT ![u] = "lock"] /\ cmd' = cmd
      /\ call' = [call EXCEPT ![u] = k] /\ given' = given
      /\ result' = [result EXCEPT ![u] = "none"]
  BY DEF Begin, Return, Goto
<1>2. \A t \in Tasks : On(t)' <=> On(t)
  BY <1>1 DEF On
<1>3. Owner' = Owner /\ OwnAnswer' = OwnAnswer
  BY <1>1, <1>2, OwnerStays DEF LineInv
<1>4. Owner # u
  <2>1. CASE \A t \in Tasks : ~On(t)
    BY <2>1, OwnerNone, ConstantsOK
  <2>2. ASSUME NEW t \in Tasks, On(t) PROVE Owner # u
    BY <1>1, <2>2, OwnerIs DEF LineInv, On
  <2> QED BY <2>1, <2>2
<1>5. \A t \in Tasks \ {u} : DoneStays(t)
  BY <1>1, OthersStay DEF Done, DoneStays
<1>6. ~Done(u)'
  BY <1>1 DEF Done
<1>7. \A t \in Tasks \ {u} : Done(t) => Delivered(t)' = Delivered(t)
  BY <1>5 DEF DoneStays, Delivered, Own
<1>8. Outcomes' = [Outcomes EXCEPT ![u] = "none"]
  BY <1>5, <1>6 DEF Outcomes, DoneStays
<1>9. Replies' = [Replies EXCEPT ![u] = <<>>]
  BY <1>5, <1>6, <1>7 DEF Replies, DoneStays
<1> QED BY <1>3, <1>4, <1>8, <1>9 DEF Service!Call

LEMMA ServiceSend ==
  ASSUME ReliableModem, LineInv, LineInv', NEW u \in Tasks, ExecWrite(u)
  PROVE  Service!Send(u)
<1> USE TaskFacts
<1>1. /\ pc[u] = "write" /\ call[u] = "exec" /\ call' = call /\ given' = given
      /\ pc' = [pc EXCEPT ![u] = "wait"] /\ resp' = resp /\ result' = result
      /\ cmd' = [cmd EXCEPT ![u] = NextNumber]
  BY DEF ExecWrite, Goto
<1>2. \A t \in Tasks : ~On(t)
  BY <1>1, OneCritical DEF LineInv, On, Critical
<1>3. Owner = None
  BY <1>2, OwnerNone
<1>4. On(u)'
  BY <1>1 DEF On
<1>5. NextNumber = Len(given) + 1 + Len(tx) /\ Len(tx) \in Nat /\ Len(given) \in Nat
  BY DEF NextNumber
<1>6. cmd'[u] \notin DOMAIN given'
  BY <1>1, <1>5
<1>7. Owner' = u /\ OwnAnswer' = <<>>
  BY <1>4, <1>6, OwnerIsNext DEF LineInv
<1>8. \A t \in Tasks : DoneStays(t)
  BY <1>1 DEF DoneStays, Done, Own
<1>9. Outcomes[u] = "none"
  BY <1>1 DEF Outcomes, Done
<1> QED BY <1>3, <1>7, <1>8, <1>9, RepliesStay DEF Service!Send

LEMMA ServiceReturn ==
  ASSUME ReliableModem, FittingAnswers, LineInv, LineInv', NEW u \in Tasks,
         Finish(u), call[u] = "exec"
  PROVE  Service!Return(u)
<1> USE TaskFacts
<1>1. /\ pc[u] = "finish" /\ pc' = [pc EXCEPT ![u] = "idle"]
      /\ UNCHANGED <<call, result, resp, cmd, given>>
  BY DEF Finish, Goto
<1>2. Kept(u) /\ result[u] = Due(u)
  BY <1>1 DEF LineInv, ReportInv
<1>3. Owner = u /\ OwnAnswer = Mine(u)
  BY <1>1, <1>2, OwnerIs DEF LineInv, On, Kept
<1>4. \A t \in Tasks : ~On(t)'
  BY <1>1, OneCritical DEF LineInv, On, Critical
<1>5. Owner' = None /\ OwnAnswer' = <<>>
  BY <1>4, OwnerNoneNext
<1>6. \A t \in Tasks \ {u} : DoneStays(t)
  BY <1>1 DEF DoneStays, Done, Own
<1>7. Done(u)' /\ Delivered(u)' = Delivered(u) /\ result'[u] = result[u]
  BY <1>1 DEF Done, Delivered, Own
<1>8. \A t \in Tasks \ {u} : Done(t) => Delivered(t)' = Delivered(t)
  BY <1>1 DEF Delivered, Own
<1>9. Outcomes' = [Outcomes EXCEPT ![u] = Service!Verdict(OwnAnswer)]
  BY <1>2, <1>3, <1>6, <1>7, VerdictDue DEF Outcomes, DoneStays
<1>10. Replies' = [Replies EXCEPT ![u] =
                     IF Has(OwnAnswer, "long") THEN Service!Cut
                                               ELSE Reply(OwnAnswer)]
  <2>1. Delivered(u) = IF Has(OwnAnswer, "long") THEN Service!Cut
                                                 ELSE Reply(OwnAnswer)
    BY <1>2, <1>3, VerdictDue DEF Service!Cut
  <2> QED BY <1>6, <1>7, <1>8, <2>1 DEF Replies, DoneStays
<1> QED BY <1>3, <1>5, <1>9, <1>10 DEF Service!Return, Reply

LEMMA ServiceTask ==
  ASSUME ReliableModem, FittingAnswers, LineInv, LineInv', NEW u \in Tasks,
         TaskStep(u)
  PROVE  Service!Next \/ UNCHANGED Service!vars
<1> USE TaskFacts
<1>0. \A t \in Tasks \ {u} : /\ On(t)' <=> On(t)
                             /\ cmd'[t] = cmd[t] /\ given' = given /\ DoneStays(t)
  BY OthersStay DEF On, DoneStays, Done
<1>1. ASSUME On(u)' <=> On(u), On(u) => cmd'[u] = cmd[u], given' = given,
             DoneStays(u)
      PROVE  UNCHANGED Service!vars
  BY <1>0, <1>1, ServiceStutter DEF LineInv
<1>2. ASSUME NEW n \in LineNums, CallExec(u, n) PROVE Service!Next
  BY <1>2, ServiceCall DEF CallExec, Service!Next
<1>3. ASSUME CallWaitConnect(u) PROVE Service!Next
  BY <1>3, ServiceCall DEF CallWaitConnect, Service!Next
<1>4. ASSUME NEW b \in BOOLEAN, SetEndSign(u, b) PROVE UNCHANGED Service!vars
  <2>1. UNCHANGED <<pc, call, cmd, given, result, resp>>
    BY <1>4 DEF SetEndSign
  <2> QED BY <1>1, <2>1 DEF On, DoneStays, Done, Own
<1>5. ASSUME TakeLock(u) \/ ExecPrepare(u) \/ ConnectPrepare(u) \/ ResetSem(u)
               \/ ConnectGiveUp(u) \/ ConnectProbe(u) \/ DeleteResp(u)
      PROVE  UNCHANGED Service!vars
  <2>1. /\ pc[u] \in {"lock", "prepare", "reset", "write", "delete"}
        /\ pc'[u] \in {"write", "prepare", "reset", "delete", "wait", "finish"}
        /\ call' = call /\ given' = given
        /\ pc'[u] \in {"wait", "finish"} => call[u] # "exec"
    BY <1>5, Parts DEF TakeLock, ExecPrepare, ConnectPrepare, ResetSem,
       ConnectGiveUp, ConnectProbe, DeleteResp, Goto, Return, LineInv, CallOf
  <2> QED BY <1>1, <2>1 DEF On, DoneStays, Done
<1>6. ASSUME ExecWrite(u) PROVE Service!Next
  BY <1>6, ServiceSend DEF Service!Next
<1>7. ASSUME Woken(u) \/ TimedOut(u) \/ CheckStatus(u)
      PROVE  UNCHANGED Service!vars
  <2>1. /\ pc[u] \in {"wait", "check"} /\ UNCHANGED <<call, given, cmd>>
        /\ pc'[u] \in {"check", "delete", "finish", "write"}
        /\ call[u] = "exec" => pc'[u] \in {"check", "finish"}
    BY <1>7 DEF Woken, TimedOut, CheckStatus, Goto, Return
  <2> QED BY <1>1, <2>1 DEF On, DoneStays, Done
<1>8. ASSUME Finish(u) PROVE Service!Next \/ UNCHANGED Service!vars
  <2>1. CASE call[u] = "exec"
    BY <1>8, <2>1, ServiceReturn DEF Service!Next
  <2>2. CASE call[u] # "exec"
    <3>1. call' = call /\ given' = given
      BY <1>8 DEF Finish
    <3> QED BY <1>1, <2>2, <3>1 DEF On, DoneStays, Done
  <2> QED BY <2>1, <2>2
<1>9. ~SendWrite(u) /\ ~CallExecNull(u) /\ ~CallSend(u)
  BY DEF SendWrite
<1> QED BY <1>2, <1>3, <1>4, <1>5, <1>6, <1>7, <1>8, <1>9
     DEF TaskStep, CallStep

LEMMA ServiceParser ==
  ASSUME ReliableModem, LineInv, LineInv', ParserStep
  PROVE  UNCHANGED Service!vars
<1>1. UNCHANGED <<taskVars, cmd, given>>
  BY DEF ParserStep, ReadPartial, ReadUrc, ReadUnrecognized, ReadResponse,
     StoreLine, ClearResp, Notify, HandlerLock, HandlerSend, HandlerRecv,
     HandlerRecvTimedOut
<1>2. ASSUME NEW t \in Tasks, Done(t) PROVE resp'[Own(t)] = resp[Own(t)]
  <2>1. CASE ~StoreLine
    BY <2>1 DEF ParserStep, ReadPartial, ReadUrc, ReadUnrecognized,
       ReadResponse, ClearResp, Notify, HandlerLock, HandlerSend, HandlerRecv,
       HandlerRecvTimedOut, clientVars
  <2>2. CASE StoreLine
    <3>1. PICK w \in Tasks, k \in Nat : pc[w] = "wait" /\ Storing(w, k)
      BY <2>2, BusyParser DEF StoreLine, Ended
    <3>2. w # t
      BY <1>2, <3>1 DEF Done
    <3>3. presp # Own(t)
      BY <3>1, <3>2, RespOfOthers DEF LineInv, Storing
    <3> QED BY <2>2, <3>3, OwnNotTmp, TaskFacts DEF StoreLine
  <2> QED BY <2>1, <2>2
<1>3. \A t \in Tasks : (On(t)' <=> On(t)) /\ DoneStays(t) /\ cmd'[t] = cmd[t]
  BY <1>1, <1>2 DEF On, DoneStays, Done, taskVars
<1> QED BY <1>1, <1>3, ServiceStutter DEF LineInv

LEMMA ServiceModem ==
  ASSUME ReliableModem, LineInv, LineInv', ModemStep
  PROVE  Service!Next \/ UNCHANGED Service!vars
<1>1. UNCHANGED <<taskVars, resp, cmd>>
  BY DEF ModemStep, ModemAnswer, ModemUrc, clientVars
<1>2. \A t \in Tasks : (On(t)' <=> On(t)) /\ DoneStays(t) /\ cmd'[t] = cmd[t]
  BY <1>1 DEF On, DoneStays, Done, Own, taskVars
<1>3. ASSUME ModemUrc PROVE UNCHANGED Service!vars
  <2>1. given' = given
    BY <1>3 DEF ModemUrc
  <2> QED BY <1>2, <2>1, ServiceStutter DEF LineInv
<1>4. ASSUME ModemAnswer PROVE Service!Next \/ UNCHANGED Service!vars
  <2>1. PICK a \in AnswersTo(Head(tx)) : given' = Append(given, a)
    BY <1>4 DEF ModemAnswer
  <2>2. PICK t \in Tasks : pc[t] = "wait" /\ Sent(t)
    BY <1>4 DEF ModemAnswer, LineInv, WaitInv, IdleInv, Idle, OnTheWay, Answered
  <2>3. /\ Resp(t).line_num \in LineNums
        /\ Head(tx) = [type |-> "cmd", line_num |-> Resp(t).line_num]
    BY <2>2, RespOfCall, TaskFacts DEF LineInv, Resp, Responses, Sent
  <2>4. a \in Answers[Resp(t).line_num]
    BY <2>1, <2>3 DEF AnswersTo
  <2>5. /\ cmd[t] \notin DOMAIN given /\ cmd[t] \in DOMAIN given'
        /\ given'[cmd[t]] = a
    BY <2>1, <2>2, TaskFacts DEF Sent
  <2>6. CASE call[t] = "exec"
    <3>1. On(t) /\ On(t)'
      BY <1>2, <2>2, <2>6 DEF On
    <3>2. Owner = t /\ Owner # None /\ OwnAnswer = <<>>
      BY <2>5, <3>1, OwnerIs DEF LineInv
    <3>3. Owner' = t /\ OwnAnswer' = a
      BY <1>1, <2>5, <3>1, OwnerIsNext DEF LineInv, Mine
    <3>4. Outcomes' = Outcomes /\ Replies' = Replies
      BY <1>2, RepliesStay
    <3>5. a \in UNION {Answers[n] : n \in LineNums}
      BY <2>3, <2>4
    <3> QED BY <3>2, <3>3, <3>4, <3>5 DEF Service!Next, Service!Reply
  <2>7. CASE call[t] # "exec"
    <3>1. \A u \in Tasks : ~On(u)
      BY <2>2, <2>7, OneCritical DEF LineInv, On, Critical
    <3>2. UNCHANGED <<Owner, OwnAnswer>>
      BY <1>2, <3>1, OwnerNone, OwnerNoneNext
    <3> QED BY <1>2, <3>2, RepliesStay DEF Service!vars
  <2> QED BY <2>6, <2>7
<1> QED BY <1>3, <1>4 DEF ModemStep

LEMMA ServiceNext ==
  ASSUME ReliableModem, FittingAnswers
  PROVE  LineInv /\ LineInv' /\ [Next]_vars => [Service!Next]_(Service!vars)
<1> SUFFICES ASSUME LineInv, LineInv', [Next]_vars
             PROVE  Service!Next \/ UNCHANGED Service!vars
  OBVIOUS
<1>1. ASSUME UNCHANGED vars PROVE UNCHANGED Service!vars
  <2>1. UNCHANGED <<pc, call, cmd, given, result, resp>>
    BY <1>1 DEF vars, taskVars
  <2>2. \A t \in Tasks : (On(t)' <=> On(t)) /\ DoneStays(t) /\ cmd'[t] = cmd[t]
    BY <2>1 DEF On, DoneStays, Done, Own
  <2> QED BY <2>1, <2>2, ServiceStutter DEF LineInv
<1> QED BY <1>1, ServiceTask, ServiceParser, ServiceModem DEF Next, Terminated

\* The client implements the service: one command on its way at a time, answered
\* with the modem's own lines and the result they call for.
THEOREM ServiceImplemented ==
  ASSUME ReliableModem, FittingAnswers PROVE Spec => ImplementsService
<1>1. Init => Service!Init
  BY ServiceInit
<1>2. LineInv /\ LineInv' /\ [Next]_vars => [Service!Next]_(Service!vars)
  BY ServiceNext
<1> QED BY LineAlways, <1>1, <1>2, PTL DEF Spec, Service!Spec, ImplementsService
=============================================================================

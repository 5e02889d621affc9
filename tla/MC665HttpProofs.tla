--------------------------- MODULE MC665HttpProofs ----------------------------
(***************************************************************************)
(* Proofs about MC665Http: the parser writes only into a buffer whose      *)
(* owner is still in mc665_http_read_data, the length that a read returns  *)
(* is that of the bytes in its buffer, and with prompt answers a read gets *)
(* the reply to its own request and a session its own header, for every    *)
(* set of callers, lengths and timing.                                     *)
(*                                                                         *)
(* The first two need obj->mutex only.  While the handler holds it, from   *)
(* its look at obj->msg to the store of read_len, nobody can point         *)
(* obj->msg elsewhere or clear it, and a caller that has not cleared it    *)
(* has not left.  The other two need the driver's mutex as well: one read  *)
(* is between its command and its answer at a time, and what follows it    *)
(* through its stages is where the reply to this read is, if there is one: *)
(* still to come, on the line, with the handler, in the buffer.            *)
(***************************************************************************)
EXTENDS MC665Http, TLAPS

\* The handler holds obj->mutex from HandlerTake to HandlerGive.
HandlerHolds ==
  (objMutex = Parser) <=> ppc \in {"check", "copy", "set_len", "give"}

\* obj->msg points at the structure of a caller that has not cleared it yet.
MsgIsLive == \A c \in Callers : msg = c => pc[c] \in {"send", "await", "data_wait"}

\* What the handler has checked still holds when it writes.
WritesThroughMsg ==
  ppc \in {"copy", "set_len"} =>
    pmsg = msg /\ pmsg \in Callers /\ pline.len <= len[pmsg]

\* read_len and the bytes in the buffer are of the same reply, but for the
\* moment between the two stores.
SameReply ==
  \A c \in Callers :
    IF ppc = "set_len" /\ pmsg = c
    THEN buf[c].len = pline.len ELSE readLen[c] = buf[c].len

\* A read returns read_len, and nobody has changed it since.
ReturnsReadLen ==
  \A c \in Callers : pc[c] = "idle" /\ op[c] = "read" => ret[c] = readLen[c]

\* Only sessions wait for a status and a header.
SessionsWait ==
  \A c \in Callers :
    pc[c] \in {"exec", "status", "status_wait", "resp", "resp_wait"} =>
      op[c] # "read"

IInv == /\ TypeOK /\ HandlerHolds /\ MsgIsLive /\ WritesThroughMsg
        /\ SameReply /\ ReturnsReadLen /\ SessionsWait

-----------------------------------------------------------------------------
(* Types *)

USE HttpConstantsOK

\* Setting bits keeps the event group's type.
LEMMA SetBitsType ==
  ASSUME NEW new \in SUBSET BitNames, bits \subseteq BitNames,
         want \in [Callers -> SUBSET BitNames],
         got \in [Callers -> SUBSET BitNames], SetBits(new)
  PROVE  /\ bits' \subseteq BitNames
         /\ want' \in [Callers -> SUBSET BitNames]
         /\ got' \in [Callers -> SUBSET BitNames]
  BY DEF SetBits, LeftOf

\* Waiting and a timeout do too.
LEMMA WaitBitsType ==
  ASSUME NEW c \in Callers, NEW w \in SUBSET BitNames, bits \subseteq BitNames,
         want \in [Callers -> SUBSET BitNames],
         got \in [Callers -> SUBSET BitNames],
         WaitBits(c, w) \/ WaitExpires(c)
  PROVE  /\ bits' \subseteq BitNames
         /\ want' \in [Callers -> SUBSET BitNames]
         /\ got' \in [Callers -> SUBSET BitNames]
  BY DEF WaitBits, WaitExpires

\* Sequences of no, one and two elements.
LEMMA ShortSeqs ==
  ASSUME NEW S, NEW x \in S, NEW y \in S
  PROVE  <<>> \in Seq(S) /\ <<x>> \in Seq(S) /\ <<x, y>> \in Seq(S)
  OBVIOUS

\* The first element of a sequence and the rest.
LEMMA HeadAndTail ==
  ASSUME NEW S, NEW s \in Seq(S), s # <<>>
  PROVE  Head(s) \in S /\ Tail(s) \in Seq(S)
  OBVIOUS

\* The modem's answers are lines.
LEMMA RepliesType ==
  ASSUME NEW item \in [type : {"act", "read"}, len : Nat], NEW num \in Nat,
         NEW a \in Replies(item, num)
  PROVE  a \in Seq(Lines)
<1>1. ASSUME NEW n \in Nat, NEW w \in BOOLEAN PROVE Reply(num, n, w) \in Seq(Lines)
  BY DEF Reply, Lines
<1>2. Line("fail", num) \in Lines /\ Line("success", num) \in Lines
      /\ Line("res", num) \in Lines
  BY DEF Line, Lines
<1>3. \A n \in {0} \cup UNION {Lengths[c] : c \in Callers} : n \in Nat
  OBVIOUS
<1>4. \A n \in Nat : Min2(n, item.len) \in Nat
  BY DEF Min2
<1>5. CASE item.type = "act"
  <2>1. \/ a = <<>> \/ a = <<Line("fail", num)>>
        \/ a = <<Line("success", num), Line("res", num)>>
    BY <1>5, Zenon DEF Replies
  <2>2. /\ <<>> \in Seq(Lines) /\ <<Line("fail", num)>> \in Seq(Lines)
        /\ <<Line("success", num), Line("res", num)>> \in Seq(Lines)
    BY <1>2, ShortSeqs
  <2> QED BY <2>1, <2>2, Zenon
<1>6. CASE item.type # "act"
  <2>1. \/ a = <<>> \/ a = Reply(num, item.len, FALSE)
        \/ \E n \in {0} \cup UNION {Lengths[c] : c \in Callers} :
             a = Reply(num, Min2(n, item.len), TRUE)
    BY <1>6, Zenon DEF Replies
  <2>2. item.len \in Nat
    OBVIOUS
  <2>3. TRUE \in BOOLEAN /\ FALSE \in BOOLEAN /\ <<>> \in Seq(Lines)
    OBVIOUS
  <2>4. CASE a = <<>> \/ a = Reply(num, item.len, FALSE)
    BY <2>2, <2>3, <2>4, <1>1, Zenon
  <2>5. ASSUME NEW n \in {0} \cup UNION {Lengths[c] : c \in Callers},
               a = Reply(num, Min2(n, item.len), TRUE)
        PROVE  a \in Seq(Lines)
    <3>1. n \in Nat
      BY <1>3, Zenon
    <3>2. Min2(n, item.len) \in Nat
      BY <3>1, <1>4, Zenon
    <3> QED BY <2>3, <2>5, <3>2, <1>1, Zenon
  <2> QED BY <2>1, <2>4, <2>5, Zenon
<1> QED BY <1>5, <1>6

-----------------------------------------------------------------------------
(* The invariant *)

\* The invariant holds in the beginning,
LEMMA InvInit == Init => IInv
<1> SUFFICES ASSUME Init PROVE IInv
  OBVIOUS
<1>1. tx \in Seq([type : {"act", "read"}, len : Nat]) /\ rx \in Seq(Lines)
      /\ given \in Seq(Seq(Lines))
  BY DEF Init
<1>2. pline \in Lines
  BY DEF Init, NoLine, Line, Lines
<1>3. TypeOK
  BY <1>1, <1>2 DEF Init, TypeOK, InitGroup, PcLabels, PpcLabels, BitNames, OpKinds
<1> QED BY <1>3 DEF IInv, Init, HandlerHolds, MsgIsLive, WritesThroughMsg,
                    SameReply, ReturnsReadLen, SessionsWait

\* The types.  One step per action.
LEMMA TypeStep == TypeOK /\ WritesThroughMsg /\ [Next]_vars => TypeOK'
<1> SUFFICES ASSUME TypeOK, WritesThroughMsg, [Next]_vars PROVE TypeOK'
  OBVIOUS
<1> USE DEF TypeOK, PcLabels, PpcLabels, callerVars, parserVars, history, groupVars
<1>1. CASE HttpInit
  BY <1>1 DEF HttpInit
<1>2. ASSUME NEW c \in Callers, NEW o \in OpKinds, NEW n \in Nat, Call(c, o, n)
      PROVE TypeOK'
  BY <1>2 DEF Call, Goto, OpKinds
<1>3. ASSUME NEW c \in Callers, CallStep(c) PROVE TypeOK'
  <2>1. CASE TakeLock(c)
    BY <2>1 DEF TakeLock, Goto
  <2>2. ASSUME NEW type \in {"act", "read"}, NEW n \in Nat, Put(c, type, n)
        PROVE tx' \in Seq([type : {"act", "read"}, len : Nat])
              /\ asked' \in [Callers -> Nat]
    BY <2>2 DEF Put
  <2>3. CASE Exec(c)
    BY <2>2, <2>3 DEF Exec, Goto
  <2>4. CASE AwaitStatus(c)
    <3>1. {"success", "fail"} \in SUBSET BitNames
      BY DEF BitNames
    <3> QED BY <2>4, <3>1, WaitBitsType DEF AwaitStatus, Goto
  <2>5. CASE StatusDone(c)
    BY <2>5 DEF StatusDone, Goto
  <2>6. CASE AwaitResp(c)
    <3>1. {"resp"} \in SUBSET BitNames
      BY DEF BitNames
    <3> QED BY <2>6, <3>1, WaitBitsType DEF AwaitResp, Goto
  <2>7. CASE RespDone(c)
    <3>1. ret' \in [Callers -> Nat] /\ sess' \in [Callers -> Nat]
      <4>1. \/ ret' = ret /\ sess' = sess
            \/ /\ ret' = [ret EXCEPT ![c] = 1]
               /\ sess' = [sess EXCEPT ![c] = objResp]
        BY <2>7, Zenon DEF RespDone
      <4>2. /\ ret \in [Callers -> Nat] /\ sess \in [Callers -> Nat]
            /\ objResp \in Nat /\ 1 \in Nat
        OBVIOUS
      <4> HIDE DEF TypeOK
      <4> QED BY ONLY <4>1, <4>2, c \in Callers
    <3>2. pc' \in [Callers -> PcLabels]
      BY <2>7 DEF RespDone, Goto
    <3> QED BY <2>7, <3>1, <3>2 DEF RespDone
  <2>8. CASE ReadSetMsg(c)
    BY <2>8 DEF ReadSetMsg, Goto
  <2>9. CASE ReadSend(c)
    BY <2>2, <2>9 DEF ReadSend, Goto
  <2>10. CASE ReadAwait(c)
    <3>1. {"data"} \in SUBSET BitNames
      BY DEF BitNames
    <3> QED BY <2>10, <3>1, WaitBitsType DEF ReadAwait, Goto
  <2>11. CASE ReadClearMsg(c)
    BY <2>11 DEF ReadClearMsg, Goto
  <2>12. CASE ReadReturn(c)
    BY <2>12 DEF ReadReturn, Return, Goto
  <2>13. CASE WaitTimesOut(c)
    <3>1. {} \in SUBSET BitNames
      OBVIOUS
    <3> QED BY <2>13, <3>1, WaitBitsType DEF WaitTimesOut
  <2> QED BY <1>3, <2>1, <2>3, <2>4, <2>5, <2>6, <2>7, <2>8, <2>9, <2>10,
             <2>11, <2>12, <2>13 DEF CallStep
<1>4. CASE ParserStep
  <2>1. rx # <<>> => Head(rx) \in Lines /\ Tail(rx) \in Seq(Lines)
    OBVIOUS
  <2>2. CASE HandleStatus
    <3>1. {Head(rx).kind} \in SUBSET BitNames
      BY <2>2 DEF HandleStatus, BitNames
    <3> QED BY <2>1, <2>2, <3>1, SetBitsType DEF HandleStatus
  <2>3. CASE HandleResp
    <3>1. {"resp"} \in SUBSET BitNames
      BY DEF BitNames
    <3> QED BY <2>1, <2>3, <3>1, SetBitsType DEF HandleResp, Lines
  <2>4. CASE HandleData
    BY <2>1, <2>4 DEF HandleData
  <2>5. CASE HandlerTake
    BY <2>5 DEF HandlerTake
  <2>6. CASE HandlerCheck
    BY <2>6 DEF HandlerCheck
  <2>7. pline.num \in Nat /\ pline.len \in Nat
    BY DEF Lines
  <2>8. CASE HandlerCopy
    BY <2>7, <2>8 DEF HandlerCopy
  <2>9. CASE HandlerSetLen
    <3>1. {"data"} \in SUBSET BitNames
      BY DEF BitNames
    <3> QED BY <2>7, <2>9, <3>1, SetBitsType DEF HandlerSetLen
  <2>10. CASE HandlerGive
    BY <2>10 DEF HandlerGive, NoLine, Line, Lines
  <2> QED BY <1>4, <2>2, <2>3, <2>4, <2>5, <2>6, <2>8, <2>9, <2>10 DEF ParserStep
<1>5. CASE ModemServe
  <2>1. Head(tx) \in [type : {"act", "read"}, len : Nat]
        /\ Tail(tx) \in Seq([type : {"act", "read"}, len : Nat])
    BY <1>5, HeadAndTail, Zenon DEF ModemServe
  <2>2. PICK a \in Replies(Head(tx), Len(given) + 1) :
          rx' = rx \o a /\ given' = Append(given, a)
    BY <1>5, Zenon DEF ModemServe
  <2>3. a \in Seq(Lines)
    <3>1. Len(given) + 1 \in Nat
      OBVIOUS
    <3> QED BY <2>1, <2>2, <3>1, RepliesType, Zenon
  <2>4. rx' \in Seq(Lines) /\ given' \in Seq(Seq(Lines))
    BY <2>2, <2>3
  <2> QED BY <1>5, <2>1, <2>4 DEF ModemServe
<1>6. CASE Terminated \/ UNCHANGED vars
  BY <1>6 DEF Terminated, vars
<1>7. 0 \in Nat /\ \A c \in Callers : \A n \in Lengths[c] : n \in Nat
  OBVIOUS
<1> QED BY <1>1, <1>2, <1>3, <1>4, <1>5, <1>6, <1>7 DEF Next, OpKinds

\* The rest, from what TypeOK says of the variables it is about.
Shapes == /\ pc \in [Callers -> PcLabels] /\ ret \in [Callers -> Nat]
          /\ op \in [Callers -> OpKinds \cup {"none"}]
          /\ len \in [Callers -> Nat] /\ readLen \in [Callers -> Nat]
          /\ buf \in [Callers -> [num : Nat, len : Nat]]
          /\ pline \in Lines /\ msg \in Callers \cup {None}
          /\ objMutex \in {Parser, None}

Lean == HandlerHolds /\ MsgIsLive /\ WritesThroughMsg /\ SameReply
        /\ ReturnsReadLen /\ SessionsWait

\* Steps of a caller.  The six parts are disturbed by the steps that store to
\* obj->msg, to the program counter of a caller or to its result.
LEMMA CallerKeepsLean ==
  ASSUME NEW c \in Callers, Shapes, Lean,
         CallStep(c) \/ (\E o \in OpKinds, n \in Nat : Call(c, o, n))
  PROVE  Lean'
<1> USE DEF Lean, Shapes, Goto, callerVars, parserVars, history
<1>1. CASE \E o \in OpKinds, n \in Nat : Call(c, o, n)
  <2>1. PICK o \in OpKinds, n \in Nat : Call(c, o, n)
    BY <1>1
  <2>2. pc[c] = "idle" /\ msg # c
    BY <2>1 DEF Call, MsgIsLive
  <2>3. HandlerHolds' /\ MsgIsLive' /\ WritesThroughMsg'
    BY <2>1, <2>2 DEF Call, HandlerHolds, MsgIsLive, WritesThroughMsg
  <2>4. SameReply'
    BY <2>1, <2>2 DEF Call, SameReply, WritesThroughMsg
  <2>5. ReturnsReadLen' /\ SessionsWait'
    BY <2>1, <2>2 DEF Call, ReturnsReadLen, SessionsWait
  <2> QED BY <2>3, <2>4, <2>5
<1>2. CASE TakeLock(c) \/ Exec(c) \/ AwaitStatus(c) \/ StatusDone(c)
           \/ AwaitResp(c)
  BY <1>2 DEF TakeLock, Exec, AwaitStatus, StatusDone, AwaitResp, HandlerHolds,
              MsgIsLive, WritesThroughMsg, SameReply, ReturnsReadLen, SessionsWait
<1>3. CASE RespDone(c)
  BY <1>3 DEF RespDone, HandlerHolds, MsgIsLive, WritesThroughMsg, SameReply,
              ReturnsReadLen, SessionsWait
<1>4. CASE ReadSetMsg(c) \/ ReadClearMsg(c)
  <2>1. ppc \notin {"copy", "set_len"} /\ c # None
    BY <1>4 DEF ReadSetMsg, ReadClearMsg, HandlerHolds
  <2> QED BY <1>4, <2>1 DEF ReadSetMsg, ReadClearMsg, HandlerHolds, MsgIsLive,
              WritesThroughMsg, SameReply, ReturnsReadLen, SessionsWait
<1>5. CASE ReadSend(c) \/ ReadAwait(c) \/ WaitTimesOut(c)
  BY <1>5 DEF ReadSend, ReadAwait, WaitTimesOut, HandlerHolds, MsgIsLive,
              WritesThroughMsg, SameReply, ReturnsReadLen, SessionsWait
<1>6. CASE ReadReturn(c)
  BY <1>6 DEF ReadReturn, Return, HandlerHolds, MsgIsLive, WritesThroughMsg,
              SameReply, ReturnsReadLen, SessionsWait
<1> QED BY <1>1, <1>2, <1>3, <1>4, <1>5, <1>6 DEF CallStep

\* Steps of the parser, of the modem and of the initialisation.
LEMMA OthersKeepLean ==
  ASSUME Shapes, Lean,
         ParserStep \/ ModemServe \/ HttpInit \/ Terminated \/ UNCHANGED vars
  PROVE  Lean'
<1> USE DEF Lean, Shapes, callerVars, parserVars, history
<1>1. CASE HandleStatus \/ HandleResp \/ HandleData \/ HandlerTake
  <2>1. /\ ppc' \notin {"copy", "set_len"} /\ ppc # "set_len"
        /\ (objMutex' = Parser) <=> ppc' = "check"
    BY <1>1, HttpConstantsOK DEF HandleStatus, HandleResp, HandleData,
       HandlerTake, HandlerHolds
  <2>2. UNCHANGED <<msg, pc, op, len, ret, readLen, buf>>
    BY <1>1 DEF HandleStatus, HandleResp, HandleData, HandlerTake
  <2>3. ppc' \notin {"give"}
    BY <1>1 DEF HandleStatus, HandleResp, HandleData, HandlerTake
  <2> QED BY <2>1, <2>2, <2>3 DEF HandlerHolds, MsgIsLive, WritesThroughMsg,
             SameReply, ReturnsReadLen, SessionsWait
<1>2. CASE HandlerCheck
  BY <1>2 DEF HandlerCheck, HandlerHolds, MsgIsLive, WritesThroughMsg,
              SameReply, ReturnsReadLen, SessionsWait
<1>3. CASE HandlerCopy
  BY <1>3 DEF HandlerCopy, HandlerHolds, MsgIsLive, WritesThroughMsg,
              SameReply, ReturnsReadLen, SessionsWait
<1>4. CASE HandlerSetLen
  <2>1. /\ ppc = "set_len" /\ ppc' = "give"
        /\ UNCHANGED <<objMutex, msg, pmsg, pline, pc, op, len, ret, buf>>
        /\ readLen' = [readLen EXCEPT ![pmsg] = pline.len]
    BY <1>4 DEF HandlerSetLen
  <2>2. pmsg \in Callers /\ pc[pmsg] # "idle"
    BY <2>1 DEF WritesThroughMsg, MsgIsLive
  <2>3. HandlerHolds' /\ MsgIsLive' /\ WritesThroughMsg' /\ SessionsWait'
    BY <2>1 DEF HandlerHolds, MsgIsLive, WritesThroughMsg, SessionsWait
  <2>4. SameReply'
    BY <2>1, <2>2 DEF SameReply
  <2>5. ReturnsReadLen'
    BY <2>1, <2>2 DEF ReturnsReadLen
  <2> QED BY <2>3, <2>4, <2>5
<1>5. CASE HandlerGive
  BY <1>5 DEF HandlerGive, HandlerHolds, MsgIsLive, WritesThroughMsg,
              SameReply, ReturnsReadLen, SessionsWait
<1>6. CASE ModemServe \/ HttpInit \/ Terminated \/ UNCHANGED vars
  BY <1>6 DEF ModemServe, HttpInit, Terminated, vars, HandlerHolds, MsgIsLive,
              WritesThroughMsg, SameReply, ReturnsReadLen, SessionsWait
<1> QED BY <1>1, <1>2, <1>3, <1>4, <1>5, <1>6 DEF ParserStep

\* and every step keeps it.
LEMMA InvStep == IInv /\ [Next]_vars => IInv'
<1> SUFFICES ASSUME IInv, [Next]_vars PROVE IInv'
  OBVIOUS
<1>1. TypeOK'
  BY TypeStep DEF IInv
<1>2. Shapes /\ Lean
  BY DEF IInv, TypeOK, Shapes, Lean
<1>3. \A c \in Callers : \A n \in Lengths[c] : n \in Nat
  OBVIOUS
<1>4. \/ \E c \in Callers : \/ CallStep(c)
                            \/ \E o \in OpKinds, n \in Nat : Call(c, o, n)
      \/ ParserStep \/ ModemServe \/ HttpInit \/ Terminated \/ UNCHANGED vars
  BY <1>3 DEF Next, OpKinds
<1>5. Lean'
  BY <1>2, <1>4, CallerKeepsLean, OthersKeepLean
<1> QED BY <1>1, <1>5 DEF IInv, Lean

\* What the invariant says of the properties.
LEMMA InvImplies == IInv => WritesIntoLiveBuffer /\ LengthMatchesBuffer
<1> SUFFICES ASSUME IInv PROVE WritesIntoLiveBuffer /\ LengthMatchesBuffer
  OBVIOUS
<1>1. WritesIntoLiveBuffer
  BY DEF IInv, WritesIntoLiveBuffer, WritesThroughMsg, MsgIsLive
<1>2. LengthMatchesBuffer
  BY <1>1 DEF IInv, LengthMatchesBuffer, WritesIntoLiveBuffer, SameReply,
              ReturnsReadLen
<1> QED BY <1>1, <1>2

\* The invariant.
LEMMA Invariant == Spec => []IInv
BY InvInit, InvStep, PTL DEF Spec

-----------------------------------------------------------------------------
(* The theorems *)

\* Every variable of the HTTP service keeps its type.
THEOREM TypeCorrect == Spec => []TypeOK
<1>1. IInv => TypeOK
  BY DEF IInv
<1> QED BY <1>1, Invariant, PTL

\* The handler of mc665_http.c:83-90 writes only to the stack of a caller that
\* is still in mc665_http_read_data, and no more than its buffer holds, however
\* timeouts and replies fall.
THEOREM BufferIsLive == Spec => []WritesIntoLiveBuffer
<1>1. IInv => WritesIntoLiveBuffer
  BY InvImplies
<1> QED BY <1>1, Invariant, PTL

\* The length that mc665_http_read_data returns is that of the reply whose
\* bytes are in the buffer, when two replies came and after a timeout as well.
THEOREM LengthIsTrue == Spec => []LengthMatchesBuffer
<1>1. IInv => LengthMatchesBuffer
  BY InvImplies
<1> QED BY <1>1, Invariant, PTL

-----------------------------------------------------------------------------
(* Where a request is, with timeouts longer than any answer takes *)

\* The lines of s that matter are those of a kind in K: none is there, or just
\* x, or just x and behind it y.
NoneOf(s, K) == \A i \in DOMAIN s : s[i].kind \notin K
JustOne(s, K, x) ==
  \E i \in DOMAIN s :
    s[i] = x /\ x.kind \in K /\ \A j \in DOMAIN s : s[j].kind \in K => j = i
JustTwo(s, K, x, y) ==
  \E i, j \in DOMAIN s :
    /\ i < j /\ s[i] = x /\ x.kind \in K /\ s[j] = y /\ y.kind \in K
    /\ \A k \in DOMAIN s : s[k].kind \in K => k \in {i, j}

OfRead == {"read"}
OfSess == {"success", "fail", "res"}

\* The requests in tx: none of this type, or just number n.
NoItem(type) == \A i \in DOMAIN tx : tx[i].type # type
JustItem(item, n) ==
  \E i \in DOMAIN tx :
    /\ tx[i] = item /\ n = Len(given) + i
    /\ \A j \in DOMAIN tx : tx[j].type = item.type => j = i

\* The read request of c is in tx; is answered by nothing of use; its reply is
\* in rx; is in the parser; has been copied and the caller woken.
Awaits(c) == pc[c] = "await" \/ (pc[c] = "data_wait" /\ want[c] = {"data"})
ReadAsked(c) ==
  /\ JustItem([type |-> "read", len |-> len[c]], asked[c]) /\ NoneOf(rx, OfRead)
  /\ "data" \notin bits /\ ppc = "read" /\ Awaits(c) /\ readLen[c] = 0
ReadLost(c) ==
  /\ NoItem("read") /\ NoneOf(rx, OfRead) /\ "data" \notin bits /\ ppc = "read"
  /\ asked[c] \in DOMAIN given /\ ~Usable(asked[c]) /\ readLen[c] = 0
  /\ Awaits(c) \/ (pc[c] = "data_wait" /\ want[c] = {})
Answer(c) == given[asked[c]][1]
ReadReplied(c) ==
  /\ NoItem("read") /\ asked[c] \in DOMAIN given /\ given[asked[c]] # <<>>
  /\ Answer(c).len <= len[c] /\ Answer(c).num = asked[c]
ReadComing(c) ==
  /\ ReadReplied(c) /\ JustOne(rx, OfRead, Answer(c))
  /\ "data" \notin bits /\ ppc = "read" /\ Awaits(c) /\ readLen[c] = 0
ReadHandled(c) ==
  /\ ReadReplied(c) /\ Usable(asked[c]) /\ NoneOf(rx, OfRead)
  /\ "data" \notin bits /\ Awaits(c) /\ readLen[c] = 0
  /\ ppc \in {"take", "check", "copy", "set_len"} /\ pline = Answer(c)
  /\ ppc \in {"copy", "set_len"} => pmsg = c
  /\ ppc = "set_len" => buf[c].num = asked[c]
ReadCopied(c) ==
  /\ Usable(asked[c]) /\ buf[c].num = asked[c] /\ readLen[c] = Answer(c).len
ReadDone(c) ==
  /\ NoItem("read") /\ NoneOf(rx, OfRead) /\ ReadCopied(c)
  /\ ppc \in {"give", "read"}
  /\ \/ pc[c] = "await" /\ "data" \in bits
     \/ pc[c] = "data_wait" /\ want[c] = {} /\ "data" \notin bits

InRead == {"set", "send", "await", "data_wait", "return"}
Holding == InRead \cup {"exec"}
Reading(c) == pc[c] \in {"await", "data_wait"}
ReadOf(c) ==
  /\ pc[c] \in Holding => drvLock = c
  /\ pc[c] \in InRead => op[c] = "read"
  /\ pc[c] \in {"send", "await", "data_wait"} => msg = c
  /\ pc[c] \in {"lock", "set", "send"} => readLen[c] = 0
  /\ Reading(c) => \/ ReadAsked(c) \/ ReadLost(c) \/ ReadComing(c)
                   \/ ReadHandled(c) \/ ReadDone(c)
  /\ pc[c] = "return" \/ (pc[c] = "idle" /\ op[c] = "read") =>
       /\ asked[c] \in DOMAIN given
       /\ ReadCopied(c) \/ (~Usable(asked[c]) /\ readLen[c] = 0)
ReadNone ==
  NoItem("read") /\ NoneOf(rx, OfRead) /\ "data" \notin bits /\ ppc = "read"
ReadInv ==
  /\ \A c \in Callers : ReadOf(c)
  /\ (\A c \in Callers : ~Reading(c)) => ReadNone

\* The session of c likewise, whose answer has a status and, on success, a
\* header.
StatusBits == {"success", "fail", "resp"}
AwaitsStatus(c) ==
  pc[c] = "status" \/ (pc[c] = "status_wait" /\ want[c] = {"success", "fail"})
HasStatus(c) ==
  \/ pc[c] = "status_wait" /\ want[c] = {} /\ "success" \in got[c]
  \/ pc[c] = "resp"
Clean == NoneOf(rx, OfSess) /\ bits \cap StatusBits = {}

SessAsked(c) ==
  /\ JustItem([type |-> "act", len |-> 0], asked[c]) /\ Clean /\ AwaitsStatus(c)
SessSilent(c) ==
  /\ Clean
  /\ \/ AwaitsStatus(c)
     \/ pc[c] = "status_wait" /\ want[c] = {} /\ "success" \notin got[c]
SessFailing(c) ==
  /\ JustOne(rx, OfSess, Line("fail", asked[c])) /\ bits \cap StatusBits = {}
  /\ AwaitsStatus(c)
SessFailed(c) ==
  /\ NoneOf(rx, OfSess) /\ bits \cap StatusBits = {"fail"} /\ pc[c] = "status"
SessComing(c) ==
  /\ JustTwo(rx, OfSess, Line("success", asked[c]), Line("res", asked[c]))
  /\ bits \cap StatusBits = {} /\ AwaitsStatus(c)
SessStatus(c) ==
  /\ JustOne(rx, OfSess, Line("res", asked[c]))
  /\ \/ bits \cap StatusBits = {"success"} /\ pc[c] = "status"
     \/ /\ bits \cap StatusBits = {}
        /\ HasStatus(c) \/ (pc[c] = "resp_wait" /\ want[c] = {"resp"})
SessHeader(c) ==
  /\ NoneOf(rx, OfSess) /\ objResp = asked[c]
  /\ \/ bits \cap StatusBits = {"success", "resp"} /\ pc[c] = "status"
     \/ bits \cap StatusBits = {"resp"} /\ HasStatus(c)
     \/ bits \cap StatusBits = {} /\ pc[c] = "resp_wait" /\ want[c] = {}

InSess == {"status", "status_wait", "resp", "resp_wait"}
InSession(c) == pc[c] \in InSess
SessStage(c) ==
  \/ SessAsked(c)
  \/ /\ NoItem("act")
     /\ \/ SessSilent(c) \/ SessFailing(c) \/ SessFailed(c)
        \/ SessComing(c) \/ SessStatus(c) \/ SessHeader(c)
SessOf(c) ==
  /\ op[c] \in Ops[c] \cup {"none"}
  /\ InSession(c) => op[c] = "session" /\ SessStage(c)
  /\ pc[c] = "idle" /\ op[c] = "session" /\ ret[c] = 1 => sess[c] = asked[c]
  /\ pc[c] # "idle" /\ op[c] = "session" => ret[c] = 0
SessInv ==
  /\ \A c \in Callers : SessOf(c)
  /\ (\A c \in Callers : ~InSession(c)) => NoItem("act") /\ Clean

\* A caller waits for what its step is about, and for nothing that is set.
WaitedFor(l) ==
  {b \in BitNames : \/ l = "status_wait" /\ b \in {"success", "fail"}
                    \/ l = "resp_wait" /\ b = "resp"
                    \/ l = "data_wait" /\ b = "data"}
WaitsInv ==
  \A c \in Callers : /\ want[c] \subseteq WaitedFor(pc[c]) /\ want[c] \cap bits = {}
                     /\ want[c] # {} => got[c] = {}

-----------------------------------------------------------------------------
(* Lines and requests that come and go *)

LEMMA TailFacts ==
  ASSUME NEW S, NEW s \in Seq(S), s # <<>>
  PROVE  /\ Head(s) = s[1] /\ 1 \in DOMAIN s /\ Tail(s) \in Seq(S)
         /\ Len(s) \in Nat \ {0} /\ DOMAIN Tail(s) = 1 .. Len(s) - 1
         /\ \A i \in DOMAIN Tail(s) : Tail(s)[i] = s[i + 1] /\ i + 1 \in DOMAIN s
         /\ \A i \in DOMAIN s : i # 1 => i - 1 \in DOMAIN Tail(s)
                                        /\ Tail(s)[i - 1] = s[i]
         /\ \A i \in DOMAIN s : i \in Nat \ {0}
OBVIOUS

LEMMA CatFacts ==
  ASSUME NEW S, NEW s \in Seq(S), NEW a \in Seq(S)
  PROVE  /\ s \o a \in Seq(S) /\ Len(s) \in Nat /\ Len(a) \in Nat
         /\ DOMAIN (s \o a) = 1 .. Len(s) + Len(a)
         /\ \A i \in DOMAIN s : i \in DOMAIN (s \o a) /\ (s \o a)[i] = s[i]
                                /\ i \in Nat /\ i <= Len(s)
         /\ \A i \in DOMAIN a : /\ Len(s) + i \in DOMAIN (s \o a)
                                /\ (s \o a)[Len(s) + i] = a[i] /\ i \in Nat \ {0}
         /\ \A i \in DOMAIN (s \o a) :
              i \in DOMAIN s \/ (i - Len(s) \in DOMAIN a
                                 /\ (s \o a)[i] = a[i - Len(s)])
OBVIOUS

\* A line that does not matter goes.
LEMMA TailOther ==
  ASSUME NEW s \in Seq(Lines), s # <<>>, NEW K, Head(s).kind \notin K
  PROVE  /\ NoneOf(s, K) => NoneOf(Tail(s), K)
         /\ \A x : JustOne(s, K, x) => JustOne(Tail(s), K, x)
         /\ \A x, y : JustTwo(s, K, x, y) => JustTwo(Tail(s), K, x, y)
<1>1. NoneOf(s, K) => NoneOf(Tail(s), K)
  BY TailFacts DEF NoneOf
<1>2. ASSUME NEW x, JustOne(s, K, x) PROVE JustOne(Tail(s), K, x)
  <2>1. PICK i \in DOMAIN s : /\ s[i] = x /\ x.kind \in K
                              /\ \A j \in DOMAIN s : s[j].kind \in K => j = i
    BY <1>2 DEF JustOne
  <2>2. i # 1
    BY <2>1, TailFacts
  <2>3. i - 1 \in DOMAIN Tail(s) /\ Tail(s)[i - 1] = x
    BY <2>1, <2>2, TailFacts
  <2>4. \A j \in DOMAIN Tail(s) : Tail(s)[j].kind \in K => j = i - 1
    BY <2>1, TailFacts
  <2> QED BY <2>1, <2>3, <2>4 DEF JustOne
<1>3. ASSUME NEW x, NEW y, JustTwo(s, K, x, y) PROVE JustTwo(Tail(s), K, x, y)
  <2>1. PICK i \in DOMAIN s, j \in DOMAIN s :
          /\ i < j /\ s[i] = x /\ x.kind \in K /\ s[j] = y /\ y.kind \in K
          /\ \A k \in DOMAIN s : s[k].kind \in K => k \in {i, j}
    BY <1>3 DEF JustTwo
  <2>2. i # 1 /\ j # 1
    BY <2>1, TailFacts
  <2>3. /\ i - 1 \in DOMAIN Tail(s) /\ Tail(s)[i - 1] = x
        /\ j - 1 \in DOMAIN Tail(s) /\ Tail(s)[j - 1] = y /\ i - 1 < j - 1
    BY <2>1, <2>2, TailFacts
  <2>4. ASSUME NEW k \in DOMAIN Tail(s), Tail(s)[k].kind \in K
        PROVE  k \in {i - 1, j - 1}
    <3>1. k + 1 \in {i, j} /\ k \in Nat
      BY <2>1, <2>4, TailFacts
    <3> QED BY <3>1, TailFacts
  <2> QED BY <2>1, <2>3, <2>4 DEF JustTwo
<1> QED BY <1>1, <1>2, <1>3

\* One that matters goes.
LEMMA TailOne ==
  ASSUME NEW s \in Seq(Lines), s # <<>>, NEW K, Head(s).kind \in K
  PROVE  /\ ~NoneOf(s, K)
         /\ \A x : JustOne(s, K, x) => Head(s) = x /\ NoneOf(Tail(s), K)
         /\ \A x, y : JustTwo(s, K, x, y) => Head(s) = x /\ JustOne(Tail(s), K, y)
<1>1. ~NoneOf(s, K)
  BY TailFacts DEF NoneOf
<1>2. ASSUME NEW x, JustOne(s, K, x) PROVE Head(s) = x /\ NoneOf(Tail(s), K)
  <2>1. PICK i \in DOMAIN s : /\ s[i] = x /\ x.kind \in K
                              /\ \A j \in DOMAIN s : s[j].kind \in K => j = i
    BY <1>2 DEF JustOne
  <2>2. i = 1
    BY <2>1, TailFacts
  <2> QED BY <2>1, <2>2, TailFacts DEF NoneOf
<1>3. ASSUME NEW x, NEW y, JustTwo(s, K, x, y)
      PROVE  Head(s) = x /\ JustOne(Tail(s), K, y)
  <2>1. PICK i \in DOMAIN s, j \in DOMAIN s :
          /\ i < j /\ s[i] = x /\ x.kind \in K /\ s[j] = y /\ y.kind \in K
          /\ \A k \in DOMAIN s : s[k].kind \in K => k \in {i, j}
    BY <1>3 DEF JustTwo
  <2>2. i = 1 /\ j # 1
    BY <2>1, TailFacts
  <2>3. j - 1 \in DOMAIN Tail(s) /\ Tail(s)[j - 1] = y
    BY <2>1, <2>2, TailFacts
  <2>4. ASSUME NEW k \in DOMAIN Tail(s), Tail(s)[k].kind \in K PROVE k = j - 1
    <3>1. k + 1 \in {i, j} /\ k \in Nat \ {0}
      BY <2>1, <2>4, TailFacts
    <3> QED BY <2>2, <3>1, TailFacts
  <2> QED BY <2>1, <2>2, <2>3, <2>4, TailFacts DEF JustOne
<1> QED BY <1>1, <1>2, <1>3

\* Lines that do not matter come.
LEMMA CatOther ==
  ASSUME NEW s \in Seq(Lines), NEW a \in Seq(Lines), NEW K, NoneOf(a, K)
  PROVE  /\ NoneOf(s, K) => NoneOf(s \o a, K)
         /\ \A x : JustOne(s, K, x) => JustOne(s \o a, K, x)
         /\ \A x, y : JustTwo(s, K, x, y) => JustTwo(s \o a, K, x, y)
<1> DEFINE b == s \o a
<1>0. /\ \A i \in DOMAIN s : i \in DOMAIN b /\ b[i] = s[i]
      /\ \A i \in DOMAIN b : b[i].kind \in K => i \in DOMAIN s
  BY CatFacts DEF NoneOf
<1> HIDE DEF b
<1>1. NoneOf(s, K) => NoneOf(b, K)
  BY <1>0 DEF NoneOf
<1>2. \A x : JustOne(s, K, x) => JustOne(b, K, x)
  BY <1>0 DEF JustOne
<1>3. \A x, y : JustTwo(s, K, x, y) => JustTwo(b, K, x, y)
  BY <1>0 DEF JustTwo
<1> QED BY <1>1, <1>2, <1>3 DEF b

\* One or two that matter come.
LEMMA CatOne ==
  ASSUME NEW s \in Seq(Lines), NEW K, NoneOf(s, K),
         NEW x \in Lines, x.kind \in K
  PROVE  /\ JustOne(s \o <<x>>, K, x)
         /\ \A y \in Lines : y.kind \in K => JustTwo(s \o <<x, y>>, K, x, y)
<1>1. JustOne(s \o <<x>>, K, x)
  <2> DEFINE b == s \o <<x>>
  <2>1. /\ Len(s) \in Nat /\ DOMAIN b = 1 .. Len(s) + 1 /\ b[Len(s) + 1] = x
        /\ \A i \in DOMAIN b : i = Len(s) + 1 \/ b[i].kind \notin K
    BY DEF NoneOf
  <2> HIDE DEF b
  <2>2. Len(s) + 1 \in DOMAIN b
    BY <2>1
  <2> QED BY <2>1, <2>2 DEF JustOne, b
<1>2. ASSUME NEW y \in Lines, y.kind \in K
      PROVE  JustTwo(s \o <<x, y>>, K, x, y)
  <2> DEFINE b == s \o <<x, y>>
  <2>1. /\ Len(s) \in Nat /\ DOMAIN b = 1 .. Len(s) + 2 /\ b[Len(s) + 1] = x
        /\ b[Len(s) + 2] = y
        /\ \A i \in DOMAIN b : i \in {Len(s) + 1, Len(s) + 2} \/ b[i].kind \notin K
    BY DEF NoneOf
  <2> HIDE DEF b
  <2>2. Len(s) + 1 \in DOMAIN b /\ Len(s) + 2 \in DOMAIN b /\ Len(s) + 1 < Len(s) + 2
    BY <2>1
  <2>3. \A k \in DOMAIN b : b[k].kind \in K => k \in {Len(s) + 1, Len(s) + 2}
    BY <2>1
  <2>4. JustTwo(b, K, x, y)
    BY <1>2, <2>1, <2>2, <2>3 DEF JustTwo
  <2> QED BY <2>4 DEF b
<1> QED BY <1>1, <1>2

\* A request is written,
Requests == [type : {"act", "read"}, len : Nat]
LEMMA PutFacts ==
  ASSUME tx \in Seq(Requests), given' = given, NEW c \in Callers,
         asked \in [Callers -> Nat], given \in Seq(Seq(Lines)),
         NEW type \in {"act", "read"}, NEW n \in Nat, Put(c, type, n)
  PROVE  /\ NoItem(type) => JustItem([type |-> type, len |-> n], asked[c])'
         /\ \A t : t # type => /\ NoItem(t) => NoItem(t)'
                              /\ \A l, m : JustItem([type |-> t, len |-> l], m)
                                         => JustItem([type |-> t, len |-> l], m)'
<1> DEFINE x == [type |-> type, len |-> n]
<1>1. /\ tx' = Append(tx, x) /\ asked'[c] = Len(given) + Len(tx) + 1
      /\ x.type = type
  BY DEF Put
<1>2. x \in Requests
  BY DEF Requests
<1>3. /\ Len(tx) \in Nat /\ Len(given) \in Nat /\ DOMAIN tx' = 1 .. Len(tx) + 1
      /\ tx'[Len(tx) + 1] = x
      /\ DOMAIN tx = 1 .. Len(tx) /\ \A i \in 1 .. Len(tx) : tx'[i] = tx[i]
  BY <1>1, <1>2
<1>4. NoItem(type) => JustItem(x, asked[c])'
  <2> SUFFICES ASSUME NoItem(type) PROVE JustItem(x, asked[c])'
    OBVIOUS
  <2>1. Len(tx) + 1 \in DOMAIN tx'
    BY <1>3
  <2>2. asked'[c] = Len(given') + (Len(tx) + 1)
    BY <1>1, <1>3
  <2> HIDE DEF x
  <2>3. ASSUME NEW j \in DOMAIN tx', j # Len(tx) + 1 PROVE tx'[j].type # type
    <3>1. j \in 1 .. Len(tx)
      BY <1>3, <2>3
    <3> QED BY <1>3, <3>1 DEF NoItem
  <2> QED BY <1>1, <1>3, <2>1, <2>2, <2>3 DEF JustItem
<1>5. ASSUME NEW t, t # type
      PROVE  /\ NoItem(t) => NoItem(t)'
             /\ \A l, m : JustItem([type |-> t, len |-> l], m)
                        => JustItem([type |-> t, len |-> l], m)'
  <2> HIDE DEF x
  <2>1. \A j \in DOMAIN tx' : tx'[j].type = t => j \in DOMAIN tx /\ tx'[j] = tx[j]
    BY <1>1, <1>3, <1>5
  <2>2. \A j \in DOMAIN tx : j \in DOMAIN tx' /\ tx'[j] = tx[j]
    BY <1>3
  <2>3. NoItem(t) => NoItem(t)'
    BY <2>1 DEF NoItem
  <2>4. ASSUME NEW l, NEW m, JustItem([type |-> t, len |-> l], m)
        PROVE  JustItem([type |-> t, len |-> l], m)'
    <3> DEFINE y == [type |-> t, len |-> l]
    <3>1. y.type = t
      OBVIOUS
    <3> HIDE DEF y
    <3>2. JustItem(y, m)
      BY <2>4 DEF y
    <3>3. PICK i \in DOMAIN tx : /\ tx[i] = y /\ m = Len(given) + i
                                 /\ \A j \in DOMAIN tx : tx[j].type = y.type => j = i
      BY <3>2 DEF JustItem
    <3>4. i \in DOMAIN tx' /\ tx'[i] = y /\ m = Len(given') + i
      BY <2>2, <3>3
    <3>5. \A j \in DOMAIN tx' : tx'[j].type = y.type => j = i
      BY <2>1, <3>1, <3>3
    <3>6. JustItem(y, m)'
      BY <3>4, <3>5 DEF JustItem
    <3> QED BY <3>6 DEF y
  <2> QED BY <2>3, <2>4
<1> QED BY <1>4, <1>5

\* and served.
LEMMA ServeFacts ==
  ASSUME tx \in Seq(Requests), given \in Seq(Seq(Lines)), ModemServe
  PROVE  /\ Head(tx) \in Requests /\ given' \in Seq(Seq(Lines))
         /\ Len(given) \in Nat /\ Len(given') = Len(given) + 1
         /\ \A n \in DOMAIN given : n \in DOMAIN given' /\ given'[n] = given[n]
         /\ Len(given) + 1 \in DOMAIN given'
         /\ given'[Len(given) + 1] \in Replies(Head(tx), Len(given) + 1)
         /\ rx' = rx \o given'[Len(given) + 1]
         /\ ~NoItem(Head(tx).type)
         /\ \A x, n : x.type = Head(tx).type /\ JustItem(x, n) =>
              Head(tx) = x /\ n = Len(given) + 1 /\ NoItem(x.type)'
         /\ \A t : t # Head(tx).type => (NoItem(t) => NoItem(t)')
         /\ \A x, n : x.type # Head(tx).type /\ JustItem(x, n) => JustItem(x, n)'
<1>1. tx # <<>> /\ tx' = Tail(tx)
  BY DEF ModemServe
<1>2. PICK a \in Replies(Head(tx), Len(given) + 1) :
        rx' = rx \o a /\ given' = Append(given, a)
  BY Zenon DEF ModemServe
<1>3. Head(tx) \in Requests /\ Len(given) \in Nat
  BY <1>1
<1>4. a \in Seq(Lines)
  <2>1. Head(tx) \in [type : {"act", "read"}, len : Nat] /\ Len(given) + 1 \in Nat
    BY <1>3 DEF Requests
  <2> QED BY <1>2, <2>1, RepliesType, Zenon
<1>5. /\ given' \in Seq(Seq(Lines)) /\ Len(given') = Len(given) + 1
      /\ \A n \in DOMAIN given : n \in DOMAIN given' /\ given'[n] = given[n]
      /\ Len(given) + 1 \in DOMAIN given' /\ given'[Len(given) + 1] = a
  BY <1>2, <1>4
<1>6. ~NoItem(Head(tx).type)
  BY <1>1, TailFacts DEF NoItem
<1>7. /\ Head(tx) = tx[1] /\ 1 \in DOMAIN tx
      /\ \A i \in DOMAIN tx' : tx'[i] = tx[i + 1] /\ i + 1 \in DOMAIN tx /\ i \in Nat
                               /\ i # 0
      /\ \A i \in DOMAIN tx : i # 1 => i - 1 \in DOMAIN tx' /\ tx'[i - 1] = tx[i]
      /\ \A i \in DOMAIN tx : i \in Nat \ {0}
  <2>1. \A i \in DOMAIN tx' : i \in Nat \ {0}
    BY <1>1
  <2> QED BY <1>1, <2>1, TailFacts
<1>8. ASSUME NEW x, NEW n, x.type = Head(tx).type, JustItem(x, n)
      PROVE  Head(tx) = x /\ n = Len(given) + 1 /\ NoItem(x.type)'
  <2>1. PICK i \in DOMAIN tx : /\ tx[i] = x /\ n = Len(given) + i
                               /\ \A j \in DOMAIN tx : tx[j].type = x.type => j = i
    BY <1>8 DEF JustItem
  <2>2. i = 1
    BY <1>7, <1>8, <2>1
  <2>3. ASSUME NEW j \in DOMAIN tx', tx'[j].type = x.type PROVE FALSE
    <3>1. j + 1 = 1 /\ j \in Nat /\ j # 0
      BY <1>7, <2>1, <2>2, <2>3
    <3> QED BY <3>1
  <2> QED BY <1>7, <2>1, <2>2, <2>3 DEF NoItem
<1>9. ASSUME NEW t, t # Head(tx).type, NoItem(t) PROVE NoItem(t)'
  BY <1>7, <1>9 DEF NoItem
<1>10. ASSUME NEW x, NEW n, x.type # Head(tx).type, JustItem(x, n)
       PROVE  JustItem(x, n)'
  <2>1. PICK i \in DOMAIN tx : /\ tx[i] = x /\ n = Len(given) + i
                               /\ \A j \in DOMAIN tx : tx[j].type = x.type => j = i
    BY <1>10 DEF JustItem
  <2>2. i # 1 /\ i \in Nat
    BY <1>7, <1>10, <2>1
  <2>3. i - 1 \in DOMAIN tx' /\ tx'[i - 1] = x /\ n = Len(given') + (i - 1)
    BY <1>3, <1>5, <1>7, <2>1, <2>2
  <2>4. \A j \in DOMAIN tx' : tx'[j].type = x.type => j = i - 1
    BY <1>7, <2>1
  <2> QED BY <2>3, <2>4 DEF JustItem
<1> QED BY <1>2, <1>3, <1>5, <1>6, <1>8, <1>9, <1>10

-----------------------------------------------------------------------------
(* The event group *)

\* A wait ends with what is set, or goes on until something it waits for is.
LEMMA WaitsNext ==
  ASSUME TypeOK, WaitsInv, [Next]_vars PROVE WaitsInv'
<1> USE DEF callerVars, parserVars, history, groupVars
<1>0. /\ pc \in [Callers -> PcLabels] /\ want \in [Callers -> SUBSET BitNames]
      /\ got \in [Callers -> SUBSET BitNames] /\ bits \subseteq BitNames
  BY DEF TypeOK
<1>1. ASSUME NEW c \in Callers, NEW l \in PcLabels, WaitBits(c, WaitedFor(l)),
             want[c] = {}, Goto(c, l)
      PROVE  WaitsInv'
  <2>1. WaitedFor(l) \in SUBSET BitNames
    BY DEF WaitedFor
  <2>2. ASSUME NEW d \in Callers
        PROVE  /\ want'[d] \subseteq WaitedFor(pc'[d]) /\ want'[d] \cap bits' = {}
               /\ want'[d] # {} => got'[d] = {}
    BY <1>0, <1>1, <2>1 DEF WaitsInv, WaitBits, Goto
  <2> QED BY <2>2 DEF WaitsInv
<1>2. ASSUME NEW new, SetBits(new), pc' = pc PROVE WaitsInv'
  <2>1. ASSUME NEW d \in Callers
        PROVE  /\ want'[d] \in {{}, want[d]} /\ want'[d] \cap bits' = {}
               /\ want'[d] # {} => got'[d] = {}
    <3>1. DOMAIN want = Callers /\ DOMAIN got = Callers /\ bits' \subseteq bits \cup new
      BY <1>0, <1>2 DEF SetBits, LeftOf
    <3>2. CASE d \in WokenBy(bits \cup new)
      BY <1>2, <3>1, <3>2 DEF SetBits
    <3>3. CASE d \notin WokenBy(bits \cup new)
      <4>1. want'[d] = want[d] /\ got'[d] = got[d]
        BY <1>2, <3>1, <3>3 DEF SetBits
      <4>2. want[d] = {} \/ want[d] \cap (bits \cup new) = {}
        BY <3>1, <3>3 DEF WokenBy, Waiting
      <4> QED BY <3>1, <4>1, <4>2 DEF WaitsInv
    <3> QED BY <3>2, <3>3
  <2> QED BY <1>2, <2>1 DEF WaitsInv
<1>3. ASSUME UNCHANGED groupVars,
             \A c \in Callers : pc'[c] = pc[c] \/ want[c] = {}
      PROVE  WaitsInv'
  <2>1. ASSUME NEW d \in Callers
        PROVE  /\ want'[d] \subseteq WaitedFor(pc'[d]) /\ want'[d] \cap bits' = {}
               /\ want'[d] # {} => got'[d] = {}
    BY <1>3 DEF WaitsInv
  <2> QED BY <2>1 DEF WaitsInv
<1>4. ASSUME NEW c \in Callers, CallStep(c) PROVE WaitsInv'
  <2>0. pc[c] \notin {"status_wait", "resp_wait", "data_wait"} => want[c] = {}
    BY DEF WaitsInv, WaitedFor
  <2>1. CASE AwaitStatus(c)
    <3>1. WaitedFor("status_wait") = {"success", "fail"}
      BY DEF WaitedFor, BitNames
    <3> QED BY <1>1, <2>0, <2>1, <3>1 DEF AwaitStatus, PcLabels
  <2>2. CASE AwaitResp(c)
    <3>1. WaitedFor("resp_wait") = {"resp"}
      BY DEF WaitedFor, BitNames
    <3> QED BY <1>1, <2>0, <2>2, <3>1 DEF AwaitResp, PcLabels
  <2>3. CASE ReadAwait(c)
    <3>1. WaitedFor("data_wait") = {"data"}
      BY DEF WaitedFor, BitNames
    <3> QED BY <1>1, <2>0, <2>3, <3>1 DEF ReadAwait, PcLabels
  <2>4. CASE WaitTimesOut(c)
    BY <1>0, <2>4 DEF WaitTimesOut, WaitExpires, WaitsInv
  <2>5. CASE \/ TakeLock(c) \/ Exec(c) \/ ReadSetMsg(c) \/ ReadSend(c)
             \/ ReadReturn(c)
    <3>1. want[c] = {}
      BY <2>0, <2>5 DEF TakeLock, Exec, ReadSetMsg, ReadSend, ReadReturn
    <3>2. UNCHANGED groupVars /\ \A d \in Callers \ {c} : pc'[d] = pc[d]
      BY <1>0, <2>5 DEF TakeLock, Exec, ReadSetMsg, ReadSend, ReadReturn, Goto, Return
    <3> QED BY <1>3, <3>1, <3>2
  <2>6. CASE StatusDone(c) \/ RespDone(c) \/ ReadClearMsg(c)
    <3>1. want[c] = {} /\ UNCHANGED groupVars
      BY <2>6 DEF StatusDone, RespDone, ReadClearMsg
    <3>2. \A d \in Callers \ {c} : pc'[d] = pc[d]
      BY <1>0, <2>6 DEF StatusDone, RespDone, ReadClearMsg, Goto
    <3> QED BY <1>3, <3>1, <3>2
  <2> QED BY <1>4, <2>1, <2>2, <2>3, <2>4, <2>5, <2>6 DEF CallStep
<1>5. ASSUME NEW c \in Callers, NEW o \in OpKinds, NEW n \in Nat, Call(c, o, n)
      PROVE  WaitsInv'
  <2>1. want[c] = {} /\ UNCHANGED groupVars /\ \A d \in Callers \ {c} : pc'[d] = pc[d]
    BY <1>0, <1>5 DEF Call, WaitsInv, WaitedFor, Goto
  <2> QED BY <1>3, <2>1
<1>6. CASE ParserStep
  <2>1. CASE HandleStatus \/ HandleResp \/ HandlerSetLen
    BY <1>2, <2>1 DEF HandleStatus, HandleResp, HandlerSetLen
  <2>2. CASE HandleData \/ HandlerTake \/ HandlerCheck \/ HandlerCopy \/ HandlerGive
    <3>1. UNCHANGED groupVars /\ pc' = pc
      BY <2>2 DEF HandleData, HandlerTake, HandlerCheck, HandlerCopy, HandlerGive
    <3> QED BY <1>3, <3>1
  <2> QED BY <1>6, <2>1, <2>2 DEF ParserStep
<1>7. CASE ModemServe \/ HttpInit \/ Terminated \/ UNCHANGED vars
  <2>1. UNCHANGED groupVars /\ pc' = pc
    BY <1>7 DEF ModemServe, HttpInit, Terminated, vars
  <2> QED BY <1>3, <2>1
<1>8. 0 \in Nat /\ \A c \in Callers : \A n \in Lengths[c] : n \in Nat
  OBVIOUS
<1> QED BY <1>4, <1>5, <1>6, <1>7, <1>8 DEF Next, OpKinds

\* What setting a bit does to the bits and to a caller.
LEMMA SetOne ==
  ASSUME TypeOK, WaitsInv, NEW b \in BitNames, SetBits({b})
  PROVE  /\ \A c \in Callers :
              IF b \in want[c] THEN want'[c] = {} /\ got'[c] = bits \cup {b}
                              ELSE want'[c] = want[c] /\ got'[c] = got[c]
         /\ \A x \in BitNames \ {b} :
              x \in bits' <=> /\ x \in bits
                             /\ ~\E c \in Callers : b \in want[c] /\ x \in want[c]
         /\ b \in bits' <=> ~\E c \in Callers : b \in want[c]
<1>1. DOMAIN want = Callers /\ DOMAIN got = Callers /\ bits \subseteq BitNames
  BY DEF TypeOK
<1>2. \A c \in Callers : c \in WokenBy(bits \cup {b}) <=> b \in want[c]
  BY <1>1 DEF WokenBy, Waiting, WaitsInv
<1>3. WokenBy(bits \cup {b}) \subseteq Callers
  BY <1>1 DEF WokenBy, Waiting
<1>4. \A x : x \in bits' <=> /\ x \in bits \cup {b}
                            /\ ~\E c \in Callers : b \in want[c] /\ x \in want[c]
  BY <1>2, <1>3 DEF SetBits, LeftOf
<1>5. \A c \in Callers :
        IF b \in want[c] THEN want'[c] = {} /\ got'[c] = bits \cup {b}
                        ELSE want'[c] = want[c] /\ got'[c] = got[c]
  BY <1>1, <1>2 DEF SetBits
<1> QED BY <1>4, <1>5

-----------------------------------------------------------------------------
(* Steps that do not concern a read, or a session *)

KeepsItems(type) ==
  /\ NoItem(type) => NoItem(type)'
  /\ \A l, m : JustItem([type |-> type, len |-> l], m)
           => JustItem([type |-> type, len |-> l], m)'
KeepsLines(K) ==
  /\ NoneOf(rx, K) => NoneOf(rx', K)
  /\ \A x : JustOne(rx, K, x) => JustOne(rx', K, x)
  /\ \A x, y : JustTwo(rx, K, x, y) => JustTwo(rx', K, x, y)

LEMMA KeptItems ==
  ASSUME NEW type, tx' = tx, given' = given PROVE KeepsItems(type)
BY DEF KeepsItems, NoItem, JustItem
LEMMA KeptLines == ASSUME NEW K, rx' = rx PROVE KeepsLines(K)
BY DEF KeepsLines

\* Nothing of a read is touched; a caller moves only elsewhere.
LEMMA ReadSame ==
  ASSUME ReadInv, UNCHANGED <<msg, ppc, pline, pmsg>>,
         \A n \in DOMAIN given : n \in DOMAIN given' /\ given'[n] = given[n],
         "data" \in bits' <=> "data" \in bits,
         KeepsItems("read"), KeepsLines(OfRead),
         \A c \in Callers :
           \/ /\ pc'[c] = pc[c] /\ op'[c] = op[c] /\ asked'[c] = asked[c]
              /\ want'[c] = want[c] /\ len'[c] = len[c]
              /\ readLen'[c] = readLen[c] /\ buf'[c] = buf[c]
           \/ /\ pc[c] \notin InRead /\ pc'[c] \notin InRead
              /\ pc'[c] = "lock" => readLen'[c] = 0
              /\ pc'[c] = "idle" => op'[c] # "read",
         \A c \in Callers : pc'[c] \in Holding => drvLock' = c
  PROVE  ReadInv'
<1>1. ASSUME NEW c \in Callers, pc'[c] = pc[c], op'[c] = op[c], asked'[c] = asked[c],
             want'[c] = want[c], len'[c] = len[c], readLen'[c] = readLen[c],
             buf'[c] = buf[c]
      PROVE  /\ ReadAsked(c) => ReadAsked(c)'
             /\ ReadLost(c) => ReadLost(c)'
             /\ ReadComing(c) => ReadComing(c)'
             /\ ReadHandled(c) => ReadHandled(c)'
             /\ ReadDone(c) => ReadDone(c)'
             /\ ReadCopied(c) => ReadCopied(c)'
  <2>1. Awaits(c)' <=> Awaits(c)
    BY <1>1 DEF Awaits
  <2>2. asked[c] \in DOMAIN given =>
          /\ Answer(c)' = Answer(c) /\ asked'[c] \in DOMAIN given'
          /\ Usable(asked[c])' <=> Usable(asked[c])
          /\ given'[asked'[c]] = given[asked[c]]
    BY <1>1 DEF Answer, Usable
  <2>3. ReadCopied(c) => ReadCopied(c)'
    BY <1>1, <2>2 DEF ReadCopied, Usable
  <2>4. ReadReplied(c) => ReadReplied(c)'
    BY <1>1, <2>2 DEF ReadReplied, KeepsItems
  <2>5. ReadAsked(c) => ReadAsked(c)'
    <3> SUFFICES ASSUME ReadAsked(c) PROVE ReadAsked(c)'
      OBVIOUS
    <3> DEFINE x == [type |-> "read", len |-> len[c]]
    <3>1. JustItem(x, asked[c])'
      BY <1>1 DEF ReadAsked, KeepsItems
    <3> HIDE DEF x
    <3>2. JustItem(x, asked[c])' /\ NoneOf(rx', OfRead) /\ "data" \notin bits'
          /\ ppc' = "read" /\ Awaits(c)' /\ readLen'[c] = 0
      BY <1>1, <2>1, <3>1 DEF ReadAsked, KeepsLines
    <3> QED BY <1>1, <3>2 DEF ReadAsked, x
  <2>6. ReadLost(c) => ReadLost(c)'
    BY <1>1, <2>1, <2>2 DEF ReadLost, KeepsItems, KeepsLines
  <2>7. ReadComing(c) => ReadComing(c)'
    <3> SUFFICES ASSUME ReadComing(c) PROVE ReadComing(c)'
      OBVIOUS
    <3>1. ReadReplied(c)' /\ Answer(c)' = Answer(c)
      BY <2>2, <2>4 DEF ReadComing, ReadReplied
    <3> QED BY <1>1, <2>1, <3>1 DEF ReadComing, KeepsLines
  <2>8. ReadHandled(c) => ReadHandled(c)'
    <3> SUFFICES ASSUME ReadHandled(c) PROVE ReadHandled(c)'
      OBVIOUS
    <3>1. /\ ReadReplied(c)' /\ Answer(c)' = Answer(c)
          /\ Usable(asked[c])' <=> Usable(asked[c])
      BY <2>2, <2>4 DEF ReadHandled, ReadReplied
    <3> QED BY <1>1, <2>1, <3>1 DEF ReadHandled, KeepsLines
  <2>9. ReadDone(c) => ReadDone(c)'
    BY <1>1, <2>3 DEF ReadDone, KeepsItems, KeepsLines
  <2> QED BY <2>3, <2>5, <2>6, <2>7, <2>8, <2>9
<1>2. ASSUME NEW c \in Callers PROVE ReadOf(c)'
  <2>1. CASE /\ pc'[c] = pc[c] /\ op'[c] = op[c] /\ asked'[c] = asked[c]
             /\ want'[c] = want[c] /\ len'[c] = len[c]
             /\ readLen'[c] = readLen[c] /\ buf'[c] = buf[c]
    <3>0. asked[c] \in DOMAIN given =>
            asked'[c] \in DOMAIN given' /\ (Usable(asked[c])' <=> Usable(asked[c]))
      BY <2>1 DEF Usable
    <3> QED BY <1>1, <2>1, <3>0 DEF ReadInv, ReadOf, Reading
  <2>2. CASE /\ pc[c] \notin InRead /\ pc'[c] \notin InRead
             /\ pc'[c] = "lock" => readLen'[c] = 0
             /\ pc'[c] = "idle" => op'[c] # "read"
    BY <2>2 DEF ReadOf, Reading, InRead
  <2> QED BY <2>1, <2>2
<1>3. (\A c \in Callers : ~Reading(c)') => ReadNone'
  <2>1. ASSUME NEW c \in Callers, Reading(c) PROVE Reading(c)'
    BY <2>1 DEF Reading, InRead
  <2> QED BY <2>1 DEF ReadInv, ReadNone, KeepsItems, KeepsLines
<1> QED BY <1>2, <1>3 DEF ReadInv

\* A step of the one read in progress.
LEMMA ReadOne ==
  ASSUME ReadInv, NEW c \in Callers, ReadOf(c)', Reading(c)' \/ ReadNone',
         \A d \in Callers \ {c} :
           /\ pc[d] \notin Holding /\ pc'[d] = pc[d] /\ op'[d] = op[d]
           /\ asked'[d] = asked[d] /\ readLen'[d] = readLen[d] /\ buf'[d] = buf[d],
         \A n \in DOMAIN given : n \in DOMAIN given' /\ given'[n] = given[n]
  PROVE  ReadInv'
<1>1. ASSUME NEW d \in Callers \ {c} PROVE ReadOf(d)'
  <2>1. ReadOf(d)
    BY DEF ReadInv
  <2>2. pc[d] = "idle" /\ op[d] = "read" =>
          /\ asked'[d] \in DOMAIN given'
          /\ ReadCopied(d)' \/ (~Usable(asked[d])' /\ readLen'[d] = 0)
    BY <2>1 DEF ReadOf, ReadCopied, Usable, Answer
  <2> QED BY <2>1, <2>2 DEF ReadOf, Reading, Holding, InRead
<1> QED BY <1>1 DEF ReadInv

LEMMA Alone ==
  ASSUME ReadInv, NEW c \in Callers, pc[c] \in Holding
  PROVE  \A d \in Callers \ {c} : pc[d] \notin Holding
BY DEF ReadInv, ReadOf

\* Nothing of a session is touched.
LEMMA SessSame ==
  ASSUME SessInv, UNCHANGED <<objResp>>,
         bits' \cap StatusBits = bits \cap StatusBits,
         KeepsItems("act"), KeepsLines(OfSess),
         \A c \in Callers :
           \/ /\ pc'[c] = pc[c] /\ op'[c] = op[c] /\ asked'[c] = asked[c]
              /\ want'[c] = want[c] /\ got'[c] = got[c] /\ ret'[c] = ret[c]
              /\ sess'[c] = sess[c]
           \/ /\ pc[c] \notin InSess /\ pc'[c] \notin InSess
              /\ op'[c] \in Ops[c] \cup {"none"}
              /\ op'[c] = "session" => ret'[c] = 0
  PROVE  SessInv'
<1>1. ASSUME NEW c \in Callers, pc'[c] = pc[c], asked'[c] = asked[c],
             want'[c] = want[c], got'[c] = got[c]
      PROVE  /\ SessAsked(c) => SessAsked(c)'
             /\ SessSilent(c) => SessSilent(c)'
             /\ SessFailing(c) => SessFailing(c)'
             /\ SessFailed(c) => SessFailed(c)'
             /\ SessComing(c) => SessComing(c)'
             /\ SessStatus(c) => SessStatus(c)'
             /\ SessHeader(c) => SessHeader(c)'
  <2>1. (AwaitsStatus(c)' <=> AwaitsStatus(c)) /\ (HasStatus(c)' <=> HasStatus(c))
    BY <1>1 DEF AwaitsStatus, HasStatus
  <2>2. Clean => Clean'
    BY DEF Clean, KeepsLines
  <2>3. SessAsked(c) => SessAsked(c)'
    <3> SUFFICES ASSUME SessAsked(c) PROVE SessAsked(c)'
      OBVIOUS
    <3> DEFINE x == [type |-> "act", len |-> 0]
    <3>1. JustItem(x, asked[c])'
      BY <1>1 DEF SessAsked, KeepsItems
    <3> HIDE DEF x
    <3>2. JustItem(x, asked[c])' /\ Clean' /\ AwaitsStatus(c)'
      BY <2>1, <2>2, <3>1 DEF SessAsked
    <3> QED BY <3>2 DEF SessAsked, x
  <2>4. SessSilent(c) => SessSilent(c)'
    BY <1>1, <2>1, <2>2 DEF SessSilent
  <2>5. SessFailing(c) => SessFailing(c)'
    BY <1>1, <2>1 DEF SessFailing, KeepsLines
  <2>6. SessFailed(c) => SessFailed(c)'
    BY <1>1 DEF SessFailed, KeepsLines
  <2>7. SessComing(c) => SessComing(c)'
    BY <1>1, <2>1 DEF SessComing, KeepsLines
  <2>8. SessStatus(c) => SessStatus(c)'
    BY <1>1, <2>1 DEF SessStatus, KeepsLines
  <2>9. SessHeader(c) => SessHeader(c)'
    BY <1>1, <2>1 DEF SessHeader, KeepsLines
  <2> QED BY <2>3, <2>4, <2>5, <2>6, <2>7, <2>8, <2>9
<1>2. NoItem("act") => NoItem("act")'
  BY DEF KeepsItems
<1>3. ASSUME NEW c \in Callers PROVE SessOf(c)'
  <2>1. CASE /\ pc'[c] = pc[c] /\ op'[c] = op[c] /\ asked'[c] = asked[c]
             /\ want'[c] = want[c] /\ got'[c] = got[c] /\ ret'[c] = ret[c]
             /\ sess'[c] = sess[c]
    <3>1. SessStage(c) => SessStage(c)'
      BY <1>1, <1>2, <2>1 DEF SessStage
    <3> QED BY <2>1, <3>1 DEF SessInv, SessOf, InSession
  <2>2. CASE /\ pc[c] \notin InSess /\ pc'[c] \notin InSess
             /\ op'[c] \in Ops[c] \cup {"none"}
             /\ op'[c] = "session" => ret'[c] = 0
    BY <2>2 DEF SessOf, InSession
  <2> QED BY <2>1, <2>2
<1>4. (\A c \in Callers : ~InSession(c)') => NoItem("act")' /\ Clean'
  <2>1. ASSUME NEW c \in Callers, InSession(c) PROVE InSession(c)'
    BY <2>1 DEF InSession
  <2> QED BY <1>2, <2>1 DEF SessInv, Clean, KeepsLines
<1> QED BY <1>3, <1>4 DEF SessInv

-----------------------------------------------------------------------------
(* A read gets its reply *)

\* What the leaves need of the types.
LEMMA HttpTypes ==
  ASSUME TypeOK
  PROVE  /\ pc \in [Callers -> PcLabels] /\ op \in [Callers -> OpKinds \cup {"none"}]
         /\ readLen \in [Callers -> Nat] /\ want \in [Callers -> SUBSET BitNames]
         /\ len \in [Callers -> Nat] /\ ret \in [Callers -> Nat]
         /\ buf \in [Callers -> [num : Nat, len : Nat]]
         /\ got \in [Callers -> SUBSET BitNames] /\ bits \in SUBSET BitNames
         /\ rx \in Seq(Lines) /\ tx \in Seq(Requests) /\ given \in Seq(Seq(Lines))
         /\ asked \in [Callers -> Nat] /\ sess \in [Callers -> Nat]
         /\ pline \in Lines
BY DEF TypeOK, Requests

\* Steps of a caller in mc665_http_read_data.
LEMMA ReadCaller ==
  ASSUME TypeOK, HandlerHolds, prompt, WaitsInv, ReadInv, NEW c \in Callers,
         \/ TakeLock(c) /\ op[c] = "read"
         \/ ReadSetMsg(c) \/ ReadSend(c) \/ ReadAwait(c) \/ ReadClearMsg(c)
         \/ ReadReturn(c)
         \/ WaitTimesOut(c) /\ pc[c] = "data_wait"
  PROVE  ReadInv'
<1> USE DEF callerVars, parserVars, history, groupVars
<1>0. /\ pc \in [Callers -> PcLabels] /\ op \in [Callers -> OpKinds \cup {"none"}]
      /\ readLen \in [Callers -> Nat] /\ want \in [Callers -> SUBSET BitNames]
      /\ got \in [Callers -> SUBSET BitNames] /\ bits \in SUBSET BitNames
      /\ given \in Seq(Seq(Lines)) /\ tx \in Seq(Requests)
      /\ asked \in [Callers -> Nat]
  BY HttpTypes
<1>1. CASE TakeLock(c) /\ op[c] = "read"
  <2>1. /\ pc[c] = "lock" /\ drvLock = None /\ drvLock' = c
        /\ pc' = [pc EXCEPT ![c] = "set"]
        /\ UNCHANGED <<msg, op, asked, readLen, buf, given, tx, rx, bits, ppc>>
    BY <1>1 DEF TakeLock, Goto
  <2>2. \A d \in Callers : pc[d] \notin Holding /\ d # None
    BY <2>1 DEF ReadInv, ReadOf
  <2>3. ReadNone'
    <3>1. \A d \in Callers : ~Reading(d)
      BY <2>2 DEF Reading, Holding, InRead
    <3> QED BY <2>1, <3>1 DEF ReadInv, ReadNone, NoItem
  <2>4. ReadOf(c)'
    BY <1>0, <1>1, <2>1 DEF ReadInv, ReadOf, Reading, Holding, InRead
  <2> QED BY <1>0, <2>1, <2>2, <2>3, <2>4, ReadOne
<1>2. CASE ReadSetMsg(c)
  <2>1. /\ pc[c] = "set" /\ msg' = c
        /\ pc' = [pc EXCEPT ![c] = "send"]
        /\ UNCHANGED <<drvLock, op, asked, readLen, buf, given, tx, rx, bits, ppc>>
    BY <1>2 DEF ReadSetMsg, Goto
  <2>2. \A d \in Callers \ {c} : pc[d] \notin Holding
    BY <2>1, Alone DEF Holding, InRead
  <2>3. ReadNone'
    <3>1. \A d \in Callers : ~Reading(d)
      BY <2>1, <2>2 DEF Reading, Holding, InRead
    <3> QED BY <2>1, <3>1 DEF ReadInv, ReadNone, NoItem
  <2>4. ReadOf(c)'
    BY <1>0, <2>1 DEF ReadInv, ReadOf, Reading, Holding, InRead
  <2> QED BY <1>0, <2>1, <2>2, <2>3, <2>4, ReadOne
<1>3. CASE ReadSend(c)
  <2>1. /\ pc[c] = "send" /\ Put(c, "read", len[c])
        /\ pc' = [pc EXCEPT ![c] = "await"]
        /\ UNCHANGED <<drvLock, op, len, msg, readLen, buf, given, rx, bits, ppc>>
    BY <1>3 DEF ReadSend, Goto
  <2>2. \A d \in Callers \ {c} : pc[d] \notin Holding
    BY <2>1, Alone DEF Holding, InRead
  <2>3. ReadNone
    <3>1. \A d \in Callers : ~Reading(d)
      BY <2>1, <2>2 DEF Reading, Holding, InRead
    <3> QED BY <3>1 DEF ReadInv
  <2>4. JustItem([type |-> "read", len |-> len[c]], asked[c])'
    <3>0. PICK n \in Nat : n = len[c]
      BY HttpTypes
    <3>1. Put(c, "read", n) /\ given' = given
      BY <2>1, <3>0
    <3>2. JustItem([type |-> "read", len |-> n], asked[c])'
      BY <1>0, <2>3, <3>1, PutFacts DEF ReadNone
    <3> QED BY <2>1, <3>0, <3>2
  <2>5. readLen[c] = 0 /\ pc'[c] = "await"
    BY <1>0, <2>1 DEF ReadInv, ReadOf
  <2>6. ReadAsked(c)'
    <3> DEFINE x == [type |-> "read", len |-> len[c]]
    <3> HIDE DEF x
    <3>1. JustItem(x, asked[c])'
      BY <2>4 DEF x
    <3>2. NoneOf(rx', OfRead) /\ "data" \notin bits' /\ ppc' = "read" /\ Awaits(c)'
          /\ readLen'[c] = 0
      BY <2>1, <2>3, <2>5 DEF ReadNone, Awaits
    <3> QED BY <3>1, <3>2 DEF ReadAsked, x
  <2>7. ReadOf(c)' /\ Reading(c)'
    BY <1>0, <2>1, <2>5, <2>6 DEF ReadInv, ReadOf, Reading, Holding, InRead
  <2>8. asked' = [asked EXCEPT ![c] = Len(given) + Len(tx) + 1]
    BY <2>1 DEF Put
  <2> QED BY <1>0, <2>1, <2>2, <2>7, <2>8, ReadOne
<1>4. CASE ReadAwait(c)
  <2>1. /\ pc[c] = "await" /\ pc' = [pc EXCEPT ![c] = "data_wait"]
        /\ UNCHANGED <<drvLock, op, len, msg, readLen, buf, given, asked, tx, rx, ppc,
                       pline, pmsg>>
    BY <1>4 DEF ReadAwait, Goto
  <2>2. \A d \in Callers \ {c} : pc[d] \notin Holding
    BY <2>1, Alone DEF Holding, InRead
  <2>3. want[c] = {}
    BY <2>1 DEF WaitsInv, WaitedFor
  <2>4. /\ "data" \in bits => "data" \notin bits' /\ want'[c] = {}
        /\ "data" \notin bits => bits' = bits /\ want'[c] = {"data"}
    BY <1>0, <1>4, <2>3 DEF ReadAwait, WaitBits
  <2>5. /\ Usable(asked[c])' <=> Usable(asked[c])
        /\ Answer(c)' = Answer(c)
    BY <2>1 DEF Usable, Answer
  <2>6. ReadAsked(c) => ReadAsked(c)'
    <3> SUFFICES ASSUME ReadAsked(c) PROVE ReadAsked(c)'
      OBVIOUS
    <3> DEFINE x == [type |-> "read", len |-> len[c]]
    <3> HIDE DEF x
    <3>1. JustItem(x, asked[c])'
      BY <2>1 DEF ReadAsked, x, JustItem
    <3>2. NoneOf(rx', OfRead) /\ "data" \notin bits' /\ ppc' = "read" /\ Awaits(c)'
          /\ readLen'[c] = 0
      BY <1>0, <2>1, <2>4 DEF ReadAsked, Awaits
    <3> QED BY <2>1, <3>1, <3>2 DEF ReadAsked, x
  <2>7. ReadLost(c) => ReadLost(c)'
    BY <1>0, <2>1, <2>4, <2>5 DEF ReadLost, Awaits, NoItem
  <2>8. ReadReplied(c) => ReadReplied(c)'
    BY <2>1, <2>5 DEF ReadReplied, NoItem
  <2>9. ReadComing(c) => ReadComing(c)'
    BY <1>0, <2>1, <2>4, <2>5, <2>8 DEF ReadComing, Awaits
  <2>10. ReadHandled(c) => ReadHandled(c)'
    BY <1>0, <2>1, <2>4, <2>5, <2>8 DEF ReadHandled, Awaits
  <2>11. ReadDone(c) => ReadDone(c)'
    BY <1>0, <2>1, <2>4, <2>5 DEF ReadDone, ReadCopied, NoItem
  <2>12. ReadOf(c)' /\ Reading(c)'
    <3>1. \/ ReadAsked(c) \/ ReadLost(c) \/ ReadComing(c)
          \/ ReadHandled(c) \/ ReadDone(c)
      BY <2>1 DEF ReadInv, ReadOf, Reading
    <3> QED BY <1>0, <2>1, <2>6, <2>7, <2>9, <2>10, <2>11, <3>1
            DEF ReadInv, ReadOf, Reading, Holding, InRead
  <2> QED BY <1>0, <2>1, <2>2, <2>12, ReadOne
<1>5. CASE ReadClearMsg(c)
  <2>1. /\ pc[c] = "data_wait" /\ pc' = [pc EXCEPT ![c] = "return"]
        /\ want[c] = {} /\ objMutex = None
        /\ UNCHANGED <<drvLock, op, len, readLen, buf, given, asked, tx, rx, ppc, bits>>
    BY <1>5 DEF ReadClearMsg, Goto
  <2>2. \A d \in Callers \ {c} : pc[d] \notin Holding
    BY <2>1, Alone DEF Holding, InRead
  <2>3. ReadLost(c) \/ ReadDone(c)
    <3>1. \/ ReadAsked(c) \/ ReadLost(c) \/ ReadComing(c)
          \/ ReadHandled(c) \/ ReadDone(c)
      BY <2>1 DEF ReadInv, ReadOf, Reading
    <3> QED BY <2>1, <3>1 DEF ReadAsked, ReadComing, ReadHandled, Awaits
  <2>4. ppc \notin {"check", "copy", "set_len", "give"}
    BY <2>1 DEF HandlerHolds
  <2>5. ReadNone'
    <3>1. ReadNone
      BY <2>1, <2>3, <2>4 DEF ReadLost, ReadDone, ReadNone
    <3> QED BY <2>1, <3>1 DEF ReadNone, NoItem
  <2>6. /\ asked[c] \in DOMAIN given
        /\ ReadCopied(c) \/ (~Usable(asked[c]) /\ readLen[c] = 0)
    BY <2>3 DEF ReadLost, ReadDone, ReadCopied, Usable
  <2>7. /\ asked'[c] \in DOMAIN given'
        /\ ReadCopied(c)' \/ (~Usable(asked[c])' /\ readLen'[c] = 0)
    BY <2>1, <2>6 DEF ReadCopied, Usable, Answer
  <2>8. ReadOf(c)'
    BY <1>0, <2>1, <2>7 DEF ReadInv, ReadOf, Reading, Holding, InRead
  <2> QED BY <1>0, <2>1, <2>2, <2>5, <2>8, ReadOne
<1>6. CASE ReadReturn(c)
  <2>1. /\ pc[c] = "return" /\ pc' = [pc EXCEPT ![c] = "idle"]
        /\ UNCHANGED <<op, readLen, buf, given, asked, tx, rx, ppc, bits>>
    BY <1>6 DEF ReadReturn, Return, Goto
  <2>2. \A d \in Callers \ {c} : pc[d] \notin Holding
    BY <2>1, Alone DEF Holding, InRead
  <2>3. ReadNone'
    <3>1. \A d \in Callers : ~Reading(d)
      BY <2>1, <2>2 DEF Reading, Holding, InRead
    <3> QED BY <2>1, <3>1 DEF ReadInv, ReadNone, NoItem
  <2>4. /\ asked[c] \in DOMAIN given
        /\ ReadCopied(c) \/ (~Usable(asked[c]) /\ readLen[c] = 0)
    BY <2>1 DEF ReadInv, ReadOf
  <2>5. /\ asked'[c] \in DOMAIN given'
        /\ ReadCopied(c)' \/ (~Usable(asked[c])' /\ readLen'[c] = 0)
    BY <2>1, <2>4 DEF ReadCopied, Usable, Answer
  <2>6. ReadOf(c)'
    BY <1>0, <2>1, <2>5 DEF ReadInv, ReadOf, Reading, Holding, InRead
  <2> QED BY <1>0, <2>1, <2>2, <2>3, <2>6, ReadOne
<1>7. CASE WaitTimesOut(c) /\ pc[c] = "data_wait"
  <2>1. /\ pc[c] = "data_wait" /\ want[c] # {} /\ Quiet
        /\ want' = [want EXCEPT ![c] = {}]
        /\ UNCHANGED <<drvLock, op, len, msg, readLen, buf, given, asked, tx, rx, ppc,
                       pline, pmsg, pc, bits>>
    BY <1>7 DEF WaitTimesOut, WaitExpires
  <2>2. \A d \in Callers \ {c} : pc[d] \notin Holding
    BY <2>1, Alone DEF Holding, InRead
  <2>3. ReadLost(c)
    <3>1. \/ ReadAsked(c) \/ ReadLost(c) \/ ReadComing(c)
          \/ ReadHandled(c) \/ ReadDone(c)
      BY <2>1 DEF ReadInv, ReadOf, Reading
    <3>2. ~ReadAsked(c)
      BY <2>1 DEF ReadAsked, JustItem, Quiet
    <3>3. ~ReadComing(c)
      BY <2>1 DEF ReadComing, JustOne, Quiet
    <3> QED BY <2>1, <3>1, <3>2, <3>3 DEF ReadHandled, ReadDone, Quiet
  <2>4. ReadLost(c)'
    BY <1>0, <2>1, <2>3 DEF ReadLost, NoItem, Usable
  <2>5. ReadOf(c)' /\ Reading(c)'
    BY <1>0, <2>1, <2>4 DEF ReadInv, ReadOf, Reading, Holding, InRead
  <2> QED BY <1>0, <2>1, <2>2, <2>5, ReadOne
<1> QED BY <1>1, <1>2, <1>3, <1>4, <1>5, <1>6, <1>7

\* A line of a kind matters to one K only.
LEMMA OtherKinds ==
  ASSUME NEW s \in Seq(Lines), s # <<>>
  PROVE  /\ Head(s).kind \in OfRead => Head(s).kind \notin OfSess
         /\ Head(s).kind \notin OfRead => Head(s).kind \in OfSess
<1>1. Head(s) \in Lines
  BY HeadAndTail
<1> QED BY <1>1 DEF Lines, OfRead, OfSess

\* Steps of the handler with a reply in hand.
LEMMA ReadHandler ==
  ASSUME TypeOK, HandlerHolds, WritesThroughMsg, prompt, WaitsInv, ReadInv,
         \/ HandleData \/ HandlerTake \/ HandlerCheck \/ HandlerCopy
         \/ HandlerSetLen \/ HandlerGive
  PROVE  ReadInv'
<1> USE DEF callerVars, parserVars, history, groupVars
<1>0. /\ pc \in [Callers -> PcLabels] /\ op \in [Callers -> OpKinds \cup {"none"}]
      /\ readLen \in [Callers -> Nat] /\ want \in [Callers -> SUBSET BitNames]
      /\ got \in [Callers -> SUBSET BitNames] /\ bits \in SUBSET BitNames
      /\ given \in Seq(Seq(Lines)) /\ rx \in Seq(Lines)
      /\ asked \in [Callers -> Nat] /\ buf \in [Callers -> [num : Nat, len : Nat]]
      /\ len \in [Callers -> Nat] /\ pline \in Lines
  BY HttpTypes
<1>1. UNCHANGED <<drvLock, msg, op, len, pc, asked, given, tx>>
  BY DEF HandleData, HandlerTake, HandlerCheck, HandlerCopy, HandlerSetLen,
         HandlerGive
<1>2. ~ReadNone
  <2>1. CASE HandleData
    <3>1. rx # <<>> /\ Head(rx).kind \in OfRead
      BY <2>1 DEF HandleData, OfRead
    <3>2. ~NoneOf(rx, OfRead)
      BY <1>0, <3>1, TailOne
    <3> QED BY <3>2 DEF ReadNone
  <2>2. CASE \/ HandlerTake \/ HandlerCheck \/ HandlerCopy \/ HandlerSetLen
             \/ HandlerGive
    BY <2>2 DEF HandlerTake, HandlerCheck, HandlerCopy, HandlerSetLen,
                HandlerGive, ReadNone
  <2> QED BY <2>1, <2>2
<1>3. PICK c \in Callers : Reading(c)
  BY <1>2 DEF ReadInv
<1>4. /\ ReadOf(c) /\ msg = c /\ pc[c] \in {"await", "data_wait"}
      /\ \A d \in Callers \ {c} : pc[d] \notin Holding
      /\ \/ ReadAsked(c) \/ ReadLost(c) \/ ReadComing(c)
         \/ ReadHandled(c) \/ ReadDone(c)
  BY <1>3, Alone DEF ReadInv, ReadOf, Reading, Holding, InRead
<1>5. /\ Usable(asked[c])' <=> Usable(asked[c])
      /\ Answer(c)' = Answer(c)
      /\ NoItem("read") => NoItem("read")'
  BY <1>1 DEF Usable, Answer, NoItem
<1>6. ASSUME \A d \in Callers \ {c} : readLen'[d] = readLen[d] /\ buf'[d] = buf[d],
             \/ ReadLost(c)' \/ ReadHandled(c)' \/ ReadDone(c)'
      PROVE  ReadInv'
  <2>1. Reading(c)' /\ ReadOf(c)'
    BY <1>1, <1>3, <1>4, <1>6 DEF ReadOf, Reading, Holding, InRead
  <2> QED BY <1>1, <1>4, <1>6, <2>1, ReadOne
<1>7. CASE HandleData
  <2>1. /\ ppc = "read" /\ rx # <<>> /\ Head(rx).kind \in OfRead /\ rx' = Tail(rx)
        /\ UNCHANGED <<readLen, buf, bits, want, pmsg>>
        /\ IF FitsLineBuf(Head(rx).len) /\ Head(rx).whole
           THEN pline' = Head(rx) /\ ppc' = "take" ELSE UNCHANGED <<pline, ppc>>
    BY <1>7 DEF HandleData, OfRead
  <2>2. ~NoneOf(rx, OfRead)
    BY <1>0, <2>1, TailOne
  <2>3. ReadComing(c)
    BY <1>4, <2>1, <2>2 DEF ReadAsked, ReadLost, ReadHandled, ReadDone
  <2>4. Head(rx) = Answer(c) /\ NoneOf(rx', OfRead)
    BY <1>0, <2>1, <2>3, TailOne DEF ReadComing
  <2>5. Awaits(c)' /\ "data" \notin bits' /\ readLen'[c] = 0 /\ ReadReplied(c)'
    BY <1>1, <1>5, <2>1, <2>3 DEF ReadComing, ReadReplied, Awaits
  <2>6. CASE Usable(asked[c])
    <3>1. pline' = Answer(c) /\ ppc' = "take"
      BY <2>1, <2>4, <2>6 DEF Usable, Answer
    <3>2. ReadHandled(c)'
      BY <1>5, <2>4, <2>5, <2>6, <3>1 DEF ReadHandled
    <3> QED BY <1>6, <2>1, <3>2
  <2>7. CASE ~Usable(asked[c])
    <3>1. ppc' = "read"
      BY <2>1, <2>3, <2>4, <2>7 DEF Usable, Answer, ReadComing, ReadReplied
    <3>2. ReadLost(c)'
      BY <1>1, <1>5, <2>3, <2>4, <2>5, <2>7, <3>1
         DEF ReadLost, ReadComing, ReadReplied
    <3> QED BY <1>6, <2>1, <3>2
  <2> QED BY <2>6, <2>7
<1>8. CASE HandlerTake \/ HandlerCheck \/ HandlerCopy \/ HandlerSetLen
  <2>1. ppc \in {"take", "check", "copy", "set_len"} /\ rx' = rx
    BY <1>8 DEF HandlerTake, HandlerCheck, HandlerCopy, HandlerSetLen
  <2>2. ReadHandled(c)
    BY <1>4, <2>1 DEF ReadAsked, ReadLost, ReadComing, ReadDone
  <2>3. ReadReplied(c)'
    BY <1>1, <1>5, <2>2 DEF ReadReplied, ReadHandled
  <2>4. CASE HandlerTake
    <3>1. /\ ppc' = "check"
          /\ UNCHANGED <<readLen, buf, bits, want, pline, pmsg>>
      BY <2>4 DEF HandlerTake
    <3>2. ReadHandled(c)'
      BY <1>1, <1>5, <2>1, <2>2, <2>3, <3>1 DEF ReadHandled, Awaits
    <3> QED BY <1>6, <3>1, <3>2
  <2>5. CASE HandlerCheck
    <3>1. ppc' = "copy" /\ pmsg' = c
      BY <1>4, <2>2, <2>5 DEF HandlerCheck, ReadHandled, ReadReplied
    <3>2. UNCHANGED <<readLen, buf, bits, want, pline>>
      BY <2>5 DEF HandlerCheck
    <3>3. ReadHandled(c)'
      BY <1>1, <1>5, <2>1, <2>2, <2>3, <3>1, <3>2 DEF ReadHandled, Awaits
    <3> QED BY <1>6, <3>2, <3>3
  <2>6. CASE HandlerCopy
    <3>1. /\ ppc' = "set_len" /\ pmsg = c /\ pmsg' = pmsg /\ pline' = pline
          /\ buf' = [buf EXCEPT ![c] = [num |-> pline.num, len |-> pline.len]]
          /\ UNCHANGED <<readLen, bits, want>>
      BY <2>2, <2>6 DEF HandlerCopy, ReadHandled
    <3>2. buf'[c].num = asked[c]
      BY <1>0, <2>2, <3>1 DEF ReadHandled, ReadReplied
    <3>3. ReadHandled(c)'
      BY <1>1, <1>5, <2>1, <2>2, <2>3, <3>1, <3>2 DEF ReadHandled, Awaits
    <3> QED BY <1>0, <1>6, <3>1, <3>3
  <2>7. CASE HandlerSetLen
    <3>1. /\ ppc' = "give" /\ pmsg = c /\ buf' = buf /\ SetBits({"data"})
          /\ readLen' = [readLen EXCEPT ![c] = pline.len] /\ ppc = "set_len"
      BY <2>2, <2>7 DEF HandlerSetLen, ReadHandled
    <3>2. ReadCopied(c)'
      BY <1>0, <1>1, <1>5, <2>2, <3>1 DEF ReadHandled, ReadCopied
    <3>3. \/ pc'[c] = "await" /\ "data" \in bits'
          \/ pc'[c] = "data_wait" /\ want'[c] = {} /\ "data" \notin bits'
      <4>1. "data" \in BitNames
        BY DEF BitNames
      <4>2. Awaits(c)
        BY <2>2 DEF ReadHandled
      <4>3. CASE pc[c] = "data_wait" /\ want[c] = {"data"}
        BY <1>1, <3>1, <4>1, <4>3, SetOne
      <4>4. CASE pc[c] = "await"
        <5>1. ASSUME NEW d \in Callers, "data" \in want[d] PROVE FALSE
          <6>1. pc[d] \in {"status_wait", "resp_wait", "data_wait"} /\ d # c
            BY <4>4, <5>1 DEF WaitsInv, WaitedFor
          <6>2. pc[d] # "data_wait"
            BY <1>4, <6>1 DEF Holding, InRead
          <6> QED BY <5>1, <6>1, <6>2 DEF WaitsInv, WaitedFor
        <5> QED BY <1>1, <3>1, <4>1, <4>4, <5>1, SetOne
      <4> QED BY <4>2, <4>3, <4>4 DEF Awaits
    <3>4. ReadDone(c)'
      BY <1>5, <2>1, <2>2, <3>1, <3>2, <3>3 DEF ReadDone, ReadHandled, ReadReplied
    <3> QED BY <1>0, <1>6, <3>1, <3>4
  <2> QED BY <1>8, <2>4, <2>5, <2>6, <2>7
<1>9. CASE HandlerGive
  <2>1. /\ ppc = "give" /\ ppc' = "read"
        /\ UNCHANGED <<readLen, buf, bits, want, rx>>
    BY <1>9 DEF HandlerGive
  <2>2. ReadDone(c)
    BY <1>4, <2>1 DEF ReadAsked, ReadLost, ReadComing, ReadHandled
  <2>3. ReadDone(c)'
    BY <1>1, <1>5, <2>1, <2>2 DEF ReadDone, ReadCopied
  <2> QED BY <1>6, <2>1, <2>3
<1> QED BY <1>7, <1>8, <1>9

\* What the modem answers, and to whom it matters.
LEMMA ReplyFacts ==
  ASSUME NEW item \in Requests, NEW num \in Nat, NEW a \in Replies(item, num)
  PROVE  /\ a \in Seq(Lines)
         /\ item.type = "act" =>
              /\ NoneOf(a, OfRead)
              /\ \/ a = <<>> \/ a = <<Line("fail", num)>>
                 \/ a = <<Line("success", num), Line("res", num)>>
         /\ item.type = "read" =>
              /\ NoneOf(a, OfSess)
              /\ \/ a = <<>>
                 \/ /\ a # <<>> /\ a = <<a[1]>> /\ a[1] \in Lines
                    /\ a[1].kind = "read" /\ a[1].num = num /\ a[1].len <= item.len
<1>0. item.len \in Nat /\ item.type \in {"act", "read"}
  BY DEF Requests
<1>1. a \in Seq(Lines)
  BY RepliesType DEF Requests
<1>2. ASSUME item.type = "act"
      PROVE  /\ NoneOf(a, OfRead)
             /\ \/ a = <<>> \/ a = <<Line("fail", num)>>
                \/ a = <<Line("success", num), Line("res", num)>>
  <2>1. \/ a = <<>> \/ a = <<Line("fail", num)>>
        \/ a = <<Line("success", num), Line("res", num)>>
    BY <1>2, Zenon DEF Replies
  <2>2. \A k : Line(k, num).kind = k
    BY DEF Line
  <2> DEFINE x == Line("fail", num)
             y == Line("success", num)
             z == Line("res", num)
  <2>3. x.kind = "fail" /\ y.kind = "success" /\ z.kind = "res"
    BY <2>2, Zenon
  <2>4. a = <<>> \/ a = <<x>> \/ a = <<y, z>>
    BY <2>1
  <2> HIDE DEF x, y, z
  <2>5. NoneOf(a, OfRead)
    BY <2>3, <2>4 DEF NoneOf, OfRead
  <2> QED BY <2>1, <2>5
<1>3. ASSUME item.type = "read"
      PROVE  /\ NoneOf(a, OfSess)
             /\ \/ a = <<>>
                \/ /\ a # <<>> /\ a = <<a[1]>> /\ a[1] \in Lines
                   /\ a[1].kind = "read" /\ a[1].num = num /\ a[1].len <= item.len
  <2>1. ASSUME NEW n \in Nat, n <= item.len, NEW w \in BOOLEAN, a = Reply(num, n, w)
        PROVE  /\ NoneOf(a, OfSess)
               /\ a # <<>> /\ a = <<a[1]>> /\ a[1] \in Lines
               /\ a[1].kind = "read" /\ a[1].num = num /\ a[1].len <= item.len
    <3> DEFINE x == [kind |-> "read", num |-> num, len |-> n, whole |-> w]
    <3>1. /\ x \in Lines /\ x.kind = "read" /\ x.num = num /\ x.len = n
          /\ a = <<x>>
      BY <2>1 DEF Lines, Reply
    <3> HIDE DEF x
    <3> QED BY <2>1, <3>1 DEF NoneOf, OfSess
  <2>2. \/ a = <<>> \/ a = Reply(num, item.len, FALSE)
        \/ \E n \in {0} \cup UNION {Lengths[c] : c \in Callers} :
             a = Reply(num, Min2(n, item.len), TRUE)
    BY <1>3, Zenon DEF Replies
  <2>3. \A n \in {0} \cup UNION {Lengths[c] : c \in Callers} : n \in Nat
    OBVIOUS
  <2>4. \A n \in Nat : Min2(n, item.len) \in Nat /\ Min2(n, item.len) <= item.len
    BY <1>0 DEF Min2
  <2>5. CASE a = Reply(num, item.len, FALSE)
    <3>1. item.len <= item.len /\ FALSE \in BOOLEAN
      BY <1>0
    <3> QED BY <1>0, <2>1, <2>5, <3>1, Zenon
  <2>6. ASSUME NEW n \in {0} \cup UNION {Lengths[c] : c \in Callers},
               a = Reply(num, Min2(n, item.len), TRUE)
        PROVE  /\ NoneOf(a, OfSess)
               /\ a # <<>> /\ a = <<a[1]>> /\ a[1] \in Lines
               /\ a[1].kind = "read" /\ a[1].num = num /\ a[1].len <= item.len
    <3>1. n \in Nat /\ TRUE \in BOOLEAN
      BY <2>3, Zenon
    <3>2. Min2(n, item.len) \in Nat /\ Min2(n, item.len) <= item.len
      BY <2>4, <3>1, Zenon
    <3> QED BY <2>1, <2>6, <3>1, <3>2, Zenon
  <2>7. CASE a = <<>>
    BY <2>7 DEF NoneOf
  <2> QED BY <2>2, <2>5, <2>6, <2>7
<1> QED BY <1>1, <1>2, <1>3

LEMMA ReadServed ==
  ASSUME TypeOK, ReadInv, ModemServe
  PROVE  ReadInv'
<1> USE DEF callerVars, parserVars, history, groupVars
<1>0. /\ given \in Seq(Seq(Lines)) /\ rx \in Seq(Lines) /\ tx \in Seq(Requests)
      /\ asked \in [Callers -> Nat] /\ len \in [Callers -> Nat]
  BY HttpTypes
<1>1. UNCHANGED <<drvLock, msg, op, len, pc, asked, readLen, buf, want, bits, ppc,
                  pline, pmsg>>
  BY DEF ModemServe
<1>2. PICK item : item = Head(tx)
  OBVIOUS
<1>3. PICK num \in Nat : num = Len(given) + 1
  BY <1>0
<1>4. /\ item \in Requests /\ given'[num] \in Replies(item, num)
      /\ num \in DOMAIN given' /\ rx' = rx \o given'[num]
      /\ \A n \in DOMAIN given : n \in DOMAIN given' /\ given'[n] = given[n]
  BY <1>0, <1>2, <1>3, ServeFacts
<1>5. PICK a \in Replies(item, num) : a = given'[num]
  BY <1>4
<1>6. CASE item.type = "act"
  <2>1. KeepsItems("read")
    <3>1. \A t : t # "act" => (NoItem(t) => NoItem(t)')
      BY <1>0, <1>2, <1>6, ServeFacts
    <3>2. \A x, n : x.type # "act" /\ JustItem(x, n) => JustItem(x, n)'
      BY <1>0, <1>2, <1>6, ServeFacts
    <3>3. \A l : [type |-> "read", len |-> l].type # "act"
      OBVIOUS
    <3> QED BY <3>1, <3>2, <3>3, Zenon DEF KeepsItems
  <2>2. KeepsLines(OfRead)
    <3>1. NoneOf(a, OfRead) /\ a \in Seq(Lines) /\ rx' = rx \o a
      BY <1>4, <1>5, <1>6, ReplyFacts
    <3> QED BY <1>0, <3>1, CatOther DEF KeepsLines
  <2>3. \A c \in Callers : pc'[c] \in Holding => drvLock' = c
    BY <1>1 DEF ReadInv, ReadOf
  <2> QED BY <1>1, <1>4, <2>1, <2>2, <2>3, ReadSame
<1>7. CASE item.type = "read"
  <2>1. ~NoItem("read")
    BY <1>0, <1>2, <1>7, ServeFacts
  <2>2. PICK c \in Callers : Reading(c)
    BY <2>1 DEF ReadInv, ReadNone
  <2>3. /\ ReadOf(c) /\ pc[c] \in {"await", "data_wait"}
        /\ \A d \in Callers \ {c} : pc[d] \notin Holding
    BY <2>2, Alone DEF ReadInv, Reading, Holding, InRead
  <2>4. ReadAsked(c)
    BY <2>1, <2>2, <2>3 DEF ReadOf, ReadLost, ReadComing, ReadHandled, ReadDone,
                            ReadReplied
  <2>5. item = [type |-> "read", len |-> len[c]] /\ asked[c] = num /\ NoItem("read")'
    <3> DEFINE x == [type |-> "read", len |-> len[c]]
    <3>1. x.type = "read" /\ JustItem(x, asked[c])
      BY <2>4 DEF ReadAsked
    <3> HIDE DEF x
    <3>2. x.type = Head(tx).type
      BY <1>2, <1>7, <3>1
    <3>3. Head(tx) = x /\ asked[c] = Len(given) + 1 /\ NoItem("read")'
      <4>1. PICK y, n : y = x /\ n = asked[c]
        OBVIOUS
      <4>2. y.type = Head(tx).type /\ JustItem(y, n)
        BY <3>1, <3>2, <4>1
      <4>3. Head(tx) = y /\ n = Len(given) + 1 /\ NoItem(y.type)'
        BY <1>0, <4>2, ServeFacts
      <4>4. NoItem("read")'
        BY <3>1, <4>1, <4>3
      <4> QED BY <4>1, <4>3, <4>4
    <3> QED BY <1>2, <1>3, <3>3 DEF x
  <2>6. /\ NoneOf(rx, OfRead) /\ "data" \notin bits' /\ ppc' = "read" /\ Awaits(c)'
        /\ readLen'[c] = 0
    BY <1>1, <2>4 DEF ReadAsked, Awaits
  <2>7. asked'[c] \in DOMAIN given' /\ given'[asked'[c]] = a
    BY <1>1, <1>4, <1>5, <2>5
  <2>8. a \in Seq(Lines) /\ rx' = rx \o a
    BY <1>4, <1>5, ReplyFacts
  <2>9. CASE a = <<>>
    <3>1. NoneOf(rx', OfRead)
      <4>1. NoneOf(a, OfRead)
        BY <2>9 DEF NoneOf
      <4> QED BY <1>0, <2>6, <2>8, <4>1, CatOther
    <3>2. ~Usable(asked[c])'
      BY <2>7, <2>9 DEF Usable
    <3>3. ReadLost(c)'
      BY <2>5, <2>6, <2>7, <3>1, <3>2 DEF ReadLost
    <3>4. Reading(c)' /\ ReadOf(c)'
      BY <1>1, <2>2, <2>3, <3>3 DEF ReadOf, Reading, Holding, InRead
    <3> QED BY <1>1, <1>4, <2>3, <3>4, ReadOne
  <2>10. CASE a # <<>>
    <3>1. /\ a = <<a[1]>> /\ a[1] \in Lines /\ a[1].kind = "read" /\ a[1].num = num
          /\ a[1].len <= item.len
      BY <1>4, <1>7, <2>10, ReplyFacts
    <3>2. JustOne(rx', OfRead, a[1])
      <4>1. a[1].kind \in OfRead
        BY <3>1 DEF OfRead
      <4> QED BY <1>0, <2>6, <2>8, <3>1, <4>1, CatOne
    <3>3. Answer(c)' = a[1]
      BY <2>7 DEF Answer
    <3>4. ReadReplied(c)'
      BY <1>1, <2>5, <2>7, <2>10, <3>1, <3>3 DEF ReadReplied
    <3>5. ReadComing(c)'
      BY <2>6, <3>2, <3>3, <3>4 DEF ReadComing
    <3>6. Reading(c)' /\ ReadOf(c)'
      BY <1>1, <2>2, <2>3, <3>5 DEF ReadOf, Reading, Holding, InRead
    <3> QED BY <1>1, <1>4, <2>3, <3>6, ReadOne
  <2> QED BY <2>9, <2>10
<1> QED BY <1>4, <1>6, <1>7 DEF Requests
\* Steps of a caller outside mc665_http_read_data.
LEMMA ReadElsewhere ==
  ASSUME TypeOK, SessionsWait, WaitsInv, ReadInv, NEW c \in Callers,
         \/ \E o \in OpKinds, n \in Nat : Call(c, o, n)
         \/ TakeLock(c) /\ op[c] # "read"
         \/ Exec(c) \/ AwaitStatus(c) \/ StatusDone(c) \/ AwaitResp(c) \/ RespDone(c)
         \/ WaitTimesOut(c) /\ pc[c] # "data_wait"
  PROVE  ReadInv'
<1> USE DEF callerVars, parserVars, history, groupVars
<1>0. /\ pc \in [Callers -> PcLabels] /\ op \in [Callers -> OpKinds \cup {"none"}]
      /\ readLen \in [Callers -> Nat] /\ want \in [Callers -> SUBSET BitNames]
      /\ len \in [Callers -> Nat] /\ ret \in [Callers -> Nat]
      /\ buf \in [Callers -> [num : Nat, len : Nat]]
      /\ got \in [Callers -> SUBSET BitNames] /\ bits \in SUBSET BitNames
      /\ given \in Seq(Seq(Lines)) /\ tx \in Seq(Requests)
      /\ asked \in [Callers -> Nat]
  BY HttpTypes
<1>1. \A d \in Callers : pc[d] \in Holding => drvLock = d
  BY DEF ReadInv, ReadOf
<1>2. ASSUME UNCHANGED <<msg, ppc, pline, pmsg, given, rx>>,
             "data" \in bits' <=> "data" \in bits, KeepsItems("read"),
             \A d \in Callers \ {c} :
               /\ pc'[d] = pc[d] /\ op'[d] = op[d] /\ asked'[d] = asked[d]
               /\ want'[d] = want[d] /\ len'[d] = len[d]
               /\ readLen'[d] = readLen[d] /\ buf'[d] = buf[d],
             pc[c] \notin InRead, pc'[c] \notin InRead,
             pc'[c] = "lock" => readLen'[c] = 0,
             pc'[c] = "idle" => op'[c] # "read",
             \A d \in Callers : pc'[d] \in Holding => drvLock' = d
      PROVE  ReadInv'
  <2>1. KeepsLines(OfRead)
    BY <1>2, KeptLines
  <2>2. \A n \in DOMAIN given : n \in DOMAIN given' /\ given'[n] = given[n]
    BY <1>2
  <2> QED BY <1>2, <2>1, <2>2, ReadSame
<1>3. ASSUME NEW o \in OpKinds, NEW n \in Nat, Call(c, o, n) PROVE ReadInv'
  <2>1. /\ UNCHANGED <<msg, ppc, pline, pmsg, given, rx, tx, bits, asked, want, drvLock>>
        /\ pc[c] = "idle" /\ pc'[c] = "lock" /\ readLen'[c] = 0
        /\ \A d \in Callers \ {c} :
             /\ pc'[d] = pc[d] /\ op'[d] = op[d] /\ len'[d] = len[d]
             /\ readLen'[d] = readLen[d] /\ buf'[d] = buf[d]
    BY <1>0, <1>3 DEF Call, Goto
  <2>2. KeepsItems("read")
    BY <2>1, KeptItems
  <2>3. \A d \in Callers : pc'[d] \in Holding => drvLock' = d
    BY <1>1, <2>1 DEF Holding, InRead
  <2> QED BY <1>2, <2>1, <2>2, <2>3 DEF InRead
<1>4. CASE TakeLock(c) /\ op[c] # "read"
  <2>1. /\ UNCHANGED <<msg, ppc, pline, pmsg, given, rx, tx, bits, asked, want, op, len,
                       readLen, buf>>
        /\ pc[c] = "lock" /\ pc'[c] = "exec" /\ drvLock = None /\ drvLock' = c
        /\ \A d \in Callers \ {c} : pc'[d] = pc[d]
    BY <1>0, <1>4 DEF TakeLock, Goto
  <2>2. KeepsItems("read")
    BY <2>1, KeptItems
  <2>3. \A d \in Callers : pc'[d] \in Holding => drvLock' = d
    BY <1>1, <2>1
  <2> QED BY <1>2, <2>1, <2>2, <2>3 DEF InRead
<1>5. CASE Exec(c)
  <2>1. /\ UNCHANGED <<msg, ppc, pline, pmsg, given, rx, bits, want, op, len, readLen, buf>>
        /\ pc[c] = "exec" /\ pc'[c] \in {"status", "idle"} /\ drvLock' = None
        /\ \A d \in Callers \ {c} : pc'[d] = pc[d]
        /\ Put(c, "act", 0) \/ UNCHANGED <<tx, asked>>
    BY <1>0, <1>5 DEF Exec, Goto
  <2>2. KeepsItems("read") /\ \A d \in Callers \ {c} : asked'[d] = asked[d]
    <3>1. CASE Put(c, "act", 0)
      <4>1. "read" # "act" /\ 0 \in Nat /\ "act" \in {"act", "read"}
        OBVIOUS
      <4>2. KeepsItems("read")
        BY <1>0, <2>1, <3>1, <4>1, PutFacts DEF KeepsItems
      <4>3. \A d \in Callers \ {c} : asked'[d] = asked[d]
        BY <1>0, <3>1 DEF Put
      <4> QED BY <4>2, <4>3
    <3>2. CASE UNCHANGED <<tx, asked>>
      BY <2>1, <3>2, KeptItems
    <3> QED BY <2>1, <3>1, <3>2
  <2>3. \A d \in Callers : pc'[d] \in Holding => drvLock' = d
    <3>1. \A d \in Callers \ {c} : pc[d] \notin Holding
      BY <2>1, Alone DEF Holding
    <3> QED BY <2>1, <3>1 DEF Holding, InRead
  <2>4. op[c] # "read"
    BY <2>1 DEF SessionsWait
  <2> QED BY <1>2, <2>1, <2>2, <2>3, <2>4 DEF InRead
<1>6. CASE \/ AwaitStatus(c) \/ StatusDone(c) \/ AwaitResp(c) \/ RespDone(c)
           \/ WaitTimesOut(c) /\ pc[c] # "data_wait"
  <2>1. pc[c] \in {"status", "status_wait", "resp", "resp_wait"}
    <3>1. CASE WaitTimesOut(c) /\ pc[c] # "data_wait"
      BY <1>0, <3>1 DEF WaitTimesOut, WaitsInv, WaitedFor
    <3> QED BY <1>6, <3>1 DEF AwaitStatus, StatusDone, AwaitResp, RespDone
  <2>2. /\ UNCHANGED <<msg, ppc, pline, pmsg, given, rx, tx, asked, op, len, readLen, buf,
                       drvLock>>
        /\ pc'[c] \in {"status", "status_wait", "resp", "resp_wait", "idle"}
        /\ \A d \in Callers \ {c} : pc'[d] = pc[d]
    BY <1>0, <1>6, <2>1 DEF AwaitStatus, StatusDone, AwaitResp, RespDone, WaitTimesOut, Goto
  <2>3. /\ "data" \in bits' <=> "data" \in bits
        /\ \A d \in Callers \ {c} : want'[d] = want[d]
    <3>1. CASE AwaitStatus(c) \/ AwaitResp(c)
      BY <1>0, <3>1 DEF AwaitStatus, AwaitResp, WaitBits
    <3>2. CASE StatusDone(c) \/ RespDone(c)
      BY <3>2 DEF StatusDone, RespDone
    <3>3. CASE WaitTimesOut(c)
      BY <1>0, <3>3 DEF WaitTimesOut, WaitExpires
    <3> QED BY <1>6, <3>1, <3>2, <3>3
  <2>4. KeepsItems("read")
    BY <2>2, KeptItems
  <2>5. op[c] # "read"
    BY <2>1 DEF SessionsWait
  <2>6. \A d \in Callers : pc'[d] \in Holding => drvLock' = d
    BY <1>1, <2>2 DEF Holding, InRead
  <2> QED BY <1>2, <2>1, <2>2, <2>3, <2>4, <2>5, <2>6 DEF InRead
<1> QED BY <1>3, <1>4, <1>5, <1>6

\* A line of a session does not concern a read.
LEMMA ReadOtherLine ==
  ASSUME TypeOK, WaitsInv, ReadInv, HandleStatus \/ HandleResp
  PROVE  ReadInv'
<1> USE DEF callerVars, parserVars, history, groupVars
<1>0. rx \in Seq(Lines) /\ want \in [Callers -> SUBSET BitNames]
  BY HttpTypes
<1>1. PICK b \in {"success", "fail", "resp"} : SetBits({b})
  BY DEF HandleStatus, HandleResp
<1>2. /\ rx # <<>> /\ rx' = Tail(rx) /\ Head(rx).kind \notin OfRead
      /\ UNCHANGED <<msg, ppc, pline, pmsg, given, tx, asked, op, len, readLen, buf,
                     drvLock, pc>>
  BY DEF HandleStatus, HandleResp, OfRead
<1>3. KeepsLines(OfRead)
  BY <1>0, <1>2, TailOther DEF KeepsLines
<1>4. KeepsItems("read")
  BY <1>2, KeptItems
<1>5. \A d \in Callers : b \in want[d] => pc[d] \in {"status_wait", "resp_wait"}
  BY <1>1 DEF WaitsInv, WaitedFor
<1>6. \A d \in Callers : b \notin want[d] => want'[d] = want[d]
  <2>1. b \in BitNames
    BY DEF BitNames
  <2> QED BY <1>1, <2>1, SetOne
<1>7. "data" \in bits' <=> "data" \in bits
  <2>1. ~\E d \in Callers : b \in want[d] /\ "data" \in want[d]
    BY <1>5 DEF WaitsInv, WaitedFor
  <2>2. "data" \in BitNames \ {b} /\ b \in BitNames
    BY DEF BitNames
  <2> QED BY <1>1, <2>1, <2>2, SetOne
<1>8. \A d \in Callers : pc'[d] \in Holding => drvLock' = d
  BY <1>2 DEF ReadInv, ReadOf
<1>9. ASSUME NEW d \in Callers
      PROVE  \/ /\ pc'[d] = pc[d] /\ op'[d] = op[d] /\ asked'[d] = asked[d]
                /\ want'[d] = want[d] /\ len'[d] = len[d]
                /\ readLen'[d] = readLen[d] /\ buf'[d] = buf[d]
             \/ /\ pc[d] \notin InRead /\ pc'[d] \notin InRead
                /\ pc'[d] = "lock" => readLen'[d] = 0
                /\ pc'[d] = "idle" => op'[d] # "read"
  BY <1>2, <1>5, <1>6 DEF InRead
<1> QED BY <1>2, <1>3, <1>4, <1>7, <1>8, <1>9, ReadSame

\* Every step keeps a read where it can be.
LEMMA ReadNext ==
  ASSUME IInv, prompt, WaitsInv, ReadInv, [Next]_vars
  PROVE  ReadInv'
<1>0. TypeOK /\ HandlerHolds /\ WritesThroughMsg /\ SessionsWait
  BY DEF IInv
<1>1. ASSUME NEW c \in Callers, CallStep(c) PROVE ReadInv'
  BY <1>0, <1>1, ReadCaller, ReadElsewhere DEF CallStep
<1>2. ASSUME NEW c \in Callers, NEW o \in OpKinds, NEW n \in Nat, Call(c, o, n)
      PROVE  ReadInv'
  BY <1>0, <1>2, ReadElsewhere
<1>3. CASE ParserStep
  BY <1>0, <1>3, ReadHandler, ReadOtherLine DEF ParserStep
<1>4. CASE ModemServe
  BY <1>0, <1>4, ReadServed
<1>5. CASE HttpInit \/ Terminated \/ UNCHANGED vars
  <2>1. UNCHANGED <<msg, ppc, pline, pmsg, given, rx, tx, asked, op, len, readLen, buf,
                    drvLock, pc, bits, want>>
    BY <1>5 DEF HttpInit, Terminated, vars, callerVars, parserVars, history, groupVars
  <2>2. KeepsItems("read") /\ KeepsLines(OfRead)
    BY <2>1, KeptItems, KeptLines
  <2>3. \A d \in Callers : pc'[d] \in Holding => drvLock' = d
    BY <2>1 DEF ReadInv, ReadOf
  <2> QED BY <2>1, <2>2, <2>3, ReadSame
<1>6. 0 \in Nat /\ \A c \in Callers : \A n \in Lengths[c] : n \in Nat
  OBVIOUS
<1> QED BY <1>1, <1>2, <1>3, <1>4, <1>5, <1>6 DEF Next, OpKinds
\* Whether answers are prompt does not change.
LEMMA PromptSame == [Next]_vars => prompt' = prompt
<1> SUFFICES ASSUME [Next]_vars PROVE prompt' = prompt
  OBVIOUS
<1>1. ASSUME NEW c \in Callers, CallStep(c) PROVE prompt' = prompt
  BY <1>1 DEF CallStep, TakeLock, Exec, AwaitStatus, StatusDone, AwaitResp,
              RespDone, ReadSetMsg, ReadSend, ReadAwait, ReadClearMsg,
              ReadReturn, WaitTimesOut
<1>2. CASE ParserStep
  BY <1>2 DEF ParserStep, HandleStatus, HandleResp, HandleData, HandlerTake,
              HandlerCheck, HandlerCopy, HandlerSetLen, HandlerGive
<1> QED BY <1>1, <1>2 DEF Next, HttpInit, Call, ModemServe, Terminated, vars

\* In the beginning no request is on its way.
LEMMA PromptInit == Init => WaitsInv /\ ReadInv /\ SessInv
<1> SUFFICES ASSUME Init PROVE WaitsInv /\ ReadInv /\ SessInv
  OBVIOUS
<1>1. WaitsInv
  BY DEF Init, InitGroup, WaitsInv
<1>2. ReadInv
  BY DEF Init, InitGroup, ReadInv, ReadOf, ReadNone, Reading, Holding, InRead, NoItem, NoneOf
<1>3. SessInv
  BY DEF Init, InitGroup, SessInv, SessOf, InSession, InSess, NoItem, Clean, NoneOf
<1> QED BY <1>1, <1>2, <1>3

\* The invariant of the reads.
ReadsInv == IInv /\ (prompt => WaitsInv /\ ReadInv)
LEMMA ReadsInvariant == Spec => []ReadsInv
<1>1. Init => ReadsInv
  BY InvInit, PromptInit DEF ReadsInv
<1>2. ReadsInv /\ [Next]_vars => ReadsInv'
  <2> SUFFICES ASSUME ReadsInv, [Next]_vars PROVE ReadsInv'
    OBVIOUS
  <2>1. IInv /\ IInv' /\ TypeOK
    BY InvStep DEF ReadsInv, IInv
  <2>2. ASSUME prompt' PROVE WaitsInv' /\ ReadInv'
    <3>1. prompt /\ WaitsInv /\ ReadInv
      BY <2>2, PromptSame DEF ReadsInv
    <3> QED BY <2>1, <3>1, WaitsNext, ReadNext
  <2> QED BY <2>1, <2>2 DEF ReadsInv
<1> QED BY <1>1, <1>2, PTL DEF Spec

\* With prompt answers mc665_http_read_data returns the reply to its own
\* request, and nothing only if that reply could not be used, for every set of
\* readers: no stale bit and no reply to another reader gets in the way.
THEOREM ReadGetsReply == Spec => []ReadGetsItsReply
<1>1. ReadsInv => ReadGetsItsReply
  <2> SUFFICES ASSUME ReadsInv, NEW c \in Callers, prompt, pc[c] = "idle",
                      op[c] = "read"
               PROVE  /\ ret[c] > 0 => /\ buf[c].num = asked[c]
                                       /\ given[asked[c]][1].len = ret[c]
                      /\ ret[c] = 0 => \/ ~Usable(asked[c])
                                       \/ given[asked[c]][1].len = 0
    BY DEF ReadGetsItsReply
  <2>1. ret[c] = readLen[c]
    BY DEF ReadsInv, IInv, ReturnsReadLen
  <2>2. ReadCopied(c) \/ (~Usable(asked[c]) /\ readLen[c] = 0)
    BY DEF ReadsInv, ReadInv, ReadOf
  <2> QED BY <2>1, <2>2 DEF ReadCopied, Answer
<1> QED BY <1>1, ReadsInvariant, PTL
-----------------------------------------------------------------------------
(* The header is that of the session *)

\* Nobody but the task that opens sessions is in one.
LEMMA SessAlone ==
  ASSUME OneSessionTask, SessInv, NEW c \in Callers, op[c] = "session"
  PROVE  \A d \in Callers \ {c} : op[d] # "session" /\ ~InSession(d)
BY DEF OneSessionTask, SessInv, SessOf

\* A step of the one session.
LEMMA SessOne ==
  ASSUME OneSessionTask, SessInv, NEW c \in Callers, op[c] = "session",
         SessOf(c)', InSession(c)' \/ (NoItem("act")' /\ Clean'),
         \A d \in Callers \ {c} :
           /\ pc'[d] = pc[d] /\ op'[d] = op[d] /\ asked'[d] = asked[d]
           /\ ret'[d] = ret[d] /\ sess'[d] = sess[d]
  PROVE  SessInv'
<1>1. ASSUME NEW d \in Callers \ {c} PROVE SessOf(d)' /\ ~InSession(d)'
  <2>1. SessOf(d) /\ ~InSession(d) /\ op[d] # "session"
    BY SessAlone DEF SessInv
  <2> QED BY <2>1 DEF SessOf, InSession
<1> QED BY <1>1 DEF SessInv

\* Steps of a caller outside a session.
LEMMA SessElsewhere ==
  ASSUME TypeOK, SessInv, WaitsInv, NEW c \in Callers,
         \/ \E o \in OpKinds, n \in Nat : Call(c, o, n) /\ o \in Ops[c]
         \/ TakeLock(c) \/ ReadSetMsg(c) \/ ReadAwait(c) \/ ReadClearMsg(c)
         \/ Exec(c) /\ UNCHANGED <<tx, asked>>
         \/ ReadSend(c) /\ op[c] = "read"
         \/ ReadReturn(c) /\ op[c] = "read"
         \/ WaitTimesOut(c) /\ pc[c] = "data_wait"
  PROVE  SessInv'
<1> USE DEF callerVars, parserVars, history, groupVars
<1>0. /\ pc \in [Callers -> PcLabels] /\ op \in [Callers -> OpKinds \cup {"none"}]
      /\ want \in [Callers -> SUBSET BitNames] /\ ret \in [Callers -> Nat]
      /\ got \in [Callers -> SUBSET BitNames] /\ bits \in SUBSET BitNames
      /\ given \in Seq(Seq(Lines)) /\ tx \in Seq(Requests)
      /\ asked \in [Callers -> Nat] /\ sess \in [Callers -> Nat]
      /\ len \in [Callers -> Nat]
  BY HttpTypes
<1>1. SessOf(c)
  BY DEF SessInv
<1>2. ASSUME UNCHANGED <<objResp, rx>>, KeepsItems("act"),
             bits' \cap StatusBits = bits \cap StatusBits,
             \A d \in Callers \ {c} :
               /\ pc'[d] = pc[d] /\ op'[d] = op[d] /\ asked'[d] = asked[d]
               /\ want'[d] = want[d] /\ got'[d] = got[d] /\ ret'[d] = ret[d]
               /\ sess'[d] = sess[d],
             pc[c] \notin InSess, pc'[c] \notin InSess,
             op'[c] \in Ops[c] \cup {"none"}, op'[c] = "session" => ret'[c] = 0
      PROVE  SessInv'
  <2>1. KeepsLines(OfSess)
    BY <1>2, KeptLines
  <2> QED BY <1>2, <2>1, SessSame
<1>3. ASSUME NEW o \in OpKinds, NEW n \in Nat, Call(c, o, n), o \in Ops[c]
      PROVE  SessInv'
  <2>1. /\ UNCHANGED <<objResp, rx, tx, given, bits, asked, want, got, sess>>
        /\ pc[c] = "idle" /\ pc'[c] = "lock" /\ op'[c] = o /\ ret'[c] = 0
        /\ \A d \in Callers \ {c} :
             pc'[d] = pc[d] /\ op'[d] = op[d] /\ ret'[d] = ret[d]
    BY <1>0, <1>3 DEF Call, Goto
  <2>2. KeepsItems("act")
    BY <2>1, KeptItems
  <2> QED BY <1>2, <1>3, <2>1, <2>2 DEF InSess
<1>4. CASE \/ TakeLock(c) \/ ReadSetMsg(c) \/ ReadClearMsg(c)
           \/ Exec(c) /\ UNCHANGED <<tx, asked>>
  <2>1. /\ UNCHANGED <<objResp, rx, tx, given, bits, asked, want, got, sess, op>>
        /\ pc[c] \in {"lock", "exec", "set", "data_wait"}
        /\ \A d \in Callers \ {c} : pc'[d] = pc[d]
        /\ ret' = ret
    BY <1>0, <1>4 DEF TakeLock, Exec, ReadSetMsg, ReadClearMsg, Goto
  <2>2. KeepsItems("act")
    BY <2>1, KeptItems
  <2>3. pc'[c] \notin InSess
    <3>1. CASE TakeLock(c)
      BY <1>0, <3>1 DEF TakeLock, Goto, InSess
    <3>2. CASE Exec(c) /\ UNCHANGED <<tx, asked>>
      <4>1. tx' # Append(tx, [type |-> "act", len |-> 0])
        BY <1>0, <3>2 DEF Requests
      <4>2. Goto(c, "idle")
        BY <3>2, <4>1 DEF Exec, Put
      <4> QED BY <1>0, <4>2 DEF Goto, InSess
    <3>3. CASE ReadSetMsg(c) \/ ReadClearMsg(c)
      BY <1>0, <3>3 DEF ReadSetMsg, ReadClearMsg, Goto, InSess
    <3> QED BY <1>4, <3>1, <3>2, <3>3
  <2> QED BY <1>1, <1>2, <2>1, <2>2, <2>3 DEF InSess, SessOf
<1>5. CASE ReadSend(c) /\ op[c] = "read"
  <2>1. /\ UNCHANGED <<objResp, rx, given, bits, want, got, sess, op, ret>>
        /\ pc[c] = "send" /\ pc'[c] = "await"
        /\ \A d \in Callers \ {c} : pc'[d] = pc[d]
        /\ Put(c, "read", len[c])
    BY <1>0, <1>5 DEF ReadSend, Goto
  <2>2. KeepsItems("act") /\ \A d \in Callers \ {c} : asked'[d] = asked[d]
    <3>0. PICK n \in Nat : n = len[c]
      BY <1>0
    <3>1. Put(c, "read", n) /\ given' = given /\ "act" # "read"
      BY <2>1, <3>0
    <3>2. KeepsItems("act")
      BY <1>0, <3>1, PutFacts DEF KeepsItems
    <3>3. \A d \in Callers \ {c} : asked'[d] = asked[d]
      BY <1>0, <3>1 DEF Put
    <3> QED BY <3>2, <3>3
  <2> QED BY <1>1, <1>2, <1>5, <2>1, <2>2 DEF InSess, SessOf
<1>6. CASE \/ ReadAwait(c)
           \/ WaitTimesOut(c) /\ pc[c] = "data_wait"
  <2>1. /\ UNCHANGED <<objResp, rx, tx, given, asked, sess, op, ret>>
        /\ pc[c] \in {"await", "data_wait"} /\ pc'[c] = "data_wait"
        /\ \A d \in Callers \ {c} :
             pc'[d] = pc[d] /\ want'[d] = want[d] /\ got'[d] = got[d]
        /\ \A x : x # "data" => (x \in bits' <=> x \in bits)
    <3>1. CASE ReadAwait(c)
      BY <1>0, <3>1 DEF ReadAwait, Goto, WaitBits
    <3>2. CASE WaitTimesOut(c) /\ pc[c] = "data_wait"
      BY <1>0, <3>2 DEF WaitTimesOut, WaitExpires
    <3> QED BY <1>6, <3>1, <3>2
  <2>2. KeepsItems("act")
    BY <2>1, KeptItems
  <2>3. bits' \cap StatusBits = bits \cap StatusBits
    BY <2>1 DEF StatusBits
  <2> QED BY <1>1, <1>2, <2>1, <2>2, <2>3 DEF InSess, SessOf
<1>7. CASE ReadReturn(c) /\ op[c] = "read"
  <2>1. /\ UNCHANGED <<objResp, rx, tx, given, bits, asked, want, got, sess, op>>
        /\ pc[c] = "return" /\ pc'[c] = "idle"
        /\ \A d \in Callers \ {c} : pc'[d] = pc[d] /\ ret'[d] = ret[d]
    BY <1>0, <1>7 DEF ReadReturn, Return, Goto
  <2>2. KeepsItems("act")
    BY <2>1, KeptItems
  <2> QED BY <1>1, <1>2, <1>7, <2>1, <2>2 DEF InSess, SessOf
<1> QED BY <1>3, <1>4, <1>5, <1>6, <1>7
\* The stages without those a caller at this point cannot be at.
LEMMA StageFacts ==
  ASSUME SessInv, NEW c \in Callers, InSession(c)
  PROVE  /\ op[c] = "session" /\ ret[c] = 0 /\ SessStage(c)
         /\ op[c] \in Ops[c] \cup {"none"}
BY DEF SessInv, SessOf, InSession, InSess

\* Steps of the caller in a session.
LEMMA SessCaller ==
  ASSUME OneSessionTask, TypeOK, SessInv, WaitsInv, prompt, NEW c \in Callers,
         \/ Exec(c) /\ op[c] = "session" /\ Put(c, "act", 0) /\ Goto(c, "status")
         \/ AwaitStatus(c) \/ StatusDone(c) \/ AwaitResp(c) \/ RespDone(c)
         \/ WaitTimesOut(c) /\ pc[c] # "data_wait"
  PROVE  SessInv'
<1> USE DEF callerVars, parserVars, history, groupVars
<1>0. /\ pc \in [Callers -> PcLabels] /\ op \in [Callers -> OpKinds \cup {"none"}]
      /\ want \in [Callers -> SUBSET BitNames] /\ ret \in [Callers -> Nat]
      /\ got \in [Callers -> SUBSET BitNames] /\ bits \in SUBSET BitNames
      /\ given \in Seq(Seq(Lines)) /\ tx \in Seq(Requests)
      /\ asked \in [Callers -> Nat] /\ sess \in [Callers -> Nat]
  BY HttpTypes
<1>1. CASE Exec(c) /\ op[c] = "session" /\ Put(c, "act", 0) /\ Goto(c, "status")
  <2>1. /\ UNCHANGED <<objResp, rx, given, bits, want, got, sess, op, ret>>
        /\ pc[c] = "exec" /\ pc'[c] = "status" /\ op[c] = "session"
        /\ \A d \in Callers \ {c} : pc'[d] = pc[d]
    BY <1>0, <1>1 DEF Exec, Goto
  <2>2. NoItem("act") /\ Clean
    <3>1. \A d \in Callers : ~InSession(d)
      BY <2>1, SessAlone DEF InSession, InSess
    <3> QED BY <3>1 DEF SessInv
  <2>3. JustItem([type |-> "act", len |-> 0], asked[c])'
    <3>1. 0 \in Nat /\ "act" \in {"act", "read"}
      OBVIOUS
    <3> QED BY <1>0, <1>1, <2>1, <2>2, <3>1, PutFacts
  <2>4. SessAsked(c)'
    <3> DEFINE x == [type |-> "act", len |-> 0]
    <3> HIDE DEF x
    <3>1. JustItem(x, asked[c])'
      BY <2>3 DEF x
    <3>2. Clean' /\ AwaitsStatus(c)'
      BY <2>1, <2>2 DEF Clean, AwaitsStatus
    <3> QED BY <3>1, <3>2 DEF SessAsked, x
  <2>5. SessOf(c)' /\ InSession(c)'
    <3>1. SessOf(c)
      BY DEF SessInv
    <3> QED BY <2>1, <2>4, <3>1 DEF SessOf, SessStage, InSession, InSess
  <2>6. \A d \in Callers \ {c} : asked'[d] = asked[d]
    BY <1>0, <1>1 DEF Put
  <2> QED BY <2>1, <2>5, <2>6, SessOne
<1>2. CASE \/ AwaitStatus(c) \/ StatusDone(c) \/ AwaitResp(c) \/ RespDone(c)
           \/ WaitTimesOut(c) /\ pc[c] # "data_wait"
  <2>1. InSession(c)
    <3>1. CASE WaitTimesOut(c) /\ pc[c] # "data_wait"
      BY <1>0, <3>1 DEF WaitTimesOut, WaitsInv, WaitedFor, InSession, InSess
    <3> QED BY <1>2, <3>1
            DEF AwaitStatus, StatusDone, AwaitResp, RespDone, InSession, InSess
  <2>2. /\ op[c] = "session" /\ ret[c] = 0 /\ op[c] \in Ops[c] \cup {"none"}
        /\ \/ SessAsked(c)
           \/ /\ NoItem("act")
              /\ \/ SessSilent(c) \/ SessFailing(c) \/ SessFailed(c)
                 \/ SessComing(c) \/ SessStatus(c) \/ SessHeader(c)
    BY <2>1, StageFacts DEF SessStage
  <2>3. /\ UNCHANGED <<objResp, rx, tx, given, asked, op>>
        /\ \A d \in Callers \ {c} : pc'[d] = pc[d] /\ ret'[d] = ret[d] /\ sess'[d] = sess[d]
    BY <1>0, <1>2 DEF AwaitStatus, StatusDone, AwaitResp, RespDone, WaitTimesOut, Goto
  <2>4. /\ NoItem("act") => NoItem("act")'
        /\ NoneOf(rx, OfSess) => NoneOf(rx', OfSess)
    BY <2>3 DEF NoItem
  <2>5. ASSUME AwaitsStatus(c)', bits' \cap StatusBits = bits \cap StatusBits
        PROVE  /\ SessAsked(c) => SessAsked(c)'
               /\ SessFailing(c) => SessFailing(c)'
               /\ SessComing(c) => SessComing(c)'
               /\ SessSilent(c) => SessSilent(c)'
    <3>1. SessAsked(c) => SessAsked(c)'
      <4> SUFFICES ASSUME SessAsked(c) PROVE SessAsked(c)'
        OBVIOUS
      <4> DEFINE x == [type |-> "act", len |-> 0]
      <4> HIDE DEF x
      <4>1. JustItem(x, asked[c])' /\ Clean'
        BY <2>3, <2>5 DEF SessAsked, x, JustItem, Clean
      <4> QED BY <2>5, <4>1 DEF SessAsked, x
    <3> QED BY <2>3, <2>5, <3>1 DEF SessFailing, SessComing, SessSilent, Clean
  <2>6. ASSUME pc'[c] \in {"status_wait", "resp", "resp_wait"}, ret'[c] = ret[c],
               SessStage(c)'
        PROVE  SessInv'
    <3>1. SessOf(c)' /\ InSession(c)'
      BY <2>2, <2>3, <2>6 DEF SessOf, InSession, InSess
    <3> QED BY <2>2, <2>3, <3>1, SessOne
  <2>7. ASSUME pc'[c] = "idle", ret'[c] = 1 => sess'[c] = asked[c],
               NoItem("act"), Clean, bits' = bits
        PROVE  SessInv'
    <3>1. SessOf(c)' /\ NoItem("act")' /\ Clean'
      BY <2>2, <2>3, <2>4, <2>7 DEF SessOf, InSession, InSess, Clean
    <3> QED BY <2>2, <2>3, <3>1, SessOne
  <2>8. CASE AwaitStatus(c)
    <3>1. /\ pc[c] = "status" /\ pc'[c] = "status_wait" /\ ret'[c] = ret[c]
          /\ want[c] = {}
      BY <1>0, <2>8 DEF AwaitStatus, Goto, WaitsInv, WaitedFor
    <3>2. /\ bits \cap {"success", "fail"} = {} =>
               bits' = bits /\ want'[c] = {"success", "fail"}
          /\ bits \cap {"success", "fail"} # {} =>
               /\ bits' = bits \ {"success", "fail"} /\ want'[c] = {}
               /\ got'[c] = bits \cap {"success", "fail"}
      BY <1>0, <2>8, <3>1 DEF AwaitStatus, WaitBits
    <3>3. CASE SessAsked(c) \/ SessSilent(c) \/ SessFailing(c) \/ SessComing(c)
      <4>1. bits \cap StatusBits = {}
        BY <3>3 DEF SessAsked, SessSilent, SessFailing, SessComing, Clean
      <4>2. AwaitsStatus(c)' /\ bits' = bits
        BY <3>1, <3>2, <4>1 DEF AwaitsStatus, StatusBits
      <4>3. SessStage(c)'
        BY <2>2, <2>4, <2>5, <3>1, <3>3, <4>2
           DEF SessStage, SessAsked, SessFailing, SessComing, SessSilent
      <4> QED BY <2>6, <3>1, <4>3
    <3>4. CASE NoItem("act") /\ SessFailed(c)
      <4>1. /\ bits' \cap StatusBits = {} /\ want'[c] = {} /\ "success" \notin got'[c]
            /\ NoneOf(rx', OfSess)
        BY <2>4, <3>2, <3>4 DEF SessFailed, StatusBits
      <4>2. SessStage(c)'
        BY <2>4, <3>1, <3>4, <4>1 DEF SessStage, SessSilent, Clean
      <4> QED BY <2>6, <3>1, <4>2
    <3>5. CASE NoItem("act") /\ SessStatus(c)
      <4>1. JustOne(rx, OfSess, Line("res", asked[c])) /\ bits \cap StatusBits = {"success"}
        BY <3>1, <3>5 DEF SessStatus, HasStatus
      <4>2. bits' \cap StatusBits = {} /\ want'[c] = {} /\ "success" \in got'[c]
        BY <3>2, <4>1 DEF StatusBits
      <4>3. JustOne(rx', OfSess, Line("res", asked'[c]))
        BY <2>3, <4>1
      <4>4. SessStage(c)'
        BY <2>4, <3>1, <3>5, <4>2, <4>3 DEF SessStage, SessStatus, HasStatus
      <4> QED BY <2>6, <3>1, <4>4
    <3>6. CASE NoItem("act") /\ SessHeader(c)
      <4>1. bits \cap StatusBits = {"success", "resp"}
        BY <3>1, <3>6 DEF SessHeader, HasStatus
      <4>2. bits' \cap StatusBits = {"resp"} /\ want'[c] = {} /\ "success" \in got'[c]
        BY <3>2, <4>1 DEF StatusBits
      <4>3. SessStage(c)'
        BY <2>3, <2>4, <3>1, <3>6, <4>2 DEF SessStage, SessHeader, HasStatus
      <4> QED BY <2>6, <3>1, <4>3
    <3> QED BY <2>2, <3>3, <3>4, <3>5, <3>6
  <2>9. CASE StatusDone(c)
    <3>1. /\ pc[c] = "status_wait" /\ want[c] = {} /\ UNCHANGED <<bits, want, got, ret>>
          /\ pc'[c] = IF "success" \in got[c] THEN "resp" ELSE "idle"
      BY <1>0, <2>9 DEF StatusDone, Goto
    <3>2. ~AwaitsStatus(c)
      BY <3>1 DEF AwaitsStatus
    <3>3. NoItem("act") /\ (SessSilent(c) \/ SessStatus(c) \/ SessHeader(c))
      BY <2>2, <3>1, <3>2 DEF SessAsked, SessFailing, SessFailed, SessComing
    <3>4. CASE SessSilent(c)
      <4>1. "success" \notin got[c] /\ Clean
        BY <3>1, <3>2, <3>4 DEF SessSilent
      <4> QED BY <2>2, <2>7, <3>1, <3>3, <4>1
    <3>5. CASE SessStatus(c) \/ SessHeader(c)
      <4>1. "success" \in got[c]
        BY <3>1, <3>5 DEF SessStatus, SessHeader, HasStatus
      <4>2. SessStatus(c)' \/ SessHeader(c)'
        BY <2>3, <3>1, <3>5, <4>1 DEF SessStatus, SessHeader, HasStatus
      <4>3. SessStage(c)'
        BY <2>4, <3>3, <4>2 DEF SessStage
      <4> QED BY <2>6, <3>1, <4>1, <4>3
    <3> QED BY <3>3, <3>4, <3>5
  <2>10. CASE AwaitResp(c)
    <3>1. /\ pc[c] = "resp" /\ pc'[c] = "resp_wait" /\ ret' = ret /\ want[c] = {}
      BY <1>0, <2>10 DEF AwaitResp, Goto, WaitsInv, WaitedFor
    <3>2. /\ "resp" \notin bits => bits' = bits /\ want'[c] = {"resp"}
          /\ "resp" \in bits => bits' = bits \ {"resp"} /\ want'[c] = {}
      BY <1>0, <2>10, <3>1 DEF AwaitResp, WaitBits
    <3>3. NoItem("act") /\ (SessStatus(c) \/ SessHeader(c))
      BY <2>2, <3>1 DEF SessAsked, SessSilent, SessFailing, SessFailed, SessComing,
                        AwaitsStatus
    <3>4. SessStatus(c)' \/ SessHeader(c)'
      <4>1. CASE SessStatus(c)
        <5>1. "resp" \notin bits /\ bits \cap StatusBits = {}
          BY <3>1, <4>1 DEF SessStatus, StatusBits
        <5> QED BY <2>3, <3>1, <3>2, <4>1, <5>1 DEF SessStatus
      <4>2. CASE SessHeader(c)
        <5>1. bits \cap StatusBits = {"resp"}
          BY <3>1, <4>2 DEF SessHeader
        <5>2. bits' \cap StatusBits = {} /\ want'[c] = {}
          BY <3>2, <5>1 DEF StatusBits
        <5> QED BY <2>3, <3>1, <4>2, <5>2 DEF SessHeader
      <4> QED BY <3>3, <4>1, <4>2
    <3>5. SessStage(c)'
      BY <2>4, <3>3, <3>4 DEF SessStage
    <3> QED BY <2>6, <3>1, <3>5
  <2>11. CASE RespDone(c)
    <3>1. /\ pc[c] = "resp_wait" /\ want[c] = {} /\ bits' = bits /\ pc'[c] = "idle"
          /\ \/ ret' = ret
             \/ sess' = [sess EXCEPT ![c] = objResp]
      BY <1>0, <2>11 DEF RespDone, Goto
    <3>2. NoItem("act") /\ SessHeader(c)
      BY <2>2, <3>1 DEF SessAsked, SessSilent, SessFailing, SessFailed, SessComing,
                        AwaitsStatus, SessStatus, HasStatus
    <3>3. Clean /\ objResp = asked[c]
      BY <3>1, <3>2 DEF SessHeader, HasStatus, Clean
    <3>4. ret'[c] = 1 => sess'[c] = asked[c]
      BY <1>0, <2>2, <3>1, <3>3
    <3> QED BY <2>7, <3>1, <3>2, <3>3, <3>4
  <2>12. CASE WaitTimesOut(c)
    <3>1. /\ want[c] # {} /\ Quiet /\ want' = [want EXCEPT ![c] = {}]
          /\ UNCHANGED <<bits, got, pc, ret>>
      BY <2>12 DEF WaitTimesOut, WaitExpires
    <3>2. got[c] = {} /\ pc[c] \in {"status_wait", "resp_wait"}
      BY <1>0, <2>1, <3>1 DEF WaitsInv, WaitedFor, InSession, InSess
    <3>3. /\ ~SessAsked(c) /\ ~SessFailing(c) /\ ~SessComing(c) /\ ~SessStatus(c)
      BY <3>1 DEF SessAsked, JustItem, Quiet, SessFailing, SessComing, SessStatus,
                  JustOne, JustTwo
    <3>4. ~SessFailed(c) /\ ~SessHeader(c)
      BY <3>1, <3>2 DEF SessFailed, SessHeader, HasStatus
    <3>5. NoItem("act") /\ SessSilent(c)
      BY <2>2, <3>3, <3>4
    <3>6. pc[c] = "status_wait"
      BY <3>2, <3>5 DEF SessSilent, AwaitsStatus
    <3>7. SessSilent(c)'
      BY <1>0, <2>4, <3>1, <3>2, <3>5, <3>6 DEF SessSilent, Clean
    <3>8. SessStage(c)'
      BY <2>4, <3>5, <3>7 DEF SessStage
    <3> QED BY <2>6, <3>1, <3>6, <3>8
  <2> QED BY <1>2, <2>8, <2>9, <2>10, <2>11, <2>12
<1> QED BY <1>1, <1>2
\* A line of a session goes to the caller that is in one.
LEMMA SessLine ==
  ASSUME OneSessionTask, TypeOK, SessInv, WaitsInv, HandleStatus \/ HandleResp
  PROVE  SessInv'
<1> USE DEF callerVars, parserVars, history, groupVars
<1>0. /\ rx \in Seq(Lines) /\ want \in [Callers -> SUBSET BitNames]
      /\ bits \in SUBSET BitNames
  BY HttpTypes
<1>1. /\ rx # <<>> /\ rx' = Tail(rx) /\ Head(rx).kind \in OfSess
      /\ UNCHANGED <<tx, given, asked, op, pc, ret, sess>>
      /\ Head(rx).kind \in {"success", "fail"} => SetBits({Head(rx).kind})
      /\ Head(rx).kind = "res" => SetBits({"resp"}) /\ objResp' = Head(rx).num
      /\ Head(rx).kind # "res" => objResp' = objResp
  BY DEF HandleStatus, HandleResp, OfSess
<1>2. ~NoneOf(rx, OfSess)
  BY <1>0, <1>1, TailOne
<1>3. PICK c \in Callers : InSession(c)
  BY <1>2 DEF SessInv, Clean
<1>4. /\ op[c] = "session" /\ ret[c] = 0 /\ op[c] \in Ops[c] \cup {"none"}
      /\ SessStage(c)
  BY <1>3, StageFacts
<1>5. NoItem("act") /\ (SessFailing(c) \/ SessComing(c) \/ SessStatus(c))
  BY <1>2, <1>4 DEF SessStage, SessAsked, SessSilent, SessFailed, SessHeader, Clean
<1>6. NoItem("act")'
  BY <1>1, <1>5 DEF NoItem
<1>7. ASSUME SessStage(c)' PROVE SessInv'
  <2>1. SessOf(c)' /\ InSession(c)'
    BY <1>1, <1>3, <1>4, <1>7 DEF SessOf, InSession, InSess
  <2> QED BY <1>1, <1>4, <2>1, SessOne
<1>8. \A d \in Callers \ {c} : want[d] \cap StatusBits = {}
  <2>1. \A d \in Callers \ {c} : ~InSession(d)
    BY <1>4, SessAlone
  <2> QED BY <2>1 DEF WaitsInv, WaitedFor, InSession, InSess, StatusBits
\* What setting a bit of a session does.
<1>9. ASSUME NEW b \in StatusBits, SetBits({b})
      PROVE  /\ b \in want[c] => /\ want'[c] = {} /\ got'[c] = bits \cup {b}
                                 /\ b \notin bits'
             /\ b \notin want[c] => want'[c] = want[c] /\ got'[c] = got[c] /\ b \in bits'
             /\ \A x \in StatusBits \ {b} :
                  (x \in want[c] => x \notin bits') /\ (x \in bits' => x \in bits)
             /\ \A x \in StatusBits \ {b} :
                  b \notin want[c] => (x \in bits' <=> x \in bits)
  <2>1. b \in BitNames /\ StatusBits \subseteq BitNames
    BY DEF StatusBits, BitNames
  <2>2. \A d \in Callers : b \in want[d] => d = c
    BY <1>8, <1>9
  <2>3. want[c] \cap bits = {}
    BY DEF WaitsInv
  <2>4. /\ IF b \in want[c] THEN want'[c] = {} /\ got'[c] = bits \cup {b}
                            ELSE want'[c] = want[c] /\ got'[c] = got[c]
        /\ \A x \in BitNames \ {b} :
             x \in bits' <=> /\ x \in bits
                             /\ ~\E d \in Callers : b \in want[d] /\ x \in want[d]
        /\ b \in bits' <=> ~\E d \in Callers : b \in want[d]
    BY <1>9, <2>1, SetOne
  <2> QED BY <2>1, <2>2, <2>3, <2>4
<1>10. \A k, n : Line(k, n).kind = k /\ Line(k, n).num = n
  BY DEF Line
<1>11. CASE SessFailing(c)
  <2>1. Head(rx) = Line("fail", asked[c]) /\ NoneOf(rx', OfSess)
    BY <1>0, <1>1, <1>11, TailOne DEF SessFailing
  <2>2. Head(rx).kind = "fail"
    BY <1>10, <2>1
  <2>3. SetBits({"fail"}) /\ "fail" \in StatusBits
    BY <1>1, <2>2 DEF StatusBits
  <2>4. bits \cap StatusBits = {} /\ AwaitsStatus(c)
    BY <1>11 DEF SessFailing
  <2>5. CASE pc[c] = "status"
    <3>1. "fail" \notin want[c]
      BY <2>5 DEF WaitsInv, WaitedFor
    <3>2. bits' \cap StatusBits = {"fail"}
      BY <1>9, <2>3, <2>4, <3>1
    <3>3. SessFailed(c)'
      BY <1>1, <2>1, <2>5, <3>2 DEF SessFailed
    <3> QED BY <1>6, <1>7, <3>3 DEF SessStage
  <2>6. CASE pc[c] = "status_wait" /\ want[c] = {"success", "fail"}
    <3>1. /\ want'[c] = {} /\ got'[c] = bits \cup {"fail"}
          /\ bits' \cap StatusBits = {}
      BY <1>9, <2>3, <2>4, <2>6
    <3>2. "success" \notin got'[c]
      BY <2>4, <3>1 DEF StatusBits
    <3>3. SessSilent(c)'
      BY <1>1, <2>1, <2>6, <3>1, <3>2 DEF SessSilent, Clean
    <3> QED BY <1>6, <1>7, <3>3 DEF SessStage
  <2> QED BY <2>4, <2>5, <2>6 DEF AwaitsStatus
<1>12. CASE SessComing(c)
  <2>1. /\ Head(rx) = Line("success", asked[c])
        /\ JustOne(rx', OfSess, Line("res", asked[c]))
    <3>1. PICK x, y : x = Line("success", asked[c]) /\ y = Line("res", asked[c])
      OBVIOUS
    <3>2. JustTwo(rx, OfSess, x, y)
      BY <1>12, <3>1 DEF SessComing
    <3>3. Head(rx) = x /\ JustOne(Tail(rx), OfSess, y)
      BY <1>0, <1>1, <3>2, TailOne
    <3> QED BY <1>1, <3>1, <3>3
  <2>2. Head(rx).kind = "success"
    BY <1>10, <2>1
  <2>3. SetBits({"success"}) /\ "success" \in StatusBits
    BY <1>1, <2>2 DEF StatusBits
  <2>4. bits \cap StatusBits = {} /\ AwaitsStatus(c)
    BY <1>12 DEF SessComing
  <2>5. JustOne(rx', OfSess, Line("res", asked'[c]))
    BY <1>1, <2>1
  <2>6. CASE pc[c] = "status"
    <3>1. "success" \notin want[c]
      BY <2>6 DEF WaitsInv, WaitedFor
    <3>2. bits' \cap StatusBits = {"success"}
      BY <1>9, <2>3, <2>4, <3>1
    <3>3. SessStatus(c)'
      BY <1>1, <2>5, <2>6, <3>2 DEF SessStatus
    <3> QED BY <1>6, <1>7, <3>3 DEF SessStage
  <2>7. CASE pc[c] = "status_wait" /\ want[c] = {"success", "fail"}
    <3>1. /\ want'[c] = {} /\ got'[c] = bits \cup {"success"}
          /\ bits' \cap StatusBits = {}
      BY <1>9, <2>3, <2>4, <2>7
    <3>2. HasStatus(c)'
      BY <1>1, <2>7, <3>1 DEF HasStatus
    <3>3. SessStatus(c)'
      BY <2>5, <3>1, <3>2 DEF SessStatus
    <3> QED BY <1>6, <1>7, <3>3 DEF SessStage
  <2> QED BY <2>4, <2>6, <2>7 DEF AwaitsStatus
<1>13. CASE SessStatus(c)
  <2>1. Head(rx) = Line("res", asked[c]) /\ NoneOf(rx', OfSess)
    BY <1>0, <1>1, <1>13, TailOne DEF SessStatus
  <2>2. Head(rx).kind = "res" /\ Head(rx).num = asked[c]
    BY <1>10, <2>1
  <2>3. SetBits({"resp"}) /\ "resp" \in StatusBits /\ objResp' = asked'[c]
    BY <1>1, <2>2 DEF StatusBits
  <2>4. \/ bits \cap StatusBits = {"success"} /\ pc[c] = "status"
        \/ bits \cap StatusBits = {} /\ HasStatus(c)
        \/ /\ bits \cap StatusBits = {}
           /\ pc[c] = "resp_wait" /\ want[c] = {"resp"}
    BY <1>13 DEF SessStatus
  <2>5. CASE pc[c] \in {"status", "status_wait", "resp"}
    <3>1. "resp" \notin want[c]
      BY <2>5 DEF WaitsInv, WaitedFor
    <3>2. /\ want'[c] = want[c] /\ got'[c] = got[c] /\ "resp" \in bits'
          /\ \A x \in StatusBits \ {"resp"} : x \in bits' <=> x \in bits
      BY <1>9, <2>3, <3>1
    <3>3. SessHeader(c)'
      <4>1. CASE bits \cap StatusBits = {"success"} /\ pc[c] = "status"
        <5>1. bits' \cap StatusBits = {"success", "resp"}
          BY <2>3, <3>2, <4>1
        <5> QED BY <1>1, <2>1, <2>3, <4>1, <5>1 DEF SessHeader
      <4>2. CASE bits \cap StatusBits = {} /\ HasStatus(c)
        <5>1. bits' \cap StatusBits = {"resp"}
          BY <2>3, <3>2, <4>2
        <5>2. HasStatus(c)'
          BY <1>1, <3>2, <4>2 DEF HasStatus
        <5> QED BY <2>1, <2>3, <5>1, <5>2 DEF SessHeader
      <4> QED BY <2>4, <2>5, <4>1, <4>2
    <3> QED BY <1>6, <1>7, <3>3 DEF SessStage
  <2>6. CASE bits \cap StatusBits = {} /\ pc[c] = "resp_wait" /\ want[c] = {"resp"}
    <3>1. want'[c] = {} /\ bits' \cap StatusBits = {}
      BY <1>9, <2>3, <2>6
    <3>2. SessHeader(c)'
      BY <1>1, <2>1, <2>3, <2>6, <3>1 DEF SessHeader
    <3> QED BY <1>6, <1>7, <3>2 DEF SessStage
  <2> QED BY <2>4, <2>5, <2>6 DEF HasStatus
<1> QED BY <1>5, <1>11, <1>12, <1>13

\* The modem serves the session, or something else.
LEMMA SessServed ==
  ASSUME OneSessionTask, TypeOK, SessInv, ModemServe
  PROVE  SessInv'
<1> USE DEF callerVars, parserVars, history, groupVars
<1>0. /\ given \in Seq(Seq(Lines)) /\ rx \in Seq(Lines) /\ tx \in Seq(Requests)
      /\ asked \in [Callers -> Nat]
  BY HttpTypes
<1>1. UNCHANGED <<objResp, op, pc, asked, ret, sess, want, got, bits>>
  BY DEF ModemServe
<1>2. PICK item : item = Head(tx)
  OBVIOUS
<1>3. PICK num \in Nat : num = Len(given) + 1
  BY <1>0
<1>4. /\ item \in Requests /\ given'[num] \in Replies(item, num)
      /\ rx' = rx \o given'[num]
  BY <1>0, <1>2, <1>3, ServeFacts
<1>5. PICK a \in Replies(item, num) : a = given'[num]
  BY <1>4
<1>6. CASE item.type = "read"
  <2>1. KeepsItems("act")
    <3>1. \A t : t # "read" => (NoItem(t) => NoItem(t)')
      BY <1>0, <1>2, <1>6, ServeFacts
    <3>2. \A x, n : x.type # "read" /\ JustItem(x, n) => JustItem(x, n)'
      BY <1>0, <1>2, <1>6, ServeFacts
    <3>3. \A l : [type |-> "act", len |-> l].type # "read"
      OBVIOUS
    <3> QED BY <3>1, <3>2, <3>3, Zenon DEF KeepsItems
  <2>2. KeepsLines(OfSess)
    <3>1. NoneOf(a, OfSess) /\ a \in Seq(Lines) /\ rx' = rx \o a
      BY <1>4, <1>5, <1>6, ReplyFacts
    <3> QED BY <1>0, <3>1, CatOther DEF KeepsLines
  <2> QED BY <1>1, <2>1, <2>2, SessSame
<1>7. CASE item.type = "act"
  <2>1. ~NoItem("act")
    BY <1>0, <1>2, <1>7, ServeFacts
  <2>2. PICK c \in Callers : InSession(c)
    BY <2>1 DEF SessInv
  <2>3. /\ op[c] = "session" /\ ret[c] = 0 /\ op[c] \in Ops[c] \cup {"none"}
        /\ SessAsked(c)
    BY <2>1, <2>2, StageFacts DEF SessStage
  <2>4. asked[c] = num /\ NoItem("act")'
    <3> DEFINE x == [type |-> "act", len |-> 0]
    <3>1. x.type = "act" /\ JustItem(x, asked[c])
      BY <2>3 DEF SessAsked
    <3> HIDE DEF x
    <3>2. PICK y, n : y = x /\ n = asked[c]
      OBVIOUS
    <3>3. y.type = Head(tx).type /\ JustItem(y, n)
      BY <1>2, <1>7, <3>1, <3>2
    <3>4. n = Len(given) + 1 /\ NoItem(y.type)'
      BY <1>0, <3>3, ServeFacts
    <3>5. NoItem("act")'
      BY <3>1, <3>2, <3>4
    <3> QED BY <1>3, <3>2, <3>4, <3>5
  <2>5. NoneOf(rx, OfSess) /\ bits' \cap StatusBits = {} /\ AwaitsStatus(c)'
    BY <1>1, <2>3 DEF SessAsked, Clean, AwaitsStatus
  <2>6. ASSUME SessSilent(c)' \/ SessFailing(c)' \/ SessComing(c)' PROVE SessInv'
    <3>1. SessStage(c)'
      BY <2>4, <2>6 DEF SessStage
    <3>2. SessOf(c)' /\ InSession(c)'
      BY <1>1, <2>2, <2>3, <3>1 DEF SessOf, InSession, InSess
    <3> QED BY <1>1, <2>3, <3>2, SessOne
  <2>7. /\ rx' = rx \o a
        /\ \/ a = <<>> \/ a = <<Line("fail", num)>>
           \/ a = <<Line("success", num), Line("res", num)>>
    BY <1>4, <1>5, <1>7, ReplyFacts
  <2>8. CASE a = <<>>
    <3>1. NoneOf(rx', OfSess)
      <4>1. NoneOf(a, OfSess) /\ a \in Seq(Lines)
        BY <2>8 DEF NoneOf
      <4> QED BY <1>0, <2>5, <2>7, <4>1, CatOther
    <3> QED BY <2>5, <2>6, <3>1 DEF SessSilent, Clean
  <2> DEFINE f == Line("fail", num)
             s == Line("success", num)
             r == Line("res", num)
  <2>9. /\ f \in Lines /\ s \in Lines /\ r \in Lines
        /\ f.kind \in OfSess /\ s.kind \in OfSess /\ r.kind \in OfSess
    BY DEF Line, Lines, OfSess
  <2>10. /\ f = Line("fail", asked'[c]) /\ s = Line("success", asked'[c])
         /\ r = Line("res", asked'[c])
    BY <1>1, <2>4
  <2>11. a = <<>> \/ a = <<f>> \/ a = <<s, r>>
    BY <2>7
  <2> HIDE DEF f, s, r
  <2>12. CASE a = <<f>>
    <3>1. JustOne(rx', OfSess, f)
      BY <1>0, <2>5, <2>7, <2>9, <2>12, CatOne
    <3>2. SessFailing(c)'
      BY <2>5, <2>10, <3>1 DEF SessFailing
    <3> QED BY <2>6, <3>2
  <2>13. CASE a = <<s, r>>
    <3>1. JustTwo(rx', OfSess, s, r)
      BY <1>0, <2>5, <2>7, <2>9, <2>13, CatOne
    <3>2. SessComing(c)'
      BY <2>5, <2>10, <3>1 DEF SessComing
    <3> QED BY <2>6, <3>2
  <2> QED BY <2>8, <2>11, <2>12, <2>13
<1> QED BY <1>4, <1>6, <1>7 DEF Requests

\* The handler's steps with a reply to a read do not concern a session.
LEMMA SessOtherLine ==
  ASSUME TypeOK, WaitsInv, SessInv,
         \/ HandleData \/ HandlerTake \/ HandlerCheck \/ HandlerCopy
         \/ HandlerSetLen \/ HandlerGive
  PROVE  SessInv'
<1> USE DEF callerVars, parserVars, history, groupVars
<1>0. rx \in Seq(Lines) /\ want \in [Callers -> SUBSET BitNames]
  BY HttpTypes
<1>1. UNCHANGED <<objResp, op, pc, asked, ret, sess, tx, given>>
  BY DEF HandleData, HandlerTake, HandlerCheck, HandlerCopy, HandlerSetLen,
         HandlerGive
<1>2. KeepsItems("act")
  BY <1>1, KeptItems
<1>3. KeepsLines(OfSess)
  <2>1. CASE HandleData
    <3>1. rx # <<>> /\ rx' = Tail(rx) /\ Head(rx).kind \notin OfSess
      BY <2>1 DEF HandleData, OfSess
    <3> QED BY <1>0, <3>1, TailOther DEF KeepsLines
  <2>2. CASE \/ HandlerTake \/ HandlerCheck \/ HandlerCopy \/ HandlerSetLen
             \/ HandlerGive
    <3>1. rx' = rx
      BY <2>2 DEF HandlerTake, HandlerCheck, HandlerCopy, HandlerSetLen, HandlerGive
    <3> QED BY <3>1, KeptLines
  <2> QED BY <2>1, <2>2
<1>4. CASE HandlerSetLen
  <2>1. SetBits({"data"}) /\ "data" \in BitNames
    BY <1>4 DEF HandlerSetLen, BitNames
  <2>2. \A d \in Callers : "data" \in want[d] => pc[d] = "data_wait"
    BY DEF WaitsInv, WaitedFor
  <2>3. bits' \cap StatusBits = bits \cap StatusBits
    <3>1. \A d \in Callers : "data" \in want[d] => want[d] \cap StatusBits = {}
      BY <2>2 DEF WaitsInv, WaitedFor, StatusBits
    <3>2. \A x \in StatusBits : x \in BitNames \ {"data"}
      BY DEF StatusBits, BitNames
    <3>3. \A x \in StatusBits : x \in bits' <=> x \in bits
      BY <2>1, <3>1, <3>2, SetOne
    <3> QED BY <3>3
  <2>4. ASSUME NEW d \in Callers
        PROVE  \/ /\ pc'[d] = pc[d] /\ op'[d] = op[d] /\ asked'[d] = asked[d]
                  /\ want'[d] = want[d] /\ got'[d] = got[d] /\ ret'[d] = ret[d]
                  /\ sess'[d] = sess[d]
               \/ /\ pc[d] \notin InSess /\ pc'[d] \notin InSess
                  /\ op'[d] \in Ops[d] \cup {"none"}
                  /\ op'[d] = "session" => ret'[d] = 0
    <3>1. SessOf(d)
      BY DEF SessInv
    <3>2. IF "data" \in want[d] THEN pc[d] = "data_wait"
                                ELSE want'[d] = want[d] /\ got'[d] = got[d]
      BY <2>1, <2>2, SetOne
    <3> QED BY <1>1, <3>1, <3>2 DEF InSess, SessOf
  <2> QED BY <1>1, <1>2, <1>3, <2>3, <2>4, SessSame
<1>5. CASE ~HandlerSetLen
  <2>1. UNCHANGED <<bits, want, got>>
    BY <1>5 DEF HandleData, HandlerTake, HandlerCheck, HandlerCopy, HandlerGive
  <2> QED BY <1>1, <1>2, <1>3, <2>1, SessSame
<1> QED BY <1>4, <1>5

\* Every step keeps a session where it can be.
LEMMA SessNext ==
  ASSUME OneSessionTask, IInv, prompt, WaitsInv, ReadInv, SessInv, [Next]_vars
  PROVE  SessInv'
<1>0. TypeOK
  BY DEF IInv
<1>1. ASSUME NEW c \in Callers, CallStep(c) PROVE SessInv'
  <2>1. CASE Exec(c)
    <3>1. \/ op[c] = "session" /\ Put(c, "act", 0) /\ Goto(c, "status")
          \/ UNCHANGED <<tx, asked>>
      BY <2>1 DEF Exec
    <3> QED BY <1>0, <2>1, <3>1, SessCaller, SessElsewhere
  <2>2. CASE ReadSend(c) \/ ReadReturn(c)
    <3>1. pc[c] \in InRead
      BY <2>2 DEF ReadSend, ReadReturn, InRead
    <3>2. op[c] = "read"
      BY <3>1 DEF ReadInv, ReadOf
    <3> QED BY <1>0, <2>2, <3>2, SessElsewhere
  <2> QED BY <1>0, <1>1, <2>1, <2>2, SessCaller, SessElsewhere DEF CallStep
<1>2. ASSUME NEW c \in Callers, NEW o \in OpKinds, NEW n \in Nat, Call(c, o, n)
      PROVE  SessInv'
  <2>1. o \in Ops[c]
    BY <1>2 DEF Call
  <2> QED BY <1>0, <1>2, <2>1, SessElsewhere
<1>3. CASE ParserStep
  BY <1>0, <1>3, SessLine, SessOtherLine DEF ParserStep
<1>4. CASE ModemServe
  BY <1>0, <1>4, SessServed
<1>5. CASE HttpInit \/ Terminated \/ UNCHANGED vars
  <2>1. UNCHANGED <<objResp, op, pc, asked, ret, sess, tx, rx, given, bits, want, got>>
    BY <1>5 DEF HttpInit, Terminated, vars, callerVars, parserVars, history, groupVars
  <2>2. KeepsItems("act") /\ KeepsLines(OfSess)
    BY <2>1, KeptItems, KeptLines
  <2> QED BY <2>1, <2>2, SessSame
<1>6. 0 \in Nat /\ \A c \in Callers : \A n \in Lengths[c] : n \in Nat
  OBVIOUS
<1> QED BY <1>1, <1>2, <1>3, <1>4, <1>5, <1>6 DEF Next, OpKinds

\* The invariant of the reads and of the sessions.
PromptInv == IInv /\ (prompt => WaitsInv /\ ReadInv /\ SessInv)
LEMMA PromptInvariant == ASSUME OneSessionTask PROVE Spec => []PromptInv
<1>1. Init => PromptInv
  BY InvInit, PromptInit DEF PromptInv
<1>2. PromptInv /\ [Next]_vars => PromptInv'
  <2> SUFFICES ASSUME PromptInv, [Next]_vars PROVE PromptInv'
    OBVIOUS
  <2>1. IInv /\ IInv' /\ TypeOK
    BY InvStep DEF PromptInv, IInv
  <2>2. ASSUME prompt' PROVE WaitsInv' /\ ReadInv' /\ SessInv'
    <3>1. prompt /\ WaitsInv /\ ReadInv /\ SessInv
      BY <2>2, PromptSame DEF PromptInv
    <3> QED BY <2>1, <3>1, WaitsNext, ReadNext, SessNext
  <2> QED BY <2>1, <2>2 DEF PromptInv
<1> QED BY <1>1, <1>2, PTL DEF Spec

\* With prompt answers, and sessions opened by one task, the header that
\* mc665_http_read_resp returns is that of the session its caller started last:
\* no bit and no header of an earlier session is taken for it.
THEOREM HeaderIsOwn ==
  ASSUME OneSessionTask PROVE Spec => []HeaderOfThisSession
<1>1. PromptInv => HeaderOfThisSession
  BY DEF PromptInv, SessInv, SessOf, HeaderOfThisSession
<1> QED BY <1>1, PromptInvariant, PTL
=============================================================================

--------------------------- MODULE MC665MqttProofs ---------------------------
(***************************************************************************)
(* Proofs about MC665Mqtt, for every set of callers, every size of the     *)
(* queue, and all timing: events reach the callback once and in order, a   *)
(* message has one owner until it is freed, and a function returns true at *)
(* most once for a confirmation and, if nothing got in its way, exactly    *)
(* for its own.                                                            *)
(*                                                                         *)
(* The argument for the events numbers them: the callback has had the      *)
(* first `delivered' of them, the queue holds the next ones in order, and  *)
(* the handler the last, so no two places hold the same one and the event  *)
(* that the dispatch task frees is in no other place.  The argument for    *)
(* the confirmations counts them: each is a line, a bit, or in the hands   *)
(* of the one task that uses the function.                                 *)
(***************************************************************************)
EXTENDS MC665Mqtt, FiniteSets, FiniteSetTheorems, FunctionTheorems, TLAPS

\* Before mc665_mqtt_init nothing is on its way and nobody calls.
NoneInv ==
  stage = "none" =>
    /\ made = {} /\ rx = <<>> /\ tx = <<>>
    /\ \A c \in Callers : pc[c] = "idle" /\ want[c] = {}
    /\ queue = <<>> /\ ppc = "read" /\ tpc = "receive"
    /\ tmsg = NoEvent /\ pev = NoEvent
    /\ held = {} /\ handled = 0 /\ delivered = 0

QueueType ==
  /\ queue \in Seq(Events) /\ tmsg \in Events /\ pev \in Events
  /\ ppc \in {"read", "message", "enqueue"} /\ tpc \in {"receive", "callback"}
  /\ handled \in Nat /\ delivered \in Nat

\* Where the events are, by their numbers.
Numbered ==
  /\ handled = delivered + Len(queue) + (IF ppc = "enqueue" THEN 1 ELSE 0)
  /\ \A i \in 1 .. Len(queue) : queue[i].num = delivered + i
  /\ IF ppc = "enqueue" THEN pev.num = handled ELSE pev = NoEvent
  /\ IF tpc = "callback" THEN tmsg.num = delivered /\ delivered > 0 ELSE tmsg = NoEvent

\* Message n is with the handler, in the queue or with the dispatch task.
IsMessage(e, n) == e.kind = "data" /\ e.num = n
Owned(n) == \/ IsMessage(tmsg, n) \/ IsMessage(pev, n)
            \/ \E i \in 1 .. Len(queue) : IsMessage(queue[i], n)

Memory == /\ held \subseteq Nat \ {0}
          /\ \A n \in Nat \ {0} : n \in held <=> Owned(n)

ReadyInv == made = Everything /\ QueueType /\ Numbered /\ Memory

IInv == NoneInv /\ (stage = "ready" => ReadyInv)

-----------------------------------------------------------------------------
\* A step that neither breaks the program nor leaves everything as it is.
CallWorks(c) == \/ TakeLock(c) \/ ExecSend(c) \/ AnswerTimesOut(c) \/ Release(c)
                \/ Await(c) \/ WaitTimesOut(c) \/ WaitDone(c) \/ Delete(c)

Works ==
  /\ stage # "broken"
  /\ \/ MqttInit \/ MqttInitFails
     \/ \E c \in Callers : CallWorks(c) \/ \E o \in OpKinds : Call(c, o)
     \/ ParserStep \/ TaskStep
     \/ ModemServe \/ \E k \in {"msgi", "break"} : ModemReport(k)

LEMMA Steps == [Next]_vars => Works \/ Break \/ UNCHANGED vars
  BY DEF Next, Works, CallStep, CallWorks, CallBreaks, InitBreaks, MqttInit,
         MqttInitFails, Call, ParserStep, TaskStep, ModemServe, ModemReport,
         Terminated, Broken

\* What the queue and the messages consist of.
eventVars == <<made, queue, tpc, tmsg, ppc, pev, held, handled, delivered>>

LEMMA InitEstablishes == Init => IInv
  BY DEF Init, IInv, NoneInv, InitGroup

\* A service that is not created does nothing.
LEMMA NoneStep ==
  ASSUME NoneInv, stage = "none", Works
  PROVE  MqttInit \/ MqttInitFails
<1>1. \A c \in Callers : ~CallWorks(c) /\ \A o \in OpKinds : ~Call(c, o)
  BY DEF NoneInv, CallWorks, Call, TakeLock, ExecSend, AnswerTimesOut, Release,
         Await, WaitTimesOut, WaitDone, Delete
<1>2. ~ParserStep
  BY DEF NoneInv, ParserStep, HandleAnswer, HandleReport, HandleMessage,
         MessageRead, Enqueue
<1>3. ~TaskStep
  BY DEF NoneInv, TaskStep, TaskReceive, TaskFree
<1>4. ~ModemServe /\ \A k \in {"msgi", "break"} : ~ModemReport(k)
  BY DEF NoneInv, ModemServe, ModemReport
<1> QED  BY <1>1, <1>2, <1>3, <1>4 DEF Works

\* The calls, the modem and the answers to commands leave the events alone.
LEMMA CallKeepsEvents ==
  ASSUME NEW c \in Callers, CallWorks(c) \/ \E o \in OpKinds : Call(c, o)
  PROVE  Delete(c) \/ UNCHANGED <<stage, eventVars>>
  BY DEF eventVars, CallWorks, Call, TakeLock, ExecSend, AnswerTimesOut, Release,
         Await, WaitTimesOut, WaitDone, taskVars, parserVars, history

LEMMA ModemKeepsEvents ==
  ASSUME ModemServe \/ HandleAnswer \/ \E k \in {"msgi", "break"} : ModemReport(k)
  PROVE  UNCHANGED <<stage, eventVars>>
  BY DEF eventVars, ModemServe, ModemReport, HandleAnswer, taskVars, parserVars,
         history

LEMMA KeptEvents ==
  ASSUME ReadyInv, UNCHANGED eventVars
  PROVE  ReadyInv'
  BY DEF eventVars, ReadyInv, QueueType, Numbered, Memory, Owned, IsMessage

\* The handler makes event number handled + 1 and waits for room.
LEMMA PostKeeps ==
  ASSUME ReadyInv, NEW k \in Requests \cup {"break", "data"}, Post(k), ppc # "enqueue",
         held' = IF k = "data" THEN held \cup {handled + 1} ELSE held,
         UNCHANGED <<made, queue, tpc, tmsg, delivered>>
  PROVE  ReadyInv'
<1> USE DEF ReadyInv
<1>1. /\ ppc' = "enqueue" /\ handled' = handled + 1
      /\ pev' = [kind |-> k, num |-> handled + 1]
  BY DEF Post, Everything
<1>2. QueueType'
  BY <1>1 DEF QueueType, Events
<1>3. Numbered'
  BY <1>1 DEF Numbered, QueueType
<1>4. Memory'
  <2>1. pev = NoEvent /\ handled \in Nat
    BY DEF Numbered, QueueType
  <2>2. \A n \in Nat \ {0} : Owned(n)' <=> Owned(n) \/ (k = "data" /\ n = handled + 1)
    BY <1>1, <2>1 DEF Owned, IsMessage, NoEvent
  <2>3. held' \subseteq Nat \ {0}
    BY <2>1 DEF Memory
  <2> QED  BY <2>2, <2>3 DEF Memory
<1> QED  BY <1>2, <1>3, <1>4

LEMMA EnqueueKeeps ==
  ASSUME ReadyInv, Enqueue
  PROVE  ReadyInv'
<1> USE DEF ReadyInv, Enqueue
<1>1. pev \in Events /\ queue \in Seq(Events) /\ NoEvent \in Events
  BY DEF QueueType, Events, NoEvent
<1>2. /\ Len(queue') = Len(queue) + 1 /\ queue'[Len(queue) + 1] = pev
      /\ \A i \in 1 .. Len(queue) : queue'[i] = queue[i]
      /\ queue' \in Seq(Events) /\ Len(queue) \in Nat
  BY <1>1
<1>3. UNCHANGED <<made, tpc, tmsg, held, handled, delivered>>
      /\ ppc' = "read" /\ pev' = NoEvent
  BY DEF history
<1>4. QueueType'
  BY <1>1, <1>2, <1>3 DEF QueueType
<1>5. Numbered'
  BY <1>2, <1>3 DEF Numbered, QueueType
<1>6. \A n \in Nat \ {0} : Owned(n)' <=> Owned(n)
  <2> TAKE n \in Nat \ {0}
  <2>1. (\E i \in 1 .. Len(queue') : IsMessage(queue'[i], n))
          <=> IsMessage(pev, n) \/ \E i \in 1 .. Len(queue) : IsMessage(queue[i], n)
    BY <1>2
  <2>2. ~IsMessage(pev', n)
    BY <1>3 DEF IsMessage, NoEvent
  <2> QED  BY <1>3, <2>1, <2>2 DEF Owned, IsMessage
<1> QED  BY <1>3, <1>4, <1>5, <1>6 DEF Memory

LEMMA ReceiveKeeps ==
  ASSUME ReadyInv, TaskReceive
  PROVE  ReadyInv'
<1> USE DEF ReadyInv, TaskReceive
<1>1. queue \in Seq(Events) /\ queue # <<>>
  BY DEF QueueType
<1>2. /\ Len(queue') = Len(queue) - 1 /\ Len(queue) \in Nat \ {0}
      /\ \A i \in 1 .. Len(queue') : queue'[i] = queue[i + 1]
      /\ queue' \in Seq(Events) /\ tmsg' = queue[1] /\ tmsg' \in Events
  BY <1>1
<1>3. UNCHANGED <<made, ppc, pev, held, handled>> /\ tpc' = "callback"
      /\ delivered' = queue[1].num /\ tmsg = NoEvent
  BY <1>1 DEF Numbered, QueueType, parserVars
<1>4. delivered' = delivered + 1 /\ delivered \in Nat
  BY <1>2, <1>3 DEF Numbered, QueueType
<1>5. QueueType'
  BY <1>2, <1>3, <1>4 DEF QueueType
<1> HIDE DEF TaskReceive
<1>6. Numbered'
  <2>1. \A i \in 1 .. Len(queue') : queue'[i].num = delivered' + i
    <3> TAKE i \in 1 .. Len(queue')
    <3>1. i + 1 \in 1 .. Len(queue) /\ i \in Nat
      BY <1>2
    <3>2. queue[i + 1].num = delivered + (i + 1)
      BY <3>1 DEF Numbered
    <3>3. queue'[i] = queue[i + 1]
      BY <1>2
    <3>4. \A d, j \in Nat : d + (j + 1) = (d + 1) + j
      OBVIOUS
    <3> QED  BY <1>4, <3>1, <3>2, <3>3, <3>4
  <2>2. handled' = delivered' + Len(queue') + (IF ppc' = "enqueue" THEN 1 ELSE 0)
    BY <1>2, <1>3, <1>4 DEF Numbered, QueueType
  <2>3. tmsg'.num = delivered' /\ delivered' > 0
    BY <1>2, <1>3, <1>4
  <2>4. IF ppc' = "enqueue" THEN pev'.num = handled' ELSE pev' = NoEvent
    BY <1>3 DEF Numbered
  <2> QED  BY <1>3, <2>1, <2>2, <2>3, <2>4 DEF Numbered
<1>7. \A n \in Nat \ {0} : Owned(n)' <=> Owned(n)
  <2> TAKE n \in Nat \ {0}
  <2>1. (\E i \in 1 .. Len(queue) : IsMessage(queue[i], n))
          <=> IsMessage(tmsg', n) \/ \E i \in 1 .. Len(queue') : IsMessage(queue'[i], n)
    <3>1. \A i \in 1 .. Len(queue) : i = 1 \/ i - 1 \in 1 .. Len(queue')
      BY <1>2
    <3>2. \A i \in 1 .. Len(queue') : i + 1 \in 1 .. Len(queue)
      BY <1>2
    <3>3. \A i \in 1 .. Len(queue) : i # 1 => queue'[i - 1] = queue[i]
      BY <1>2, <3>1
    <3>4. ASSUME NEW i \in 1 .. Len(queue), IsMessage(queue[i], n)
          PROVE  IsMessage(tmsg', n)
                   \/ \E j \in 1 .. Len(queue') : IsMessage(queue'[j], n)
      BY <1>2, <3>1, <3>3, <3>4
    <3>5. ASSUME NEW i \in 1 .. Len(queue'), IsMessage(queue'[i], n)
          PROVE  \E j \in 1 .. Len(queue) : IsMessage(queue[j], n)
      BY <1>2, <3>2, <3>5
    <3>6. 1 \in 1 .. Len(queue) /\ tmsg' = queue[1]
      BY <1>2
    <3> QED  BY <3>4, <3>5, <3>6
  <2>2. ~IsMessage(tmsg, n)
    BY <1>3 DEF IsMessage, NoEvent
  <2> QED  BY <1>3, <2>1, <2>2 DEF Owned, IsMessage
<1> QED  BY <1>3, <1>5, <1>6, <1>7 DEF Memory

\* The numbers in the queue and with the handler are above the one that is freed.
LEMMA FreeKeeps ==
  ASSUME ReadyInv, TaskFree
  PROVE  ReadyInv'
<1> USE DEF ReadyInv, TaskFree
<1>1. /\ tmsg.num = delivered /\ delivered \in Nat \ {0} /\ tmsg' = NoEvent
      /\ tpc' = "receive" /\ UNCHANGED <<made, queue, ppc, pev, handled, delivered>>
      /\ Len(queue) \in Nat
  BY DEF Numbered, QueueType, parserVars, history
<1>2. QueueType'
  BY <1>1 DEF QueueType, Events, NoEvent
<1>3. Numbered'
  BY <1>1 DEF Numbered
<1>4. \A n \in Nat \ {0} : Owned(n)' <=> Owned(n) /\ ~IsMessage(tmsg, n)
  <2> TAKE n \in Nat \ {0}
  <2>1. IsMessage(tmsg, n) => \A i \in 1 .. Len(queue) : ~IsMessage(queue[i], n)
    BY <1>1 DEF Numbered, IsMessage
  <2>2. IsMessage(tmsg, n) => ~IsMessage(pev, n)
    BY <1>1 DEF Numbered, QueueType, IsMessage, NoEvent
  <2>3. ~IsMessage(tmsg', n)
    BY <1>1 DEF IsMessage, NoEvent
  <2> QED  BY <1>1, <2>1, <2>2, <2>3 DEF Owned, IsMessage
<1>5. \A n \in Nat : n \in held' <=> n \in held /\ ~IsMessage(tmsg, n)
  BY <1>1 DEF IsMessage, Memory
<1>6. held' \subseteq Nat \ {0}
  BY DEF Memory
<1> QED  BY <1>1, <1>2, <1>3, <1>4, <1>5, <1>6 DEF Memory

LEMMA ParserKeeps ==
  ASSUME ReadyInv, ParserStep
  PROVE  ReadyInv'
<1>1. CASE HandleAnswer
  BY <1>1, ModemKeepsEvents, KeptEvents
<1>2. CASE HandleReport
  <2> DEFINE k == Head(rx)
  <2>1. /\ k \in Requests \cup {"break"} /\ k # "data" /\ ppc = "read"
        /\ UNCHANGED <<made, queue, tpc, tmsg, held, delivered>>
        /\ IF k = "close" THEN UNCHANGED <<ppc, pev, handled>> ELSE Post(k)
    BY <1>2 DEF HandleReport, taskVars, Requests
  <2> HIDE DEF k
  <2>2. CASE k = "close"
    BY <2>1, <2>2, KeptEvents DEF eventVars
  <2>3. CASE k # "close"
    BY <2>1, <2>3, PostKeeps
  <2> QED  BY <2>2, <2>3
<1>3. CASE HandleMessage
  <2>1. ppc = "read" /\ ppc' \in {"message", "read"}
        /\ UNCHANGED <<made, queue, tpc, tmsg, pev, held, handled, delivered>>
    BY <1>3 DEF HandleMessage, taskVars
  <2> QED
    BY <2>1 DEF ReadyInv, QueueType, Numbered, Memory, Owned, IsMessage
<1>4. CASE MessageRead
  <2>1. ppc = "message" /\ UNCHANGED <<made, queue, tpc, tmsg, delivered>>
    BY <1>4 DEF MessageRead, taskVars
  <2>2. CASE ppc' = "read" /\ UNCHANGED <<pev, handled, held>>
    BY <2>1, <2>2 DEF ReadyInv, QueueType, Numbered, Memory, Owned, IsMessage
  <2>3. CASE Post("data") /\ held' = held \cup {handled + 1}
    BY <2>1, <2>3, PostKeeps
  <2> QED  BY <1>4, <2>2, <2>3 DEF MessageRead
<1>5. CASE Enqueue
  BY <1>5, EnqueueKeeps
<1> QED  BY <1>1, <1>2, <1>3, <1>4, <1>5 DEF ParserStep

LEMMA ReadyStep ==
  ASSUME ReadyInv, stage = "ready", Works
  PROVE  stage' # "none" /\ (stage' = "ready" => ReadyInv')
<1>1. CASE MqttInit \/ MqttInitFails
  BY <1>1 DEF MqttInit, MqttInitFails
<1>2. ASSUME NEW c \in Callers, CallWorks(c) \/ \E o \in OpKinds : Call(c, o)
      PROVE  stage' # "none" /\ (stage' = "ready" => ReadyInv')
  <2>1. CASE Delete(c)
    BY <2>1 DEF Delete
  <2>2. CASE UNCHANGED <<stage, eventVars>>
    BY <2>2, KeptEvents
  <2> QED  BY <1>2, <2>1, <2>2, CallKeepsEvents
<1>3. CASE ParserStep
  <2>1. UNCHANGED stage
    BY <1>3 DEF ParserStep, HandleAnswer, HandleReport, HandleMessage, MessageRead,
                Enqueue
  <2> QED  BY <1>3, <2>1, ParserKeeps
<1>4. CASE TaskStep
  <2>1. UNCHANGED stage
    BY <1>4 DEF TaskStep, TaskReceive, TaskFree
  <2> QED  BY <1>4, <2>1, ReceiveKeeps, FreeKeeps DEF TaskStep
<1>5. CASE ModemServe \/ \E k \in {"msgi", "break"} : ModemReport(k)
  BY <1>5, ModemKeepsEvents, KeptEvents
<1> QED  BY <1>1, <1>2, <1>3, <1>4, <1>5 DEF Works

\* init creates everything, and then nothing is on its way.
LEMMA CreateReady ==
  ASSUME NoneInv, stage = "none", MqttInit
  PROVE  stage' = "ready" /\ ReadyInv'
<1>1. /\ stage' = "ready" /\ made' = Everything
      /\ UNCHANGED <<queue, tpc, tmsg, ppc, pev, held, handled, delivered>>
  BY DEF MqttInit, taskVars, parserVars, history
<1>2. /\ queue = <<>> /\ ppc = "read" /\ tpc = "receive" /\ tmsg = NoEvent
      /\ pev = NoEvent /\ held = {} /\ handled = 0 /\ delivered = 0
  BY DEF NoneInv
<1>3. QueueType'
  BY <1>1, <1>2 DEF QueueType, NoEvent, Events
<1>4. Numbered' /\ Memory'
  BY <1>1, <1>2 DEF Numbered, Memory, Owned, IsMessage, NoEvent
<1> QED  BY <1>1, <1>3, <1>4 DEF ReadyInv

\* A service that has been deleted, or whose creation has failed, stays so.
LEMMA StageStep ==
  ASSUME Works, stage \notin {"none", "ready"}
  PROVE  stage' \notin {"none", "ready"}
<1>1. \A c \in Callers : CallWorks(c) \/ (\E o \in OpKinds : Call(c, o)) =>
        stage' \notin {"none", "ready"}
  <2> TAKE c \in Callers
  <2>1. Delete(c) => stage' = "deleted"
    BY DEF Delete
  <2> QED  BY <2>1, CallKeepsEvents
<1>2. MqttInit \/ MqttInitFails \/ ParserStep \/ TaskStep \/ ModemServe
        \/ (\E k \in {"msgi", "break"} : ModemReport(k)) =>
        stage' \notin {"none", "ready"}
  BY DEF MqttInit, MqttInitFails, ParserStep, HandleAnswer, HandleReport,
         HandleMessage, MessageRead, Enqueue, TaskStep, TaskReceive, TaskFree,
         ModemServe, ModemReport
<1> QED  BY <1>1, <1>2 DEF Works

LEMMA IInvNext == IInv /\ [Next]_vars => IInv'
<1> SUFFICES ASSUME IInv, [Next]_vars PROVE IInv'
  OBVIOUS
<1>1. CASE UNCHANGED vars
  <2>1. UNCHANGED <<stage, eventVars>>
    BY <1>1 DEF vars, eventVars, taskVars, parserVars, history
  <2>2. NoneInv'
    BY <1>1 DEF IInv, NoneInv, vars, callerVars, taskVars, parserVars, modemVars,
                history, groupVars
  <2> QED  BY <2>1, <2>2, KeptEvents DEF IInv
<1>2. CASE Break
  BY <1>2 DEF Break, IInv, NoneInv
<1>3. CASE Works
  <2>1. CASE stage = "none"
    <3>1. CASE MqttInit
      BY <2>1, <3>1, CreateReady DEF IInv, NoneInv
    <3>2. CASE MqttInitFails
      BY <3>2 DEF MqttInitFails, IInv, NoneInv
    <3> QED  BY <1>3, <2>1, <3>1, <3>2, NoneStep DEF IInv
  <2>2. CASE stage = "ready"
    BY <1>3, <2>2, ReadyStep DEF IInv, NoneInv
  <2>3. CASE stage \notin {"none", "ready"}
    BY <1>3, <2>3, StageStep DEF IInv, NoneInv
  <2> QED  BY <2>1, <2>2, <2>3
<1> QED  BY <1>1, <1>2, <1>3, Steps

LEMMA Invariant == Spec => []IInv
  BY IInvNext, InitEstablishes, PTL DEF Spec

\* Every event the handler makes reaches the callback once and in order, for
\* every size of the queue.
THEOREM OrderSafe == Spec => []EventsInOrder
<1>1. IInv => EventsInOrder
  <2> SUFFICES ASSUME ReadyInv PROVE
        LET waiting == queue \o Pending
        IN  /\ Len(waiting) = handled - delivered
            /\ \A i \in DOMAIN waiting : waiting[i].num = delivered + i
    BY DEF IInv, EventsInOrder
  <2> USE DEF ReadyInv
  <2>1. queue \in Seq(Events) /\ pev \in Events /\ Len(queue) \in Nat
        /\ handled \in Nat /\ delivered \in Nat
    BY DEF QueueType
  <2>2. CASE ppc = "enqueue"
    <3>1. Pending = <<pev>> /\ handled = delivered + Len(queue) + 1
          /\ pev.num = handled
      BY <2>2 DEF Pending, Numbered
    <3> DEFINE waiting == queue \o Pending
    <3>2. /\ Len(waiting) = Len(queue) + 1 /\ waiting[Len(queue) + 1] = pev
          /\ \A i \in 1 .. Len(queue) : waiting[i] = queue[i]
          /\ DOMAIN waiting = 1 .. (Len(queue) + 1)
      BY <2>1, <3>1
    <3>3. \A i \in 1 .. Len(queue) : queue[i].num = delivered + i
      BY DEF Numbered
    <3> HIDE DEF waiting
    <3>4. \A i \in DOMAIN waiting : waiting[i].num = delivered + i
      <4> TAKE i \in DOMAIN waiting
      <4>1. i \in 1 .. Len(queue) \/ i = Len(queue) + 1
        BY <2>1, <3>2
      <4>2. CASE i \in 1 .. Len(queue)
        BY <3>2, <3>3, <4>2
      <4>3. CASE i = Len(queue) + 1
        BY <2>1, <3>1, <3>2, <4>3
      <4> QED  BY <4>1, <4>2, <4>3
    <3>5. Len(waiting) = handled - delivered
      BY <2>1, <3>1, <3>2
    <3> QED  BY <3>4, <3>5 DEF waiting
  <2>3. CASE ppc # "enqueue"
    <3>1. queue \o Pending = queue /\ handled = delivered + Len(queue)
      BY <2>1, <2>3 DEF Pending, Numbered
    <3> QED  BY <2>1, <3>1 DEF Numbered
  <2> QED  BY <2>2, <2>3
<1> QED  BY <1>1, Invariant, PTL

\* A message that is not yet freed has exactly one owner: none leaks, and none is
\* freed before its callback.
THEOREM MemorySafe == Spec => []MessageMemory
<1>1. IInv => MessageMemory
  <2> SUFFICES ASSUME ReadyInv PROVE held = {e.num : e \in InFlight}
    BY DEF IInv, MessageMemory
  <2> USE DEF ReadyInv
  <2>1. queue \in Seq(Events) /\ pev \in Events /\ tmsg \in Events
        /\ DOMAIN queue = 1 .. Len(queue)
    BY DEF QueueType
  <2>2. \A e \in Events : e.num \in Nat
    BY DEF Events
  <2>3. \A i \in 1 .. Len(queue) : queue[i] \in Events
    BY <2>1
  <2>4. \A e \in InFlight : e.num \in Nat \ {0} /\ Owned(e.num)
    BY <2>1, <2>2, <2>3 DEF InFlight, Owned, IsMessage
  <2>5. \A n \in Nat \ {0} : Owned(n) => \E e \in InFlight : e.num = n
    BY <2>1 DEF InFlight, Owned, IsMessage
  <2> QED  BY <2>4, <2>5 DEF Memory
<1> QED  BY <1>1, Invariant, PTL
-----------------------------------------------------------------------------
(* Types, in four parts that each few actions disturb *)

CallersType ==
  /\ prompt \in BOOLEAN
  /\ stage \in {"none", "ready", "failing", "deleted", "broken"}
  /\ made \subseteq Everything
  /\ drvLock \in Callers \cup {None}
  /\ pc \in [Callers -> PcLabels]
  /\ op \in [Callers -> OpKinds \cup {"none"}]
  /\ ret \in [Callers -> {"none", "true", "false"}]
  /\ calls \in [Callers -> Nat]

\* A task that is in a function has one.
InFunction == \A c \in Callers : pc[c] # "idle" => op[c] \in OpKinds

EventsType ==
  /\ queue \in Seq(Events) /\ Len(queue) <= QueueSize
  /\ tpc \in {"receive", "callback"}
  /\ tmsg \in Events
  /\ ppc \in {"read", "message", "enqueue"}
  /\ pev \in Events
  /\ held \subseteq Nat
  /\ handled \in Nat
  /\ delivered \in Nat

Commands == [req : Requests, num : Nat]

LineType ==
  /\ tx \in Seq(Commands)
  /\ rx \in Seq(Lines)
  /\ connected \in BOOLEAN
  /\ spont \in Nat
  /\ sent \in Nat
  /\ asked \in [Callers -> Nat]
  /\ answer \in [Callers -> Seq(Lines)]
  /\ credit \in [Requests -> Int]
  /\ disturbed \in BOOLEAN

GroupType ==
  /\ bits \subseteq BitNames
  /\ want \in [Callers -> SUBSET BitNames]
  /\ got \in [Callers -> SUBSET BitNames]

Types == CallersType /\ InFunction /\ EventsType /\ LineType /\ GroupType

\* The four parts are the type invariant.
LEMMA TypesSuffice == Types => TypeOK
  BY DEF Types, CallersType, EventsType, LineType, GroupType, Commands, TypeOK

\* Every operation on the event group keeps its type.
LEMMA GroupStep ==
  ASSUME GroupType, NEW c \in Callers, NEW b \in SUBSET BitNames,
         SetBits(b) \/ WaitBits(c, b) \/ WaitExpires(c) \/ DeleteGroup
           \/ UNCHANGED groupVars
  PROVE  GroupType'
<1> USE DEF GroupType
<1>1. CASE SetBits(b)
  BY <1>1 DEF SetBits, LeftOf
<1>2. CASE WaitBits(c, b)
  BY <1>2 DEF WaitBits
<1>3. CASE WaitExpires(c)
  BY <1>3 DEF WaitExpires
<1>4. CASE DeleteGroup
  BY <1>4 DEF DeleteGroup
<1> QED  BY <1>1, <1>2, <1>3, <1>4 DEF groupVars

\* What the modem answers consists of lines.
LEMMA AnswersType ==
  ASSUME NEW r \in Requests, NEW a \in AnswersTo(r)
  PROVE  a \in Seq(Lines)
<1>1. "ok" \in Lines /\ "error" \in Lines /\ r \in Lines
  BY DEF Lines
<1>2. a = <<>> \/ a = <<"error">> \/ a = <<"ok">> \/ a = <<"ok", r>>
  BY DEF AnswersTo
<1> HIDE DEF Lines
<1>3. \A x, y \in Lines : <<>> \in Seq(Lines) /\ <<x>> \in Seq(Lines) /\ <<x, y>> \in Seq(Lines)
  OBVIOUS
<1> QED  BY <1>1, <1>2, <1>3, Zenon

\* The types hold in the beginning,
LEMMA TypesInit == Init => Types
<1> SUFFICES ASSUME Init PROVE Types
  OBVIOUS
<1>1. CallersType /\ InFunction
  BY MqttConstantsOK DEF Init, MqttConstantsOK, CallersType, InFunction, PcLabels
<1>2. EventsType
  BY MqttConstantsOK DEF Init, MqttConstantsOK, EventsType, NoEvent, Events
<1>3. LineType
  <2>1. answer \in [Callers -> Seq(Lines)] /\ asked \in [Callers -> Nat]
        /\ credit \in [Requests -> Int]
    BY DEF Init
  <2>2. tx \in Seq(Commands) /\ rx \in Seq(Lines)
    BY DEF Init
  <2> QED  BY <2>1, <2>2 DEF Init, LineType
<1>4. GroupType
  BY DEF Init, InitGroup, GroupType
<1> QED  BY <1>1, <1>2, <1>3, <1>4 DEF Types

\* a step of a call leads to a label of its function,
LEMMA CallersStep ==
  ASSUME CallersType, InFunction, Works
  PROVE  CallersType' /\ InFunction'
<1> USE MqttConstantsOK DEF MqttConstantsOK, CallersType, InFunction, PcLabels,
        callerVars, Goto
<1>1. CASE MqttInit \/ MqttInitFails
  BY <1>1 DEF MqttInit, MqttInitFails, Leftovers, Everything, OpKinds
<1>2. ASSUME NEW c \in Callers, CallWorks(c) \/ \E o \in OpKinds : Call(c, o)
      PROVE  CallersType' /\ InFunction'
  <2>1. CASE \E o \in OpKinds : Call(c, o)
    BY <2>1 DEF Call
  <2>2. CASE TakeLock(c) \/ ExecSend(c) \/ AnswerTimesOut(c)
    BY <2>2 DEF TakeLock, ExecSend, AnswerTimesOut
  <2>3. CASE Release(c)
    BY <2>3 DEF Release, Finish
  <2>4. CASE Await(c) \/ WaitTimesOut(c)
    BY <2>4 DEF Await, WaitTimesOut
  <2>5. CASE WaitDone(c)
    BY <2>5 DEF WaitDone, Finish
  <2>6. CASE Delete(c)
    BY <2>6 DEF Delete
  <2> QED  BY <1>2, <2>1, <2>2, <2>3, <2>4, <2>5, <2>6 DEF CallWorks
<1>3. CASE HandleAnswer
  BY <1>3 DEF HandleAnswer
<1>4. CASE HandleReport \/ HandleMessage \/ MessageRead \/ Enqueue
  BY <1>4 DEF HandleReport, HandleMessage, MessageRead, Enqueue
<1>5. CASE TaskStep \/ ModemServe \/ \E k \in {"msgi", "break"} : ModemReport(k)
  BY <1>5 DEF TaskStep, TaskReceive, TaskFree, ModemServe, ModemReport
<1> QED  BY <1>1, <1>2, <1>3, <1>4, <1>5 DEF Works, ParserStep

\* the queue grows only when it has room,
LEMMA EventsStep ==
  ASSUME EventsType, Works
  PROVE  EventsType'
<1> USE MqttConstantsOK DEF MqttConstantsOK, EventsType, taskVars, parserVars, history
<1>1. CASE MqttInit \/ MqttInitFails
  BY <1>1 DEF MqttInit, MqttInitFails
<1>2. ASSUME NEW c \in Callers, CallWorks(c) \/ \E o \in OpKinds : Call(c, o)
      PROVE  EventsType'
  <2>1. CASE Delete(c)
    BY <2>1 DEF Delete, NoEvent, Events
  <2>2. CASE UNCHANGED <<stage, eventVars>>
    BY <2>2 DEF eventVars
  <2> QED  BY <1>2, <2>1, <2>2, CallKeepsEvents
<1>3. CASE ModemServe \/ HandleAnswer \/ \E k \in {"msgi", "break"} : ModemReport(k)
  BY <1>3, ModemKeepsEvents DEF eventVars
<1>4. ASSUME NEW k \in Requests \cup {"break", "data"}, Post(k)
      PROVE  ppc' \in {"read", "message", "enqueue"} /\ pev' \in Events /\ handled' \in Nat
  BY <1>4 DEF Post, Events
<1>5. CASE HandleReport
  <2> DEFINE k == Head(rx)
  <2>1. k \in Requests \cup {"break", "data"} /\ UNCHANGED <<taskVars, held, delivered>>
        /\ (UNCHANGED <<parserVars, handled>> \/ Post(k))
    BY <1>5 DEF HandleReport
  <2> HIDE DEF k
  <2>2. CASE Post(k)
    BY <1>4, <2>1, <2>2
  <2>3. CASE UNCHANGED <<parserVars, handled>>
    BY <2>1, <2>3
  <2> QED  BY <2>1, <2>2, <2>3
<1>6. CASE HandleMessage
  BY <1>6 DEF HandleMessage
<1>7. CASE MessageRead
  <2>1. /\ UNCHANGED <<taskVars, delivered>>
        /\ \/ ppc' = "read" /\ UNCHANGED <<pev, handled, held>>
           \/ Post("data") /\ held' = held \cup {handled + 1}
    BY <1>7 DEF MessageRead
  <2>2. CASE Post("data") /\ held' = held \cup {handled + 1}
    <3>1. ppc' \in {"read", "message", "enqueue"} /\ pev' \in Events /\ handled' \in Nat
      BY <1>4, <2>2
    <3>2. held' \subseteq Nat
      BY <2>2
    <3> QED  BY <2>1, <3>1, <3>2
  <2> QED  BY <2>1, <2>2
<1>8. CASE Enqueue
  <2>1. ASSUME NEW e \in Events
        PROVE  Append(queue, e) \in Seq(Events) /\ Len(Append(queue, e)) = Len(queue) + 1
    OBVIOUS
  <2>2. queue' \in Seq(Events) /\ Len(queue') <= QueueSize
    BY <1>8, <2>1 DEF Enqueue
  <2>3. NoEvent \in Events
    BY DEF NoEvent, Events
  <2> QED  BY <1>8, <2>2, <2>3 DEF Enqueue
<1>9. CASE TaskReceive
  <2>1. Head(queue) \in Events /\ Tail(queue) \in Seq(Events)
        /\ Len(Tail(queue)) <= QueueSize
    BY <1>9 DEF TaskReceive
  <2>2. Head(queue).num \in Nat
    BY <2>1 DEF Events
  <2> QED  BY <1>9, <2>1, <2>2 DEF TaskReceive
<1>10. CASE TaskFree
  BY <1>10 DEF TaskFree, NoEvent, Events
<1> QED
  BY <1>1, <1>2, <1>3, <1>5, <1>6, <1>7, <1>8, <1>9, <1>10
     DEF Works, ParserStep, TaskStep

\* a command on the line is one of the requests,
LEMMA LineStep ==
  ASSUME LineType, CallersType, InFunction, Works
  PROVE  LineType'
<1> USE DEF LineType, modemVars, history
<1>1. CASE MqttInit \/ MqttInitFails \/ TaskStep
  BY <1>1 DEF MqttInit, MqttInitFails, TaskStep, TaskReceive, TaskFree
<1>2. ASSUME NEW c \in Callers, CallWorks(c) \/ \E o \in OpKinds : Call(c, o)
      PROVE  LineType'
  <2>1. pc[c] # "idle" => RequestOf(op[c]) \in Requests
    BY DEF InFunction, RequestOf, OpKinds, Requests
  <2>2. CASE ExecSend(c)
    <3>1. [req |-> RequestOf(op[c]), num |-> sent + 1] \in Commands
      BY <2>1, <2>2 DEF ExecSend, Commands
    <3> QED  BY <2>2, <3>1 DEF ExecSend
  <2>3. CASE WaitDone(c)
    BY <2>1, <2>3 DEF WaitDone
  <2>4. CASE (\E o \in OpKinds : Call(c, o)) \/ TakeLock(c) \/ AnswerTimesOut(c)
               \/ Release(c) \/ Await(c) \/ WaitTimesOut(c) \/ Delete(c)
    BY <2>4 DEF Call, TakeLock, AnswerTimesOut, Release, Await, WaitTimesOut, Delete
  <2> QED  BY <1>2, <2>2, <2>3, <2>4 DEF CallWorks
<1>3. CASE ParserStep
  <2>1. rx # <<>> => Tail(rx) \in Seq(Lines)
    OBVIOUS
  <2>2. \A n \in 0 .. Len(rx) : SubSeq(rx, n + 1, Len(rx)) \in Seq(Lines)
    OBVIOUS
  <2>3. CASE HandleAnswer \/ HandleMessage
    BY <2>1, <2>3 DEF HandleAnswer, HandleMessage
  <2>4. CASE HandleReport
    BY <2>1, <2>4 DEF HandleReport
  <2>5. CASE MessageRead
    BY <2>2, <2>5 DEF MessageRead
  <2>6. CASE Enqueue
    BY <2>6 DEF Enqueue
  <2> QED  BY <1>3, <2>3, <2>4, <2>5, <2>6 DEF ParserStep
<1>4. CASE ModemServe
  <2> DEFINE r == Head(tx).req
  <2>1. r \in Requests /\ Tail(tx) \in Seq(Commands)
    <3>1. Head(tx) \in Commands /\ Tail(tx) \in Seq(Commands)
      BY <1>4 DEF ModemServe
    <3> QED  BY <3>1 DEF Commands
  <2>2. PICK a \in AnswersTo(r) :
          /\ rx' = rx \o a
          /\ answer' = [c \in Callers |-> IF asked[c] = Head(tx).num THEN a ELSE answer[c]]
          /\ credit' = IF Confirmed(a) THEN [credit EXCEPT ![r] = @ + 1] ELSE credit
          /\ connected' \in {connected, r = "open"}
    BY <1>4 DEF ModemServe
  <2>3. a \in Seq(Lines)
    BY <2>1, <2>2, AnswersType, Zenon
  <2>5. rx' \in Seq(Lines) /\ answer' \in [Callers -> Seq(Lines)]
    BY <2>2, <2>3
  <2>6. credit' \in [Requests -> Int]
    BY <2>1, <2>2
  <2>7. connected' \in BOOLEAN
    BY <2>2
  <2> QED  BY <1>4, <2>1, <2>5, <2>6, <2>7 DEF ModemServe
<1>5. ASSUME NEW k \in {"msgi", "break"}, ModemReport(k)
      PROVE  LineType'
  <2>1. k \in Lines
    BY <1>5 DEF Lines
  <2> QED  BY <1>5, <2>1 DEF ModemReport
<1> QED  BY <1>1, <1>2, <1>3, <1>4, <1>5 DEF Works

\* and only the bits of mc665_mqtt.c are set and waited for.
LEMMA BitsStep ==
  ASSUME GroupType, CallersType, InFunction, Works
  PROVE  GroupType'
<1>0. PICK d : d \in Callers
  BY MqttConstantsOK DEF MqttConstantsOK
<1>1. ASSUME UNCHANGED groupVars PROVE GroupType'
  BY <1>1 DEF GroupType, groupVars
<1>2. ASSUME NEW c \in Callers, CallWorks(c) \/ \E o \in OpKinds : Call(c, o)
      PROVE  GroupType'
  <2>1. CASE Await(c)
    <3>1. {RequestOf(op[c]), "break"} \in SUBSET BitNames
      BY <2>1 DEF Await, InFunction, RequestOf, OpKinds, Requests, BitNames
    <3> QED  BY <2>1, <3>1, GroupStep DEF Await
  <2>2. CASE WaitTimesOut(c) \/ Delete(c)
    <3>1. {} \in SUBSET BitNames
      OBVIOUS
    <3> QED  BY <2>2, <3>1, GroupStep DEF WaitTimesOut, Delete
  <2>3. CASE UNCHANGED groupVars
    BY <2>3, <1>1
  <2> QED
    BY <1>2, <2>1, <2>2, <2>3 DEF CallWorks, Call, TakeLock, ExecSend, AnswerTimesOut,
                                  Release, WaitDone
<1>3. CASE HandleReport
  <2>1. {Head(rx)} \in SUBSET BitNames
    BY <1>3 DEF HandleReport, BitNames
  <2> QED  BY <1>0, <1>1, <1>3, <2>1, GroupStep DEF HandleReport
<1>4. CASE UNCHANGED groupVars
  BY <1>1, <1>4
<1> QED
  BY <1>2, <1>3, <1>4
     DEF Works, MqttInit, MqttInitFails, ParserStep, HandleAnswer, HandleMessage,
         MessageRead, Enqueue, TaskStep, TaskReceive, TaskFree, ModemServe, ModemReport

\* so the types always hold.
LEMMA TypesNext == Types /\ [Next]_vars => Types'
<1> SUFFICES ASSUME Types, [Next]_vars PROVE Types'
  OBVIOUS
<1>1. CASE UNCHANGED vars
  BY <1>1 DEF Types, CallersType, InFunction, EventsType, LineType, GroupType, vars,
              callerVars, taskVars, parserVars, modemVars, history, groupVars
<1>2. CASE Works
  BY <1>2, CallersStep, EventsStep, LineStep, BitsStep DEF Types
<1>3. CASE Break
  BY <1>3 DEF Break, Types, CallersType, InFunction, EventsType, LineType, GroupType,
              callerVars, taskVars, parserVars, modemVars, history, groupVars
<1> QED  BY <1>1, <1>2, <1>3, Steps

LEMMA TypesAlways == Spec => []Types
  BY TypesNext, TypesInit, PTL DEF Spec

\* Every variable keeps its type, and the queue its size.
THEOREM TypeCorrect == Spec => []TypeOK
  BY TypesAlways, TypesSuffice, PTL

-----------------------------------------------------------------------------
(* What exists, and who waits for what *)

\* While a failed init deletes what there is, nobody else is in a function.
FailInv ==
  stage = "failing" =>
    (\A c \in Callers \ {Starter} : pc[c] = "idle") /\ op[Starter] = "delete"

\* A caller that waits does so for its own request, which is not there yet.
WaitInv ==
  \A c \in Callers : want[c] # {} =>
    /\ pc[c] = "wait" /\ want[c] = {RequestOf(op[c]), "break"}
    /\ want[c] \cap bits = {} /\ got[c] = {}

\* Callers use their own functions; a failed init's delete has no other beside.
OwnInv ==
  stage \notin {"failing", "broken"} =>
    \A c \in Callers : pc[c] # "idle" => op[c] \in Ops[c]

BaseInv == Types /\ IInv /\ FailInv /\ WaitInv /\ OwnInv

LEMMA BaseInit == Init => BaseInv
<1> SUFFICES ASSUME Init PROVE BaseInv
  OBVIOUS
<1>1. FailInv /\ WaitInv /\ OwnInv
  BY DEF Init, InitGroup, FailInv, WaitInv, OwnInv
<1> QED  BY <1>1, TypesInit, InitEstablishes DEF BaseInv

\* Steps during a failed init, and the one that starts it.
LEMMA FailNext ==
  ASSUME Types, IInv, FailInv, Works PROVE FailInv'
<1> USE DEF callerVars, taskVars, parserVars, modemVars, history
<1> SUFFICES ASSUME stage' = "failing" PROVE FailInv'
  BY DEF FailInv
<1>0. /\ pc \in [Callers -> PcLabels] /\ op \in [Callers -> OpKinds \cup {"none"}]
      /\ Starter \in Callers
  BY MqttConstantsOK DEF Types, CallersType, MqttConstantsOK
<1>1. CASE MqttInitFails
  BY <1>0, <1>1 DEF MqttInitFails, IInv, NoneInv, Goto, FailInv
<1>2. ASSUME stage = "failing", UNCHANGED op,
             \A c \in Callers \ {Starter} : pc[c] = "idle" => pc'[c] = "idle"
      PROVE  FailInv'
  BY <1>2 DEF FailInv
<1>3. ASSUME NEW c \in Callers, CallWorks(c) \/ \E o \in OpKinds : Call(c, o)
      PROVE  FailInv'
  <2>1. CASE (\E o \in OpKinds : Call(c, o)) \/ Delete(c)
    BY <2>1 DEF Call, Delete
  <2>2. CASE TakeLock(c) \/ ExecSend(c) \/ AnswerTimesOut(c) \/ Release(c) \/ Await(c)
               \/ WaitDone(c)
    <3>1. stage = "failing" /\ UNCHANGED op /\ pc[c] # "idle"
      BY <2>2 DEF TakeLock, ExecSend, AnswerTimesOut, Release, Await, WaitDone
    <3>2. \A d \in Callers \ {c} : pc'[d] = pc[d]
      BY <1>0, <2>2 DEF TakeLock, ExecSend, AnswerTimesOut, Release, Await, WaitDone, Goto,
                        Finish
    <3> QED  BY <1>2, <3>1, <3>2
  <2>3. CASE WaitTimesOut(c)
    BY <1>2, <2>3 DEF WaitTimesOut
  <2> QED  BY <1>3, <2>1, <2>2, <2>3 DEF CallWorks
<1>4. CASE ParserStep
  <2>1. UNCHANGED <<stage, op>> /\ \A c \in Callers : pc[c] = "idle" => pc'[c] = "idle"
    BY <1>4 DEF ParserStep, HandleAnswer, HandleReport, HandleMessage, MessageRead, Enqueue
  <2> QED  BY <1>2, <2>1
<1>5. CASE MqttInit \/ TaskStep \/ ModemServe \/ \E k \in {"msgi", "break"} : ModemReport(k)
  BY <1>2, <1>5 DEF MqttInit, TaskStep, TaskReceive, TaskFree, ModemServe, ModemReport
<1> QED  BY <1>1, <1>3, <1>4, <1>5 DEF Works

\* What setting a bit does to the bits and to a caller.
LEMMA SetOne ==
  ASSUME GroupType, WaitInv, NEW b \in BitNames, SetBits({b})
  PROVE  /\ \A c \in Callers :
              IF b \in want[c] THEN want'[c] = {} /\ got'[c] = bits \cup {b}
                              ELSE want'[c] = want[c] /\ got'[c] = got[c]
         /\ \A x : x # b => (x \in bits' <=> x \in bits)
         /\ b \in bits' <=> ~\E c \in Callers : b \in want[c]
<1>1. DOMAIN want = Callers /\ DOMAIN got = Callers
  BY DEF GroupType
<1>2. \A c \in Callers : c \in WokenBy(bits \cup {b}) <=> b \in want[c]
  BY <1>1 DEF WokenBy, Waiting, WaitInv
<1>3. WokenBy(bits \cup {b}) \subseteq Callers
  BY <1>1 DEF WokenBy, Waiting
<1>4. \A x : x \in bits' <=> /\ x \in bits \cup {b}
                            /\ ~\E c \in Callers : b \in want[c] /\ x \in want[c]
  BY <1>2, <1>3 DEF SetBits, LeftOf
<1>5. \A c \in Callers :
        IF b \in want[c] THEN want'[c] = {} /\ got'[c] = bits \cup {b}
                        ELSE want'[c] = want[c] /\ got'[c] = got[c]
  BY <1>1, <1>2 DEF SetBits
<1>6. \A c \in Callers : b \in want[c] => want[c] \cap bits = {}
  BY DEF WaitInv
<1> QED  BY <1>4, <1>5, <1>6

\* A wait ends with what is set, or goes on until something it waits for is.
LEMMA WaitNext ==
  ASSUME Types, IInv, WaitInv, Works PROVE WaitInv'
<1> USE DEF callerVars, taskVars, parserVars, modemVars, history
<1>0. /\ pc \in [Callers -> PcLabels] /\ op \in [Callers -> OpKinds \cup {"none"}]
      /\ want \in [Callers -> SUBSET BitNames] /\ got \in [Callers -> SUBSET BitNames]
      /\ bits \subseteq BitNames /\ Starter \in Callers
  BY MqttConstantsOK DEF Types, CallersType, GroupType, MqttConstantsOK
<1>1. ASSUME UNCHANGED groupVars,
             \A c \in Callers : want[c] = {} \/ (pc'[c] = pc[c] /\ op'[c] = op[c])
      PROVE  WaitInv'
  BY <1>1 DEF WaitInv, groupVars, RequestOf
<1>2. ASSUME NEW c \in Callers, CallWorks(c) \/ \E o \in OpKinds : Call(c, o)
      PROVE  WaitInv'
  <2>1. pc[c] # "wait" => want[c] = {}
    BY DEF WaitInv
  <2>2. CASE Await(c)
    <3>1. /\ pc[c] = "await" /\ op' = op /\ pc' = [pc EXCEPT ![c] = "wait"]
          /\ \/ UNCHANGED groupVars
             \/ WaitBits(c, {RequestOf(op[c]), "break"})
      BY <2>2 DEF Await, Goto
    <3>2. CASE UNCHANGED groupVars
      BY <1>0, <1>1, <2>1, <3>1, <3>2
    <3>3. CASE WaitBits(c, {RequestOf(op[c]), "break"})
      <4>1. PICK w : w = {RequestOf(op[c]), "break"}
        OBVIOUS
      <4>2. /\ got' = [got EXCEPT ![c] = bits \cap w]
            /\ IF bits \cap w # {} THEN bits' = bits \ w /\ UNCHANGED want
               ELSE want' = [want EXCEPT ![c] = w] /\ UNCHANGED bits
        BY <3>3, <4>1 DEF WaitBits
      <4>3. want[c] = {}
        BY <2>1, <3>1
      <4>4. ASSUME NEW d \in Callers, want'[d] # {}
            PROVE  /\ pc'[d] = "wait" /\ want'[d] = {RequestOf(op[d]), "break"}
                   /\ want'[d] \cap bits' = {} /\ got'[d] = {}
        <5>1. CASE d = c
          <6>1. bits \cap w = {} /\ want'[c] = w /\ bits' = bits /\ got'[c] = {}
            BY <1>0, <4>2, <4>3, <4>4, <5>1
          <6> QED  BY <1>0, <3>1, <4>1, <5>1, <6>1
        <5>2. CASE d # c
          <6>1. want'[d] = want[d] /\ got'[d] = got[d] /\ pc'[d] = pc[d] /\ bits' \subseteq bits
            BY <1>0, <3>1, <4>2, <5>2
          <6> QED  BY <4>4, <6>1 DEF WaitInv
        <5> QED  BY <5>1, <5>2
      <4> QED  BY <3>1, <4>4 DEF WaitInv, RequestOf
    <3> QED  BY <3>1, <3>2, <3>3
  <2>3. CASE WaitTimesOut(c)
    BY <1>0, <2>3 DEF WaitTimesOut, WaitExpires, WaitInv, RequestOf
  <2>4. CASE Delete(c)
    <3>1. \A d \in DOMAIN want : want'[d] = {}
      BY <2>4 DEF Delete, DeleteGroup
    <3>2. \A d \in Callers : want'[d] = {}
      BY <1>0, <3>1
    <3> QED  BY <3>2 DEF WaitInv
  <2>5. CASE (\E o \in OpKinds : Call(c, o)) \/ TakeLock(c) \/ ExecSend(c)
               \/ AnswerTimesOut(c) \/ Release(c) \/ WaitDone(c)
    <3>1. want[c] = {} /\ UNCHANGED groupVars
      BY <2>1, <2>5 DEF Call, TakeLock, ExecSend, AnswerTimesOut, Release, WaitDone
    <3>2. \A d \in Callers \ {c} : pc'[d] = pc[d] /\ op'[d] = op[d]
      BY <1>0, <2>5 DEF Call, TakeLock, ExecSend, AnswerTimesOut, Release, WaitDone, Goto,
                        Finish
    <3> QED  BY <1>1, <3>1, <3>2
  <2> QED  BY <1>2, <2>2, <2>3, <2>4, <2>5 DEF CallWorks
<1>3. CASE HandleReport
  <2> DEFINE k == Head(rx)
  <2>1. /\ k \in BitNames /\ UNCHANGED <<pc, op>>
        /\ UNCHANGED groupVars \/ SetBits({k})
    BY <1>3 DEF HandleReport, BitNames
  <2> HIDE DEF k
  <2>2. CASE UNCHANGED groupVars
    BY <1>1, <2>1, <2>2
  <2>3. CASE SetBits({k})
    <3>1. GroupType
      BY DEF Types
    <3>2. ASSUME NEW d \in Callers, want'[d] # {}
          PROVE  /\ pc'[d] = "wait" /\ want'[d] = {RequestOf(op[d]), "break"}
                 /\ want'[d] \cap bits' = {} /\ got'[d] = {}
      <4>1. k \notin want[d] /\ want'[d] = want[d] /\ got'[d] = got[d]
        BY <2>1, <2>3, <3>1, <3>2, SetOne
      <4>2. \A x : x # k => (x \in bits' <=> x \in bits)
        BY <2>1, <2>3, <3>1, SetOne
      <4> QED  BY <2>1, <3>2, <4>1, <4>2 DEF WaitInv
    <3> QED  BY <2>1, <3>2 DEF WaitInv, RequestOf
  <2> QED  BY <2>1, <2>2, <2>3
<1>4. CASE HandleAnswer
  <2>1. \A d \in Callers : want[d] = {} \/ (pc'[d] = pc[d] /\ op'[d] = op[d])
    BY <1>0, <1>4 DEF HandleAnswer, WaitInv
  <2> QED  BY <1>1, <1>4, <2>1 DEF HandleAnswer
<1>5. CASE HandleMessage \/ MessageRead \/ Enqueue \/ TaskStep \/ ModemServe \/ MqttInit
             \/ \E k \in {"msgi", "break"} : ModemReport(k)
  BY <1>1, <1>5 DEF HandleMessage, MessageRead, Enqueue, TaskStep, TaskReceive, TaskFree,
     ModemServe, ModemReport, MqttInit
<1>6. CASE MqttInitFails
  <2>1. \A d \in Callers : want[d] = {}
    BY <1>6 DEF MqttInitFails, IInv, NoneInv
  <2> QED  BY <1>1, <1>6, <2>1 DEF MqttInitFails
<1> QED  BY <1>2, <1>3, <1>4, <1>5, <1>6 DEF Works, ParserStep

\* Calls are to a caller's own functions.
LEMMA OwnNext ==
  ASSUME Types, IInv, OwnInv, Works PROVE OwnInv'
<1> USE DEF callerVars, taskVars, parserVars, modemVars, history
<1>0. /\ pc \in [Callers -> PcLabels] /\ op \in [Callers -> OpKinds \cup {"none"}]
      /\ Starter \in Callers
  BY MqttConstantsOK DEF Types, CallersType, MqttConstantsOK
<1>1. CASE MqttInitFails
  BY <1>1 DEF MqttInitFails, OwnInv
<1>2. ASSUME UNCHANGED <<stage, op>>, \A c \in Callers : pc[c] = "idle" => pc'[c] = "idle"
      PROVE  OwnInv'
  BY <1>2 DEF OwnInv
<1>3. ASSUME NEW c \in Callers, CallWorks(c) \/ \E o \in OpKinds : Call(c, o)
      PROVE  OwnInv'
  <2>1. CASE \E o \in OpKinds : Call(c, o)
    BY <1>0, <2>1 DEF Call, Goto, OwnInv
  <2>2. CASE Delete(c)
    BY <1>0, <2>2 DEF Delete, InUse, Goto, OwnInv
  <2>3. CASE TakeLock(c) \/ ExecSend(c) \/ AnswerTimesOut(c) \/ Release(c) \/ Await(c)
               \/ WaitDone(c)
    <3>1. UNCHANGED <<stage, op>> /\ pc[c] # "idle"
      BY <2>3 DEF TakeLock, ExecSend, AnswerTimesOut, Release, Await, WaitDone
    <3>2. \A d \in Callers \ {c} : pc'[d] = pc[d]
      BY <1>0, <2>3 DEF TakeLock, ExecSend, AnswerTimesOut, Release, Await, WaitDone, Goto,
                        Finish
    <3> QED  BY <1>2, <3>1, <3>2
  <2>4. CASE WaitTimesOut(c)
    BY <1>2, <2>4 DEF WaitTimesOut
  <2> QED  BY <1>3, <2>1, <2>2, <2>3, <2>4 DEF CallWorks
<1>4. CASE ParserStep
  <2>1. UNCHANGED <<stage, op>> /\ \A c \in Callers : pc[c] = "idle" => pc'[c] = "idle"
    BY <1>4 DEF ParserStep, HandleAnswer, HandleReport, HandleMessage, MessageRead, Enqueue
  <2> QED  BY <1>2, <2>1
<1>5. CASE TaskStep \/ ModemServe \/ \E k \in {"msgi", "break"} : ModemReport(k)
  BY <1>2, <1>5 DEF TaskStep, TaskReceive, TaskFree, ModemServe, ModemReport
<1>7. CASE MqttInit
  BY <1>7 DEF MqttInit, OwnInv, IInv, NoneInv
<1> QED  BY <1>1, <1>3, <1>4, <1>5, <1>7 DEF Works

LEMMA BaseNext == BaseInv /\ [Next]_vars => BaseInv'
<1> SUFFICES ASSUME BaseInv, [Next]_vars PROVE BaseInv'
  OBVIOUS
<1>1. Types' /\ IInv'
  BY TypesNext, IInvNext DEF BaseInv
<1>2. CASE UNCHANGED vars
  <2>1. FailInv' /\ WaitInv' /\ OwnInv'
    BY <1>2 DEF BaseInv, FailInv, WaitInv, OwnInv, vars, callerVars, groupVars
  <2> QED  BY <1>1, <2>1 DEF BaseInv
<1>3. CASE Break
  <2>1. FailInv' /\ WaitInv' /\ OwnInv'
    BY <1>3 DEF Break, BaseInv, FailInv, WaitInv, OwnInv, callerVars, groupVars
  <2> QED  BY <1>1, <2>1 DEF BaseInv
<1>4. CASE Works
  BY <1>1, <1>4, FailNext, WaitNext, OwnNext DEF BaseInv
<1> QED  BY <1>2, <1>3, <1>4, Steps

LEMMA BaseAlways == Spec => []BaseInv
  BY BaseInit, BaseNext, PTL DEF Spec

-----------------------------------------------------------------------------
(* How many lines of a kind there are *)

At(s, k) == {i \in 1 .. Len(s) : s[i] = k}
Count(s, k) == Cardinality(At(s, k))

LEMMA CountType ==
  ASSUME NEW s \in Seq(Lines), NEW k
  PROVE  /\ IsFiniteSet(At(s, k)) /\ Count(s, k) \in Nat
         /\ Count(s, k) > 0 <=> \E i \in 1 .. Len(s) : s[i] = k
<1>1. Len(s) \in Int /\ 1 \in Int /\ Len(s) \in Nat
  OBVIOUS
<1>2. IsFiniteSet(1 .. Len(s))
  BY <1>1, FS_Interval
<1>3. At(s, k) \in SUBSET (1 .. Len(s))
  BY DEF At
<1>4. IsFiniteSet(At(s, k))
  BY <1>2, <1>3, FS_Subset
<1>5. Count(s, k) \in Nat /\ (Count(s, k) = 0 <=> At(s, k) = {})
  BY <1>4, FS_CardinalityType, FS_EmptySet DEF Count
<1> QED  BY <1>4, <1>5 DEF At

LEMMA CountEmpty == \A k : Count(<<>>, k) = 0
  BY FS_EmptySet DEF Count, At

LEMMA CountAppend ==
  ASSUME NEW s \in Seq(Lines), NEW e \in Lines, NEW k
  PROVE  Count(Append(s, e), k) = Count(s, k) + (IF e = k THEN 1 ELSE 0)
<1> DEFINE n == Len(s) + 1
<1>1. /\ Len(Append(s, e)) = n /\ Append(s, e)[n] = e /\ n \in Nat /\ Len(s) \in Nat
      /\ \A i \in 1 .. Len(s) : Append(s, e)[i] = s[i]
      /\ \A i \in 1 .. n : i \in 1 .. Len(s) \/ i = n
      /\ n \notin 1 .. Len(s) /\ \A i \in 1 .. Len(s) : i \in 1 .. n
      /\ n \in 1 .. n
  OBVIOUS
<1> HIDE DEF n
<1>2. At(Append(s, e), k) = IF e = k THEN At(s, k) \cup {n} ELSE At(s, k)
  <2>1. \A i \in 1 .. n : i \in At(Append(s, e), k) <=>
                            i \in At(s, k) \/ (i = n /\ e = k)
    BY <1>1 DEF At
  <2> QED  BY <1>1, <2>1 DEF At
<1>3. n \notin At(s, k)
  BY <1>1 DEF At
<1>4. IsFiniteSet(At(s, k)) /\ Cardinality(At(s, k)) \in Nat
  BY CountType DEF Count
<1>5. Cardinality(At(s, k) \cup {n}) = Cardinality(At(s, k)) + 1
  BY <1>3, <1>4, FS_AddElement
<1> QED  BY <1>2, <1>4, <1>5 DEF Count

\* What is left of a line after n lines have been read.
LEMMA CountSuffix ==
  ASSUME NEW s \in Seq(Lines), NEW n \in 0 .. Len(s), NEW k
  PROVE  Count(SubSeq(s, n + 1, Len(s)), k) <= Count(s, k)
<1> DEFINE t == SubSeq(s, n + 1, Len(s))
<1>1. /\ Len(t) = Len(s) - n /\ Len(s) \in Nat /\ n \in Nat
      /\ \A i \in 1 .. Len(t) : t[i] = s[i + n] /\ i + n \in 1 .. Len(s)
  OBVIOUS
<1> HIDE DEF t
<1> DEFINE f == [i \in At(t, k) |-> i + n]
<1>2. f \in [At(t, k) -> At(s, k)] /\ \A i, j \in At(t, k) : f[i] = f[j] => i = j
  BY <1>1 DEF At
<1> HIDE DEF f
<1>3. f \in Injection(At(t, k), At(s, k))
  BY <1>2, Fun_IsInj
<1>4. Cardinality(At(t, k)) <= Cardinality(At(s, k))
  BY <1>3, CountType, FS_Injection
<1> QED  BY <1>4 DEF t, Count

LEMMA CountTail ==
  ASSUME NEW s \in Seq(Lines), s # <<>>, NEW k
  PROVE  Count(s, k) = Count(Tail(s), k) + (IF Head(s) = k THEN 1 ELSE 0)
<1> DEFINE t == Tail(s)
           rest == At(s, k) \ {1}
<1>1. /\ Len(t) = Len(s) - 1 /\ Len(s) \in Nat \ {0} /\ t \in Seq(Lines)
      /\ \A i \in 1 .. Len(t) : t[i] = s[i + 1] /\ i + 1 \in 1 .. Len(s)
      /\ \A i \in 1 .. Len(s) : i # 1 => i - 1 \in 1 .. Len(t) /\ t[i - 1] = s[i]
      /\ Head(s) = s[1] /\ 1 \in 1 .. Len(s)
  <2>1. /\ Len(t) = Len(s) - 1 /\ Len(s) \in Nat \ {0} /\ t \in Seq(Lines)
        /\ \A i \in 1 .. Len(t) : t[i] = s[i + 1] /\ i + 1 \in 1 .. Len(s)
        /\ Head(s) = s[1] /\ 1 \in 1 .. Len(s)
    OBVIOUS
  <2> HIDE DEF t
  <2>2. \A i \in 1 .. Len(s) : i # 1 => i - 1 \in 1 .. Len(t) /\ (i - 1) + 1 = i
    BY <2>1
  <2> QED  BY <2>1, <2>2
<1> HIDE DEF t
<1> DEFINE f == [i \in At(t, k) |-> i + 1]
<1>2. f \in [At(t, k) -> rest] /\ \A i, j \in At(t, k) : f[i] = f[j] => i = j
  BY <1>1 DEF At
<1>3. \A j \in rest : \E i \in At(t, k) : f[i] = j
  <2> TAKE j \in rest
  <2>1. j - 1 \in At(t, k) /\ (j - 1) + 1 = j
    BY <1>1 DEF At
  <2>2. f[j - 1] = (j - 1) + 1
    BY <2>1
  <2> QED  BY <2>1, <2>2
<1> HIDE DEF f
<1>4. f \in Bijection(At(t, k), rest)
  BY <1>2, <1>3, Fun_IsBij
<1>5. IsFiniteSet(At(t, k)) /\ IsFiniteSet(At(s, k)) /\ Count(s, k) \in Nat
  BY <1>1, CountType
<1> HIDE DEF rest
<1>6. Cardinality(rest) = Cardinality(At(t, k))
  BY <1>4, <1>5, FS_Bijection DEF ExistsBijection
<1>7. Cardinality(rest) = IF 1 \in At(s, k) THEN Count(s, k) - 1 ELSE Count(s, k)
  BY <1>5, FS_RemoveElement DEF rest, Count
<1>8. 1 \in At(s, k) <=> Head(s) = k
  BY <1>1 DEF At
<1> QED  BY <1>5, <1>6, <1>7, <1>8 DEF Count, t
-----------------------------------------------------------------------------
(* A confirmation is used once *)

\* Two tasks that are in a function wait for different bits.
LEMMA OneEach ==
  ASSUME OneTaskPerRequest, OwnInv, FailInv, stage # "broken",
         NEW c \in Callers, NEW d \in Callers,
         pc[c] # "idle", pc[d] # "idle", RequestOf(op[c]) = RequestOf(op[d])
  PROVE  c = d
<1>1. CASE stage = "failing"
  BY <1>1 DEF FailInv
<1>2. CASE stage # "failing"
  BY <1>2 DEF OwnInv, OneTaskPerRequest
<1> QED  BY <1>1, <1>2

\* A task has been woken with the bit of its request, and has not run yet.
Got(c, r) == pc[c] = "wait" /\ want[c] = {} /\ r \in got[c] /\ r = RequestOf(op[c])
SomeGot(r) == \E c \in Callers : Got(c, r)

\* A confirmation that no call has used is on the line, a bit, or with a task.
CreditInv ==
  \A r \in Requests :
    credit[r] >= Count(rx, r) + (IF r \in bits THEN 1 ELSE 0)
                              + (IF SomeGot(r) THEN 1 ELSE 0)

\* Confirmations get lost, and stay where they are.
LEMMA CreditKept ==
  ASSUME Types, CreditInv, rx' \in Seq(Lines), UNCHANGED credit, bits' \subseteq bits,
         \A r \in Requests : Count(rx', r) <= Count(rx, r) /\ (SomeGot(r)' => SomeGot(r))
  PROVE  CreditInv'
<1>1. rx \in Seq(Lines) /\ credit \in [Requests -> Int]
  BY DEF Types, LineType
<1>2. \A r \in Requests : Count(rx, r) \in Nat /\ Count(rx', r) \in Nat /\ credit[r] \in Int
  BY <1>1, CountType
<1> QED  BY <1>2 DEF CreditInv

LEMMA CreditCalls ==
  ASSUME OneTaskPerRequest, BaseInv, CreditInv, stage # "broken", NEW c \in Callers,
         CallWorks(c) \/ \E o \in OpKinds : Call(c, o), Types'
  PROVE  CreditInv'
<1> USE DEF callerVars, taskVars, parserVars, modemVars, history
<1>0. /\ pc \in [Callers -> PcLabels] /\ op \in [Callers -> OpKinds \cup {"none"}]
      /\ want \in [Callers -> SUBSET BitNames] /\ got \in [Callers -> SUBSET BitNames]
      /\ rx \in Seq(Lines) /\ rx' \in Seq(Lines) /\ credit \in [Requests -> Int]
      /\ \A r \in Requests : Count(rx, r) \in Nat /\ credit[r] \in Int
  BY CountType DEF BaseInv, Types, CallersType, GroupType, LineType
<1>1. ASSUME rx' = rx, UNCHANGED credit, bits' \subseteq bits,
             \A r \in Requests, d \in Callers : Got(d, r)' => Got(d, r)
      PROVE  CreditInv'
  BY <1>0, <1>1, CreditKept DEF BaseInv, SomeGot
<1>2. CASE \E o \in OpKinds : Call(c, o)
  BY <1>0, <1>1, <1>2 DEF Call, Goto, Got, groupVars
<1>3. CASE TakeLock(c) \/ ExecSend(c) \/ AnswerTimesOut(c) \/ Release(c)
  <2>1. /\ \A d \in Callers : pc'[d] = "wait" => pc[d] = "wait"
        /\ UNCHANGED <<op, rx, credit, groupVars>>
    BY <1>0, <1>3 DEF TakeLock, ExecSend, AnswerTimesOut, Release, Goto, Finish
  <2> QED  BY <1>1, <2>1 DEF Got, groupVars
<1>4. CASE WaitTimesOut(c)
  <2>1. /\ want' = [want EXCEPT ![c] = {}] /\ got[c] = {}
        /\ UNCHANGED <<pc, op, rx, credit, bits, got>>
    BY <1>4 DEF WaitTimesOut, WaitExpires, BaseInv, WaitInv
  <2> QED  BY <1>0, <1>1, <2>1 DEF Got
<1>5. CASE Delete(c)
  <2>1. /\ bits' = {} /\ UNCHANGED <<rx, credit>>
        /\ \A d \in Callers : pc'[d] = "idle"
    BY <1>0, <1>5 DEF Delete, InUse, DeleteGroup, Goto
  <2> QED  BY <1>1, <2>1 DEF Got
<1>6. CASE Await(c)
  <2>1. PICK w : w = {RequestOf(op[c]), "break"}
    OBVIOUS
  <2>4. /\ pc[c] = "await" /\ pc' = [pc EXCEPT ![c] = "wait"] /\ WaitBits(c, w)
        /\ UNCHANGED <<op, rx, credit>>
    BY <1>6, <2>1 DEF Await, Goto
  <2>5. /\ got' = [got EXCEPT ![c] = bits \cap w]
        /\ IF bits \cap w # {} THEN bits' = bits \ w /\ want' = want
           ELSE want' = [want EXCEPT ![c] = w] /\ bits' = bits
    BY <2>4 DEF WaitBits
  <2>6. \A d \in Callers \ {c}, r \in Requests : Got(d, r)' <=> Got(d, r)
    BY <1>0, <2>4, <2>5 DEF Got
  <2>7. CASE bits \cap w = {}
    <3>1. \A r \in Requests : ~Got(c, r)'
      BY <1>0, <2>1, <2>5, <2>7 DEF Got
    <3> QED  BY <1>1, <2>4, <2>5, <2>6, <2>7, <3>1
  <2>8. CASE bits \cap w # {}
    <3>1. ASSUME NEW r \in Requests
          PROVE  credit'[r] >= Count(rx', r) + (IF r \in bits' THEN 1 ELSE 0)
                                             + (IF SomeGot(r)' THEN 1 ELSE 0)
      <4>1. CASE r = RequestOf(op[c])
        <5>1. ~SomeGot(r)
          BY <2>4, <4>1, OneEach DEF BaseInv, SomeGot, Got
        <5>2. r \notin bits' /\ (SomeGot(r)' => r \in bits)
          <6>1. r \notin bits'
            BY <2>1, <2>5, <2>8, <4>1
          <6>2. \A d \in Callers : Got(d, r)' => r \in bits
            BY <1>0, <2>5, <2>6, <5>1 DEF SomeGot, Got
          <6> QED  BY <6>1, <6>2 DEF SomeGot
        <5>3. credit[r] >= Count(rx, r) + (IF r \in bits THEN 1 ELSE 0)
          BY <1>0, <5>1 DEF CreditInv
        <5> QED  BY <1>0, <2>4, <5>2, <5>3
      <4>2. CASE r # RequestOf(op[c])
        <5>1. SomeGot(r)' => SomeGot(r)
          BY <2>4, <2>6, <4>2 DEF SomeGot, Got
        <5>2. r \in bits' => r \in bits
          BY <2>5, <2>8
        <5> QED  BY <1>0, <2>4, <5>1, <5>2 DEF CreditInv
      <4> QED  BY <4>1, <4>2
    <3> QED  BY <3>1 DEF CreditInv
  <2> QED  BY <2>7, <2>8
<1>7. CASE WaitDone(c)
  <2>1. PICK q : q = RequestOf(op[c])
    OBVIOUS
  <2>2. /\ pc[c] = "wait" /\ want[c] = {} /\ q \in Requests
        /\ credit' = IF q \in got[c] THEN [credit EXCEPT ![q] = @ - 1] ELSE credit
        /\ UNCHANGED <<op, rx, bits, want, got>>
        /\ \A d \in Callers \ {c} : pc'[d] = pc[d]
        /\ pc'[c] # "wait"
    <3>1. q \in Requests
      BY <1>7, <2>1 DEF WaitDone, BaseInv, Types, InFunction, RequestOf, OpKinds, Requests
    <3>2. /\ pc[c] = "wait" /\ want[c] = {}
          /\ credit' = IF q \in got[c] THEN [credit EXCEPT ![q] = @ - 1] ELSE credit
          /\ UNCHANGED <<op, rx, bits, want, got>>
      BY <1>7, <2>1 DEF WaitDone, groupVars
    <3>3. pc' = [pc EXCEPT ![c] = "delete"] \/ pc' = [pc EXCEPT ![c] = "idle"]
      BY <1>7 DEF WaitDone, Finish, Goto
    <3> QED  BY <1>0, <3>1, <3>2, <3>3
  <2>3. \A d \in Callers, r \in Requests : Got(d, r)' => d # c /\ Got(d, r)
    BY <2>2 DEF Got
  <2>4. CASE q \notin got[c]
    BY <1>1, <2>2, <2>3, <2>4
  <2>5. CASE q \in got[c]
    <3>1. ASSUME NEW r \in Requests
          PROVE  credit'[r] >= Count(rx', r) + (IF r \in bits' THEN 1 ELSE 0)
                                             + (IF SomeGot(r)' THEN 1 ELSE 0)
      <4>1. CASE r = q
        <5>1. SomeGot(r)
          BY <2>1, <2>2, <2>5, <4>1 DEF SomeGot, Got
        <5>2. ~SomeGot(r)'
          <6>1. ASSUME NEW d \in Callers, Got(d, r)' PROVE FALSE
            <7>1. d # c /\ Got(d, r)
              BY <2>3, <6>1
            <7> QED  BY <2>1, <2>2, <4>1, <7>1, OneEach DEF BaseInv, Got
          <6> QED  BY <6>1 DEF SomeGot
        <5>3. credit'[r] = credit[r] - 1
          BY <1>0, <2>2, <2>5, <4>1
        <5> QED  BY <1>0, <2>2, <5>1, <5>2, <5>3 DEF CreditInv
      <4>2. CASE r # q
        <5>1. credit'[r] = credit[r] /\ (SomeGot(r)' => SomeGot(r))
          BY <1>0, <2>2, <2>3, <4>2 DEF SomeGot
        <5> QED  BY <1>0, <2>2, <5>1 DEF CreditInv
      <4> QED  BY <4>1, <4>2
    <3> QED  BY <3>1 DEF CreditInv
  <2> QED  BY <2>4, <2>5
<1> QED  BY <1>2, <1>3, <1>4, <1>5, <1>6, <1>7 DEF CallWorks

\* A confirmation leaves the line for the bit or for the task that waits for it.
LEMMA CreditReport ==
  ASSUME BaseInv, CreditInv, HandleReport, Types'
  PROVE  CreditInv'
<1> USE DEF callerVars, taskVars, parserVars, modemVars, history
<1>0. /\ rx \in Seq(Lines) /\ rx # <<>> /\ rx' \in Seq(Lines) /\ credit \in [Requests -> Int]
      /\ \A r \in Requests : Count(rx, r) \in Nat /\ Count(rx', r) \in Nat /\ credit[r] \in Int
      /\ GroupType
  BY CountType DEF BaseInv, Types, LineType, HandleReport
<1>1. PICK k : k = Head(rx)
  OBVIOUS
<1>2. /\ k \in BitNames /\ UNCHANGED <<pc, op, credit>>
      /\ (UNCHANGED groupVars \/ SetBits({k}))
  BY <1>1 DEF HandleReport, BitNames
<1>3. \A r \in Requests : Count(rx, r) = Count(rx', r) + (IF r = k THEN 1 ELSE 0)
  BY <1>0, <1>1, CountTail DEF HandleReport
<1>4. CASE UNCHANGED groupVars
  <2>1. \A r \in Requests : Count(rx', r) <= Count(rx, r) /\ (SomeGot(r)' => SomeGot(r))
    <3>1. \A r \in Requests : Count(rx', r) <= Count(rx, r)
      BY <1>0, <1>3
    <3>2. UNCHANGED <<pc, op, want, got>>
      BY <1>2, <1>4 DEF groupVars
    <3>3. \A r \in Requests : SomeGot(r)' <=> SomeGot(r)
      BY <3>2 DEF SomeGot, Got
    <3> QED  BY <3>1, <3>3
  <2>2. bits' \subseteq bits /\ UNCHANGED credit /\ Types
    BY <1>2, <1>4 DEF BaseInv, groupVars
  <2> HIDE DEF SomeGot
  <2> QED  BY <1>0, <2>1, <2>2, CreditKept
<1>5. CASE SetBits({k})
  <2>1. /\ \A c \in Callers :
              IF k \in want[c] THEN want'[c] = {} /\ got'[c] = bits \cup {k}
                              ELSE want'[c] = want[c] /\ got'[c] = got[c]
        /\ \A x : x # k => (x \in bits' <=> x \in bits)
        /\ k \in bits' <=> ~\E c \in Callers : k \in want[c]
    BY <1>0, <1>2, <1>5, SetOne DEF BaseInv
  <2>2. ASSUME NEW r \in Requests
        PROVE  credit'[r] >= Count(rx', r) + (IF r \in bits' THEN 1 ELSE 0)
                                           + (IF SomeGot(r)' THEN 1 ELSE 0)
    <3>1. ASSUME NEW c \in Callers, Got(c, r)', ~Got(c, r) PROVE r = k /\ k \in want[c]
      <4>1. k \in want[c]
        BY <1>2, <2>1, <3>1 DEF Got
      <4>2. want[c] = {r, "break"} /\ want[c] \cap bits = {}
        BY <1>2, <3>1, <4>1 DEF BaseInv, WaitInv, Got
      <4>3. r \in bits \cup {k} /\ r \notin bits
        BY <2>1, <3>1, <4>1, <4>2 DEF Got
      <4> QED  BY <4>1, <4>3
    <3>2. SomeGot(r)' => SomeGot(r) \/ (r = k /\ k \notin bits')
      BY <2>1, <3>1 DEF SomeGot
    <3>3. r # k => (r \in bits' <=> r \in bits)
      BY <2>1
    <3>4. credit[r] >= Count(rx, r) + (IF r \in bits THEN 1 ELSE 0)
                                    + (IF SomeGot(r) THEN 1 ELSE 0)
      BY DEF CreditInv
    <3>5. r = k /\ k \in bits' => (SomeGot(r)' => SomeGot(r))
      BY <3>2
    <3>6. credit'[r] = credit[r]
      BY <1>2
    <3> HIDE DEF SomeGot
    <3> QED  BY <1>0, <1>3, <3>2, <3>3, <3>4, <3>6
  <2> QED  BY <2>2 DEF CreditInv
<1> QED  BY <1>2, <1>4, <1>5

\* What the modem sends counts from when it sends it.
LEMMA CreditServe ==
  ASSUME BaseInv, CreditInv, ModemServe
  PROVE  CreditInv'
<1> USE DEF callerVars, taskVars, parserVars, modemVars, history
<1>0. /\ rx \in Seq(Lines) /\ credit \in [Requests -> Int]
      /\ \A r \in Requests : Count(rx, r) \in Nat /\ credit[r] \in Int
  BY CountType DEF BaseInv, Types, LineType
<1>1. PICK q : q = Head(tx).req
  OBVIOUS
<1>2. q \in Requests
  <2>1. tx \in Seq(Commands) /\ tx # <<>>
    BY DEF BaseInv, Types, LineType, ModemServe
  <2>2. Head(tx) \in Commands
    BY <2>1
  <2> QED  BY <1>1, <2>2 DEF Commands
<1>3. PICK a \in AnswersTo(q) :
        /\ rx' = rx \o a
        /\ credit' = IF Confirmed(a) THEN [credit EXCEPT ![q] = @ + 1] ELSE credit
  BY <1>1 DEF ModemServe
<1>4. UNCHANGED <<bits, pc, want, got, op>>
  BY DEF ModemServe, groupVars
<1>5. \A r \in Requests : SomeGot(r)' <=> SomeGot(r)
  BY <1>4 DEF SomeGot, Got
<1>6. PICK e, o : e = "error" /\ o = "ok"
  OBVIOUS
<1>7. e \in Lines /\ o \in Lines
  BY <1>6 DEF Lines
<1>8. a = <<>> \/ a = <<e>> \/ a = <<o>> \/ a = <<o, q>>
  BY <1>6, Zenon DEF AnswersTo
<1>9. \A r \in Requests : r # "ok" /\ r # "error"
  BY DEF Requests
<1>10. CASE a = <<>> \/ a = <<e>> \/ a = <<o>>
  <2>1. a = <<>> \/ \E l \in {e, o} : a = <<l>>
    BY <1>10
  <2>2. ~Confirmed(a)
    BY <1>10 DEF Confirmed
  <2>3. \A r \in Requests : Count(rx', r) = Count(rx, r)
    <3>1. CASE a = <<>>
      BY <1>0, <1>3, <3>1
    <3>2. ASSUME NEW l \in {e, o}, a = <<l>>
          PROVE  \A r \in Requests : Count(rx', r) = Count(rx, r)
      <4>1. rx' = Append(rx, l)
        BY <1>0, <1>3, <1>7, <3>2
      <4>2. \A r \in Requests : l # r
        BY <1>6, <1>9
      <4> QED  BY <1>0, <1>7, <4>1, <4>2, CountAppend
    <3> QED  BY <2>1, <3>1, <3>2
  <2> QED  BY <1>0, <1>3, <1>4, <1>5, <2>2, <2>3 DEF CreditInv
<1>11. CASE a = <<o, q>>
  <2>2. q \in Lines
    BY <1>2, Zenon DEF Lines
  <2>3. Confirmed(a)
    BY <1>11 DEF Confirmed
  <2>4. rx' = Append(Append(rx, o), q) /\ Append(rx, o) \in Seq(Lines)
    BY <1>0, <1>3, <1>7, <1>11, <2>2
  <2>5. \A r \in Requests : Count(rx', r) = Count(rx, r) + (IF r = q THEN 1 ELSE 0)
    <3>1. \A r \in Requests : Count(Append(rx, o), r) = Count(rx, r)
      BY <1>0, <1>6, <1>7, <1>9, CountAppend
    <3>2. \A r \in Requests : Count(Append(Append(rx, o), q), r)
                               = Count(Append(rx, o), r) + (IF q = r THEN 1 ELSE 0)
      BY <2>2, <2>4, CountAppend
    <3>3. \A r \in Requests : Count(rx', r)
                               = Count(Append(rx, o), r) + (IF q = r THEN 1 ELSE 0)
      BY <2>4, <3>2, Zenon
    <3> QED  BY <3>1, <3>3
  <2>6. \A r \in Requests : credit'[r] = credit[r] + (IF r = q THEN 1 ELSE 0)
    BY <1>0, <1>2, <1>3, <2>3
  <2> QED  BY <1>0, <1>4, <1>5, <2>5, <2>6 DEF CreditInv
<1> QED  BY <1>8, <1>10, <1>11

LEMMA CreditNext ==
  ASSUME OneTaskPerRequest, BaseInv, CreditInv, [Next]_vars
  PROVE  CreditInv'
<1> USE DEF callerVars, taskVars, parserVars, modemVars, history
<1>0. rx \in Seq(Lines) /\ Types'
  BY TypesNext DEF BaseInv, Types, LineType
<1>1. rx' \in Seq(Lines)
  BY <1>0 DEF Types, LineType
<1>2. ASSUME UNCHANGED <<pc, op, credit, groupVars>>,
             \A r \in Requests : Count(rx', r) <= Count(rx, r)
      PROVE  CreditInv'
  <2>1. \A r \in Requests : SomeGot(r)' <=> SomeGot(r)
    BY <1>2 DEF SomeGot, Got, groupVars
  <2> QED  BY <1>1, <1>2, <2>1, CreditKept DEF BaseInv, groupVars
<1>3. \A r : Count(rx, r) \in Nat /\ Count(rx', r) \in Nat
  BY <1>0, <1>1, CountType
<1>4. CASE MqttInit \/ TaskStep \/ Enqueue \/ UNCHANGED vars \/ Break
  <2>1. UNCHANGED <<pc, op, credit, groupVars, rx>>
    BY <1>4 DEF Break, MqttInit, TaskStep, TaskReceive, TaskFree, Enqueue, vars
  <2> QED  BY <1>2, <1>3, <2>1
<1>5. CASE MqttInitFails
  <2>1. /\ UNCHANGED <<credit, groupVars, rx>>
        /\ \A c \in Callers : pc'[c] # "wait"
    BY <1>5 DEF MqttInitFails, Goto, BaseInv, Types, CallersType, IInv, NoneInv
  <2>2. \A r \in Requests : ~SomeGot(r)'
    BY <2>1 DEF SomeGot, Got
  <2> QED  BY <1>1, <1>3, <2>1, <2>2, CreditKept DEF BaseInv, groupVars
<1>6. CASE /\ stage # "broken"
           /\ \E c \in Callers : CallWorks(c) \/ \E o \in OpKinds : Call(c, o)
  BY <1>0, <1>6, CreditCalls
<1>7. CASE HandleReport
  BY <1>0, <1>7, CreditReport
<1>8. CASE HandleMessage
  <2>1. rx # <<>> /\ rx' = Tail(rx) /\ UNCHANGED <<pc, op, credit, groupVars>>
    BY <1>8 DEF HandleMessage
  <2> QED  BY <1>0, <1>2, <1>3, <2>1, CountTail
<1>9. CASE HandleAnswer
  <2>1. rx # <<>> /\ rx' = Tail(rx) /\ UNCHANGED <<op, credit, groupVars>>
        /\ \A c \in Callers : pc'[c] = "wait" => pc[c] = "wait"
    BY <1>9 DEF HandleAnswer
  <2>2. \A r \in Requests : Count(rx', r) <= Count(rx, r) /\ (SomeGot(r)' => SomeGot(r))
    BY <1>0, <1>3, <2>1, CountTail DEF SomeGot, Got, groupVars
  <2> QED  BY <1>1, <2>1, <2>2, CreditKept DEF BaseInv, groupVars
<1>10. CASE MessageRead
  <2>1. PICK n \in 0 .. Len(rx) : rx' = SubSeq(rx, n + 1, Len(rx))
    BY <1>10 DEF MessageRead
  <2>2. UNCHANGED <<pc, op, credit, groupVars>>
    BY <1>10 DEF MessageRead
  <2> QED  BY <1>0, <1>2, <2>1, <2>2, CountSuffix
<1>11. CASE ModemServe
  BY <1>11, CreditServe
<1>12. ASSUME NEW k \in {"msgi", "break"}, ModemReport(k)
       PROVE  CreditInv'
  <2>1. k \in Lines /\ rx' = Append(rx, k) /\ \A r \in Requests : k # r
    BY <1>12 DEF ModemReport, Lines, Requests
  <2>2. UNCHANGED <<pc, op, credit, groupVars>>
    BY <1>12 DEF ModemReport
  <2>3. \A r \in Requests : Count(rx', r) = Count(rx, r)
    BY <1>0, <1>3, <2>1, CountAppend
  <2> QED  BY <1>2, <1>3, <2>2, <2>3
<1> QED
  BY <1>4, <1>5, <1>6, <1>7, <1>8, <1>9, <1>10, <1>11, <1>12, Steps DEF Works, ParserStep

\* No function returns true twice for one confirmation, whatever is lost, late
\* or left over.
THEOREM ConfirmedOnce ==
  ASSUME OneTaskPerRequest
  PROVE  Spec => []NoConfirmationTwice
<1>1. Init => CreditInv
  <2> SUFFICES ASSUME Init PROVE CreditInv
    OBVIOUS
  <2>1. rx = <<>> /\ bits = {} /\ \A r \in Requests : credit[r] = 0 /\ ~SomeGot(r)
    BY DEF Init, InitGroup, SomeGot, Got
  <2> QED  BY <2>1, CountEmpty DEF CreditInv
<1>2. BaseInv /\ CreditInv /\ [Next]_vars => CreditInv'
  BY CreditNext
<1>3. BaseInv /\ CreditInv => NoConfirmationTwice
  <2> SUFFICES ASSUME BaseInv, CreditInv, NEW r \in Requests PROVE credit[r] >= 0
    BY DEF NoConfirmationTwice
  <2>1. Count(rx, r) \in Nat /\ credit[r] \in Int
    BY CountType DEF BaseInv, Types, LineType
  <2> QED  BY <2>1 DEF CreditInv
<1> QED  BY <1>1, <1>2, <1>3, BaseAlways, PTL DEF Spec
-----------------------------------------------------------------------------
(* Who has the driver's mutex, who has asked what, and who has a result *)

LockInv ==
  \A c \in Callers : pc[c] \in {"exec", "answer", "answered", "refused"} => drvLock = c

\* No two calls have sent the same request.
AskInv ==
  /\ \A c \in Callers : asked[c] <= sent
  /\ \A c, d \in Callers : asked[c] = asked[d] /\ c # d => asked[c] = 0
  /\ \A c \in Callers : pc[c] = "answer" => asked[c] > 0

RetInv ==
  \A c \in Callers : ret[c] # "none" => stage # "none" /\ pc[c] \in {"idle", "delete"}

LEMMA LockNext ==
  ASSUME Types, LockInv, Works PROVE LockInv'
<1> USE DEF callerVars, taskVars, parserVars, modemVars, history, LockInv
<1>0. pc \in [Callers -> PcLabels] /\ None \notin Callers /\ Starter \in Callers
  BY MqttConstantsOK DEF Types, CallersType, MqttConstantsOK
<1>1. ASSUME NEW c \in Callers, CallWorks(c) \/ \E o \in OpKinds : Call(c, o)
      PROVE  LockInv'
  <2>1. CASE TakeLock(c)
    BY <1>0, <2>1 DEF TakeLock, Goto
  <2>2. CASE Release(c)
    <3>1. drvLock = c /\ \A d \in Callers \ {c} : pc'[d] = pc[d]
      BY <1>0, <2>2 DEF Release, Goto, Finish
    <3>2. pc'[c] \in {"await", "idle", "delete"}
      BY <1>0, <2>2 DEF Release, Goto, Finish
    <3> QED  BY <3>1, <3>2
  <2>3. CASE (\E o \in OpKinds : Call(c, o)) \/ ExecSend(c) \/ AnswerTimesOut(c)
               \/ Await(c) \/ WaitTimesOut(c) \/ WaitDone(c) \/ Delete(c)
    BY <1>0, <2>3 DEF Call, ExecSend, AnswerTimesOut, Await, WaitTimesOut, WaitDone, Delete,
                      Goto, Finish
  <2> QED  BY <1>1, <2>1, <2>2, <2>3 DEF CallWorks
<1>2. CASE MqttInit \/ MqttInitFails \/ TaskStep \/ ModemServe
             \/ \E k \in {"msgi", "break"} : ModemReport(k)
  BY <1>0, <1>2 DEF MqttInit, MqttInitFails, Goto, TaskStep, TaskReceive, TaskFree,
                    ModemServe, ModemReport
<1>3. CASE ParserStep
  BY <1>0, <1>3 DEF ParserStep, HandleAnswer, HandleReport, HandleMessage, MessageRead,
                    Enqueue
<1> QED  BY <1>1, <1>2, <1>3 DEF Works

LEMMA AskNext ==
  ASSUME Types, AskInv, Works PROVE AskInv'
<1> USE DEF callerVars, taskVars, parserVars, modemVars, history, AskInv
<1>0. /\ pc \in [Callers -> PcLabels] /\ Starter \in Callers
      /\ asked \in [Callers -> Nat] /\ sent \in Nat
  BY MqttConstantsOK DEF Types, CallersType, LineType, MqttConstantsOK
<1>1. ASSUME UNCHANGED <<asked, sent>>,
             \A c \in Callers : pc'[c] = "answer" => pc[c] = "answer"
      PROVE  AskInv'
  BY <1>1
<1>2. ASSUME NEW c \in Callers, CallWorks(c) \/ \E o \in OpKinds : Call(c, o)
      PROVE  AskInv'
  <2>1. CASE ExecSend(c)
    <3>1. /\ sent' = sent + 1 /\ asked'[c] = sent + 1
          /\ \A d \in Callers \ {c} : asked'[d] = asked[d] /\ pc'[d] = pc[d]
      BY <1>0, <2>1 DEF ExecSend, Goto
    <3>2. \A d \in Callers : asked[d] \in Nat /\ asked[d] <= sent
      BY <1>0
    <3> QED  BY <1>0, <3>1, <3>2
  <2>2. CASE (\E o \in OpKinds : Call(c, o)) \/ TakeLock(c) \/ AnswerTimesOut(c)
               \/ Release(c) \/ Await(c) \/ WaitTimesOut(c) \/ WaitDone(c) \/ Delete(c)
    <3>1. UNCHANGED <<asked, sent>>
      BY <2>2 DEF Call, TakeLock, AnswerTimesOut, Release, Await, WaitTimesOut, WaitDone,
                  Delete
    <3>2. \A d \in Callers : pc'[d] = "answer" => pc[d] = "answer"
      BY <1>0, <2>2 DEF Call, TakeLock, AnswerTimesOut, Release, Await, WaitTimesOut,
                        WaitDone, Delete, Goto, Finish
    <3> QED  BY <1>1, <3>1, <3>2
  <2> QED  BY <1>2, <2>1, <2>2 DEF CallWorks
<1>3. CASE MqttInit \/ MqttInitFails \/ TaskStep \/ ModemServe
             \/ \E k \in {"msgi", "break"} : ModemReport(k)
  BY <1>0, <1>1, <1>3 DEF MqttInit, MqttInitFails, Goto, TaskStep, TaskReceive, TaskFree,
                    ModemServe, ModemReport
<1>4. CASE ParserStep
  BY <1>0, <1>1, <1>4 DEF ParserStep, HandleAnswer, HandleReport, HandleMessage,
                    MessageRead, Enqueue
<1> QED  BY <1>2, <1>3, <1>4 DEF Works

LEMMA RetNext ==
  ASSUME Types, IInv, RetInv, Works PROVE RetInv'
<1> USE DEF callerVars, taskVars, parserVars, modemVars, history, RetInv
<1>0. /\ pc \in [Callers -> PcLabels] /\ Starter \in Callers
      /\ ret \in [Callers -> {"none", "true", "false"}]
  BY MqttConstantsOK DEF Types, CallersType, MqttConstantsOK
<1>1. ASSUME NEW c \in Callers, CallWorks(c) \/ \E o \in OpKinds : Call(c, o)
      PROVE  RetInv'
  <2>1. CASE Release(c) \/ WaitDone(c)
    <3>1. /\ stage' = stage
          /\ \A d \in Callers \ {c} : pc'[d] = pc[d] /\ ret'[d] = ret[d]
          /\ ret'[c] = ret[c] \/ pc'[c] \in {"idle", "delete"}
      BY <1>0, <2>1 DEF Release, WaitDone, Goto, Finish
    <3>2. pc[c] \in {"answered", "refused", "wait"}
      BY <2>1 DEF Release, WaitDone
    <3>3. stage # "none"
      BY <3>2 DEF IInv, NoneInv
    <3> QED  BY <3>1, <3>2, <3>3
  <2>2. CASE (\E o \in OpKinds : Call(c, o)) \/ TakeLock(c) \/ ExecSend(c)
               \/ AnswerTimesOut(c) \/ Await(c) \/ WaitTimesOut(c) \/ Delete(c)
    BY <1>0, <2>2 DEF Call, TakeLock, ExecSend, AnswerTimesOut, Await, WaitTimesOut, Delete,
                      Goto
  <2> QED  BY <1>1, <2>1, <2>2 DEF CallWorks
<1>2. CASE MqttInit \/ MqttInitFails \/ TaskStep \/ ModemServe
             \/ \E k \in {"msgi", "break"} : ModemReport(k)
  BY <1>0, <1>2 DEF MqttInit, MqttInitFails, Goto, TaskStep, TaskReceive, TaskFree,
                    ModemServe, ModemReport
<1>3. CASE ParserStep
  BY <1>0, <1>3 DEF ParserStep, HandleAnswer, HandleReport, HandleMessage, MessageRead,
                    Enqueue
<1> QED  BY <1>1, <1>2, <1>3 DEF Works
-----------------------------------------------------------------------------
(* True means confirmed, when nothing got in the way *)

Calm == prompt /\ ~disturbed

\* The modem has confirmed c's call, and c has not been told.
Expecting(c, r) ==
  /\ r = RequestOf(op[c]) /\ Confirmed(answer[c])
  /\ pc[c] \in {"answer", "answered", "await"} \/ (pc[c] = "wait" /\ want[c] # {})
SomeExpecting(r) == \E c \in Callers : Expecting(c, r)
Answering == \E c \in Callers : pc[c] = "answer" /\ answer[c] # <<>>

\* Neither a broken connection nor a full queue is in the way of the parser.
OpenRoad == /\ "break" \notin bits /\ ppc # "message"
            /\ ppc = "enqueue" => Len(queue) < QueueSize

\* What is confirmed and what is on the line or a bit is the same.
PendInv ==
  \A r \in Requests :
    Count(rx, r) + (IF r \in bits THEN 1 ELSE 0) = IF SomeExpecting(r) THEN 1 ELSE 0

\* An answer on the line is that to the command which waits for it.
AnsInv ==
  /\ Count(rx, "ok") + Count(rx, "error") <= IF Answering THEN 1 ELSE 0
  /\ \A c \in Callers : pc[c] = "answer" /\ Confirmed(answer[c]) => Count(rx, "ok") = 1

\* So is a request that the modem has not read.
TxInv ==
  tx # <<>> =>
    /\ Len(tx) = 1
    /\ \E c \in Callers : /\ pc[c] = "answer" /\ answer[c] = <<>>
                          /\ asked[c] = tx[1].num /\ RequestOf(op[c]) = tx[1].req

\* What a call knows, and what it returns.
OutInv ==
  \A c \in Callers :
    /\ pc[c] = "refused" => ~Confirmed(answer[c])
    /\ pc[c] = "wait" /\ want[c] = {} =>
         (RequestOf(op[c]) \in got[c] <=> Confirmed(answer[c]))
    /\ ret[c] # "none" => (ret[c] = "true" <=> Confirmed(answer[c]))

ClearInv == OpenRoad /\ PendInv /\ AnsInv /\ TxInv /\ OutInv
CalmInv == Calm => ClearInv

RestInv == BaseInv /\ LockInv /\ AskInv /\ RetInv

LEMMA RestFacts ==
  ASSUME BaseInv
  PROVE  /\ pc \in [Callers -> PcLabels] /\ op \in [Callers -> OpKinds \cup {"none"}]
         /\ ret \in [Callers -> {"none", "true", "false"}]
         /\ want \in [Callers -> SUBSET BitNames] /\ got \in [Callers -> SUBSET BitNames]
         /\ rx \in Seq(Lines) /\ tx \in Seq(Commands) /\ bits \subseteq BitNames
         /\ asked \in [Callers -> Nat] /\ sent \in Nat /\ answer \in [Callers -> Seq(Lines)]
         /\ Starter \in Callers /\ \A k : Count(rx, k) \in Nat
         /\ \A c \in Callers : pc[c] # "idle" => RequestOf(op[c]) \in Requests
  BY CountType, MqttConstantsOK DEF BaseInv, Types, CallersType, InFunction, GroupType,
     LineType, MqttConstantsOK, RequestOf, OpKinds, Requests

\* A timeout means that nothing is on its way.
LEMMA TimeoutQuiet ==
  ASSUME BaseInv, Calm, OpenRoad, MayTimeOut
  PROVE  Quiet /\ \A k : Count(rx, k) = 0
<1>1. ~ParserStuck
  BY DEF OpenRoad, ParserStuck, BaseInv, Types, EventsType
<1>2. Quiet
  BY <1>1 DEF MayTimeOut, Calm
<1> QED  BY <1>2, CountEmpty DEF Quiet

\* Steps that leave alone what an invariant is about.
LEMMA PendKept ==
  ASSUME PendInv, UNCHANGED <<rx, bits>>,
         \A c \in Callers, r \in Requests : Expecting(c, r)' <=> Expecting(c, r)
  PROVE  PendInv'
<1>1. \A r \in Requests : SomeExpecting(r)' <=> SomeExpecting(r)
  BY DEF SomeExpecting
<1> QED  BY <1>1 DEF PendInv

LEMMA LineKept ==
  ASSUME AnsInv, TxInv, UNCHANGED <<rx, tx, answer, asked>>,
         \A c \in Callers : pc'[c] = "answer" <=> pc[c] = "answer",
         \A c \in Callers : pc[c] = "answer" => op'[c] = op[c]
  PROVE  AnsInv' /\ TxInv'
<1>1. Answering' <=> Answering
  BY DEF Answering
<1>2. AnsInv'
  BY <1>1 DEF AnsInv
<1>3. TxInv'
  BY DEF TxInv, RequestOf
<1> QED  BY <1>2, <1>3

LEMMA AllKept ==
  ASSUME ClearInv, UNCHANGED <<bits, want, got, rx, tx, answer, asked, op, pc, ret>>,
         OpenRoad'
  PROVE  ClearInv'
<1>1. \A c \in Callers, r \in Requests : Expecting(c, r)' <=> Expecting(c, r)
  BY DEF Expecting, Confirmed
<1>2. PendInv' /\ AnsInv' /\ TxInv'
  BY <1>1, PendKept, LineKept DEF ClearInv
<1>3. OutInv'
  BY DEF ClearInv, OutInv, Confirmed
<1> QED  BY <1>2, <1>3 DEF ClearInv

\* The steps of a call before its command is answered, and up to its wait.
LEMMA ClearCalls ==
  ASSUME RestInv, Calm, ClearInv, NEW c \in Callers,
         TakeLock(c) \/ ExecSend(c) \/ AnswerTimesOut(c) \/ Release(c)
           \/ \E o \in OpKinds : Call(c, o)
  PROVE  ClearInv'
<1> USE DEF callerVars, taskVars, parserVars, modemVars, history
<1> USE RestFacts DEF RestInv
<1>1. UNCHANGED <<bits, want, got, rx, ppc, queue>>
  BY DEF TakeLock, ExecSend, AnswerTimesOut, Release, Call, groupVars
<1>2. OpenRoad'
  BY <1>1 DEF ClearInv, OpenRoad
<1>3. \A d \in Callers \ {c} : pc'[d] = pc[d] /\ ret'[d] = ret[d] /\ op'[d] = op[d]
                              /\ answer'[d] = answer[d] /\ asked'[d] = asked[d]
  BY DEF TakeLock, ExecSend, AnswerTimesOut, Release, Call, Goto, Finish
<1>4. ASSUME \A r \in Requests : Expecting(c, r)' <=> Expecting(c, r)
      PROVE  PendInv'
  <2>1. \A d \in Callers \ {c}, r \in Requests : Expecting(d, r)' <=> Expecting(d, r)
    BY <1>1, <1>3 DEF Expecting, Confirmed, RequestOf
  <2> QED  BY <1>1, <1>4, <2>1, PendKept DEF ClearInv
<1>5. ASSUME /\ pc'[c] = "refused" => ~Confirmed(answer'[c])
             /\ pc'[c] # "wait"
             /\ ret'[c] # "none" => (ret'[c] = "true" <=> Confirmed(answer'[c]))
      PROVE  OutInv'
  BY <1>1, <1>3, <1>5 DEF ClearInv, OutInv, Confirmed, RequestOf
<1>6. CASE \E o \in OpKinds : Call(c, o)
  <2>1. pc[c] = "idle" /\ pc'[c] = "lock" /\ ret'[c] = "none" /\ UNCHANGED <<tx, answer, asked>>
    BY <1>6 DEF Call, Goto
  <2>2. \A r \in Requests : ~Expecting(c, r)' /\ ~Expecting(c, r)
    BY <2>1 DEF Expecting
  <2>3. AnsInv' /\ TxInv'
    BY <1>1, <1>3, <2>1, LineKept DEF ClearInv
  <2>4. OutInv'
    BY <1>5, <2>1
  <2> QED  BY <1>2, <1>4, <2>2, <2>3, <2>4 DEF ClearInv
<1>7. CASE TakeLock(c)
  <2>1. pc[c] = "lock" /\ pc'[c] = "exec" /\ UNCHANGED <<tx, answer, asked, op, ret>>
    BY <1>7 DEF TakeLock, Goto
  <2>2. \A r \in Requests : ~Expecting(c, r)' /\ ~Expecting(c, r)
    BY <2>1 DEF Expecting
  <2>3. AnsInv' /\ TxInv'
    BY <1>1, <1>3, <2>1, LineKept DEF ClearInv
  <2>4. ret[c] = "none"
    BY <2>1 DEF RetInv
  <2>5. OutInv'
    BY <1>5, <2>1, <2>4
  <2> QED  BY <1>2, <1>4, <2>2, <2>3, <2>5 DEF ClearInv
<1>8. CASE ExecSend(c)
  <2>1. /\ pc[c] = "exec" /\ pc'[c] = "answer" /\ answer'[c] = <<>> /\ asked'[c] = sent + 1
        /\ tx' = Append(tx, [req |-> RequestOf(op[c]), num |-> sent + 1])
        /\ UNCHANGED <<op, ret>>
    BY <1>8 DEF ExecSend, Goto
  <2>2. \A d \in Callers : pc[d] # "answer"
    BY <2>1 DEF LockInv
  <2>3. tx = <<>> /\ ~Answering
    BY <2>2 DEF ClearInv, TxInv, Answering
  <2>4. ~Confirmed(answer'[c])
    BY <2>1 DEF Confirmed
  <2>5. \A r \in Requests : ~Expecting(c, r)' /\ ~Expecting(c, r)
    BY <2>1, <2>4 DEF Expecting, Confirmed
  <2>6. TxInv'
    <3>1. tx' = <<[req |-> RequestOf(op[c]), num |-> sent + 1]>>
      BY <2>1, <2>3
    <3>2. Len(tx') = 1 /\ tx'[1] = [req |-> RequestOf(op[c]), num |-> sent + 1]
      BY <3>1
    <3>3. tx'[1].num = asked'[c] /\ tx'[1].req = RequestOf(op'[c])
      BY <2>1, <3>2
    <3> QED  BY <2>1, <3>2, <3>3 DEF TxInv, RequestOf
  <2>7. AnsInv'
    <3>1. Count(rx, "ok") + Count(rx, "error") = 0
      BY <2>3 DEF ClearInv, AnsInv
    <3>2. \A d \in Callers : pc'[d] = "answer" => ~Confirmed(answer'[d])
      BY <1>3, <2>2, <2>4
    <3> QED  BY <1>1, <3>1, <3>2 DEF AnsInv, Confirmed
  <2>8. ret[c] = "none"
    BY <2>1 DEF RetInv
  <2>9. OutInv'
    BY <1>5, <2>1, <2>8
  <2> QED  BY <1>2, <1>4, <2>5, <2>6, <2>7, <2>9 DEF ClearInv
<1>9. CASE AnswerTimesOut(c)
  <2>1. /\ pc[c] = "answer" /\ pc'[c] = "refused" /\ MayTimeOut
        /\ UNCHANGED <<op, ret, tx, answer, asked>>
    BY <1>9 DEF AnswerTimesOut, Goto
  <2>2. Quiet /\ Count(rx, "ok") = 0 /\ Count(rx, "error") = 0
    BY <2>1, TimeoutQuiet DEF ClearInv
  <2>3. ~Confirmed(answer[c])
    BY <2>1, <2>2 DEF ClearInv, AnsInv
  <2>4. \A r \in Requests : ~Expecting(c, r)' /\ ~Expecting(c, r)
    BY <2>1, <2>3 DEF Expecting, Confirmed
  <2>5. AnsInv'
    <3>1. \A d \in Callers : pc'[d] = "answer" => pc[d] = "answer"
      BY <1>3, <2>1
    <3>2. Count(rx, "ok")' = 0 /\ Count(rx, "error")' = 0
      BY <1>1, <2>2
    <3>3. \A d \in Callers : pc[d] = "answer" => ~Confirmed(answer[d])
      BY <2>2 DEF ClearInv, AnsInv
    <3>4. \A d \in Callers : pc'[d] = "answer" => ~Confirmed(answer[d])'
      BY <2>1, <3>1, <3>3 DEF Confirmed
    <3> QED  BY <3>2, <3>4 DEF AnsInv
  <2>6. TxInv'
    BY <2>1, <2>2 DEF TxInv, Quiet
  <2>7. ret[c] = "none" /\ OutInv'
    <3>1. ret[c] = "none"
      BY <2>1 DEF RetInv
    <3> QED  BY <1>5, <2>1, <2>3, <3>1 DEF Confirmed
  <2> QED  BY <1>2, <1>4, <2>4, <2>5, <2>6, <2>7 DEF ClearInv
<1>10. CASE Release(c)
  <2>1. /\ pc[c] \in {"answered", "refused"} /\ UNCHANGED <<op, tx, answer, asked>>
        /\ pc[c] = "answered" => pc'[c] = "await" /\ ret'[c] = ret[c]
        /\ pc[c] = "refused" => pc'[c] \in {"idle", "delete"} /\ ret'[c] = "false"
    BY <1>10 DEF Release, Goto, Finish
  <2>2. AnsInv' /\ TxInv'
    BY <1>1, <1>3, <2>1, LineKept DEF ClearInv
  <2>3. \A r \in Requests : Expecting(c, r)' <=> Expecting(c, r)
    BY <2>1 DEF Expecting, Confirmed
  <2>4. pc[c] = "answered" => ret[c] = "none"
    BY DEF RetInv
  <2>5. pc[c] = "refused" => ~Confirmed(answer[c])
    BY DEF ClearInv, OutInv
  <2>6. OutInv'
    BY <1>5, <2>1, <2>4, <2>5 DEF Confirmed
  <2> QED  BY <1>2, <1>4, <2>2, <2>3, <2>6 DEF ClearInv
<1> QED  BY <1>6, <1>7, <1>8, <1>9, <1>10

\* The wait for a confirmation, from its start to its result.
LEMMA ClearWaits ==
  ASSUME OneTaskPerRequest, RestInv, Calm, ClearInv, stage # "broken",
         NEW c \in Callers,
         Await(c) \/ WaitTimesOut(c) \/ WaitDone(c) \/ Delete(c)
  PROVE  ClearInv'
<1> USE DEF callerVars, taskVars, parserVars, modemVars, history
<1> USE RestFacts DEF RestInv
<1>1. UNCHANGED <<rx, tx, answer, asked, op, ppc>> /\ (queue' = queue \/ queue' = <<>>)
  BY DEF Await, WaitTimesOut, WaitDone, Delete
<1>2. bits' \subseteq bits
  BY DEF Await, WaitTimesOut, WaitDone, Delete, groupVars, WaitBits, WaitExpires, DeleteGroup
<1>3. OpenRoad'
  BY <1>1, <1>2, MqttConstantsOK DEF ClearInv, OpenRoad, MqttConstantsOK
<1>4. \A d \in Callers \ {c} : pc'[d] = pc[d] /\ ret'[d] = ret[d]
  BY DEF Await, WaitTimesOut, WaitDone, Delete, Goto, Finish
<1>5. pc[c] # "answer" /\ pc'[c] # "answer"
  BY DEF Await, WaitTimesOut, WaitDone, Delete, Goto, Finish, WaitInv, BaseInv
<1>6. AnsInv' /\ TxInv'
  BY <1>1, <1>4, <1>5, LineKept DEF ClearInv
<1>7. CASE Await(c)
  <2>1. PICK q, w : q = RequestOf(op[c]) /\ w = {q, "break"}
    OBVIOUS
  <2>2. q \in Requests /\ q # "break"
    BY <1>7, <2>1 DEF Await, Requests
  <2>4. /\ pc[c] = "await" /\ pc' = [pc EXCEPT ![c] = "wait"] /\ WaitBits(c, w)
        /\ UNCHANGED ret
    BY <1>7, <2>1 DEF Await, Goto
  <2>5. /\ got' = [got EXCEPT ![c] = bits \cap w]
        /\ IF bits \cap w # {} THEN bits' = bits \ w /\ want' = want
           ELSE want' = [want EXCEPT ![c] = w] /\ bits' = bits
    BY <2>4 DEF WaitBits
  <2>6. want[c] = {} /\ ret[c] = "none" /\ "break" \notin bits
    BY <2>4 DEF BaseInv, WaitInv, RetInv, ClearInv, OpenRoad
  <2>7. \A d \in Callers \ {c} : want'[d] = want[d] /\ got'[d] = got[d]
    BY <2>5
  <2>8. \A d \in Callers \ {c}, r \in Requests : Expecting(d, r)' <=> Expecting(d, r)
    BY <1>1, <1>4, <2>7 DEF Expecting, Confirmed, RequestOf
  <2>9. ASSUME want'[c] = {} => (q \in got'[c] <=> Confirmed(answer[c]))
        PROVE  OutInv'
    BY <1>1, <1>4, <2>1, <2>4, <2>6, <2>7, <2>9 DEF ClearInv, OutInv, Confirmed, RequestOf
  <2>10. CASE q \notin bits
    <3>1. bits' = bits /\ want'[c] = w /\ w # {}
      BY <2>1, <2>5, <2>6, <2>10
    <3>2. \A r \in Requests : Expecting(c, r)' <=> Expecting(c, r)
      BY <1>1, <2>4, <3>1 DEF Expecting, Confirmed, RequestOf
    <3>3. PendInv'
      BY <1>1, <2>8, <3>1, <3>2, PendKept DEF ClearInv
    <3> QED  BY <1>3, <1>6, <2>9, <3>1, <3>3 DEF ClearInv
  <2>11. CASE q \in bits
    <3>1. bits' = bits \ {q} /\ want'[c] = {} /\ q \in got'[c]
      BY <2>1, <2>5, <2>6, <2>11
    <3>2. SomeExpecting(q) /\ Count(rx, q) = 0
      BY <2>2, <2>11 DEF ClearInv, PendInv
    <3>3. PICK d \in Callers : Expecting(d, q)
      BY <3>2 DEF SomeExpecting
    <3>4. pc[d] # "idle" /\ RequestOf(op[d]) = RequestOf(op[c])
      BY <2>1, <3>3 DEF Expecting
    <3>5. d = c
      BY <2>4, <3>4, OneEach DEF BaseInv
    <3>6. Confirmed(answer[c])
      BY <3>3, <3>5 DEF Expecting
    <3>7. \A e \in Callers : ~Expecting(e, q)'
      <4> SUFFICES ASSUME NEW e \in Callers, Expecting(e, q)' PROVE FALSE
        OBVIOUS
      <4>1. e # c
        BY <2>4, <3>1 DEF Expecting
      <4>2. pc[e] # "idle" /\ RequestOf(op[e]) = RequestOf(op[c])
        BY <2>1, <2>8, <2>2, <4>1 DEF Expecting
      <4> QED  BY <2>4, <4>1, <4>2, OneEach DEF BaseInv
    <3>8. \A r \in Requests \ {q} : SomeExpecting(r)' <=> SomeExpecting(r)
      <4>1. \A r \in Requests \ {q} : ~Expecting(c, r)' /\ ~Expecting(c, r)
        BY <1>1, <2>1 DEF Expecting, RequestOf
      <4> QED  BY <2>8, <4>1 DEF SomeExpecting
    <3>9. ~SomeExpecting(q)'
      BY <3>7 DEF SomeExpecting
    <3>10. PendInv'
      <4> SUFFICES ASSUME NEW r \in Requests
                   PROVE  Count(rx', r) + (IF r \in bits' THEN 1 ELSE 0)
                            = IF SomeExpecting(r)' THEN 1 ELSE 0
        BY DEF PendInv
      <4>1. CASE r = q
        BY <1>1, <3>1, <3>2, <3>9, <4>1
      <4>2. CASE r # q
        <5>1. SomeExpecting(r)' <=> SomeExpecting(r)
          BY <3>8, <4>2
        <5>2. r \in bits' <=> r \in bits
          BY <3>1, <4>2
        <5>3. Count(rx, r) + (IF r \in bits THEN 1 ELSE 0) = IF SomeExpecting(r) THEN 1 ELSE 0
          BY DEF ClearInv, PendInv
        <5> QED  BY <1>1, <5>1, <5>2, <5>3
      <4> QED  BY <4>1, <4>2
    <3> QED  BY <1>3, <1>6, <2>9, <3>1, <3>6, <3>10 DEF ClearInv
  <2> QED  BY <2>10, <2>11
<1>8. CASE WaitTimesOut(c)
  <2>1. /\ want[c] # {} /\ MayTimeOut /\ want' = [want EXCEPT ![c] = {}]
        /\ UNCHANGED <<pc, ret, got, bits>>
    BY <1>8 DEF WaitTimesOut, WaitExpires
  <2>2. /\ pc[c] = "wait" /\ want[c] = {RequestOf(op[c]), "break"} /\ want[c] \cap bits = {}
        /\ got[c] = {} /\ RequestOf(op[c]) \in Requests /\ \A k : Count(rx, k) = 0
    BY <2>1, TimeoutQuiet DEF BaseInv, WaitInv, ClearInv
  <2>3. ~SomeExpecting(RequestOf(op[c]))
    BY <2>2 DEF ClearInv, PendInv
  <2>4. ~Confirmed(answer[c])
    BY <2>1, <2>2, <2>3 DEF SomeExpecting, Expecting
  <2>5. \A d \in Callers, r \in Requests : Expecting(d, r)' <=> Expecting(d, r)
    BY <1>1, <2>1, <2>4 DEF Expecting, Confirmed, RequestOf
  <2>6. PendInv'
    BY <1>1, <2>1, <2>5, PendKept DEF ClearInv
  <2>7. OutInv'
    BY <1>1, <2>1, <2>2, <2>4 DEF ClearInv, OutInv, Confirmed, RequestOf
  <2> QED  BY <1>3, <1>6, <2>6, <2>7 DEF ClearInv
<1>9. CASE WaitDone(c)
  <2>1. /\ pc[c] = "wait" /\ want[c] = {} /\ pc'[c] \in {"idle", "delete"}
        /\ ret'[c] = (IF RequestOf(op[c]) \in got[c] THEN "true" ELSE "false")
        /\ UNCHANGED <<bits, want, got>>
    BY <1>9 DEF WaitDone, Finish, Goto, groupVars
  <2>2. \A d \in Callers, r \in Requests : Expecting(d, r)' <=> Expecting(d, r)
    BY <1>1, <1>4, <2>1 DEF Expecting, Confirmed, RequestOf
  <2>3. PendInv'
    BY <1>1, <2>1, <2>2, PendKept DEF ClearInv
  <2>4. OutInv'
    BY <1>1, <1>4, <2>1 DEF ClearInv, OutInv, Confirmed, RequestOf
  <2> QED  BY <1>3, <1>6, <2>3, <2>4 DEF ClearInv
<1>10. CASE Delete(c)
  <2>1. /\ pc[c] = "delete" /\ pc'[c] = "idle" /\ UNCHANGED ret
        /\ \A d \in Callers \ {c} : pc[d] = "idle" /\ pc'[d] = "idle"
        /\ bits' = {}
    BY <1>10 DEF Delete, InUse, Goto, DeleteGroup
  <2>2. \A r \in Requests : ~SomeExpecting(r) /\ ~SomeExpecting(r)'
    BY <2>1 DEF SomeExpecting, Expecting
  <2>3. PendInv'
    BY <1>1, <2>1, <2>2 DEF ClearInv, PendInv
  <2>4. \A d \in Callers : pc'[d] = "idle"
    BY <2>1
  <2>5. OutInv'
    BY <1>1, <2>1, <2>4 DEF ClearInv, OutInv, Confirmed
  <2> QED  BY <1>3, <1>6, <2>3, <2>5 DEF ClearInv
<1> QED  BY <1>7, <1>8, <1>9, <1>10

\* An answer is taken off the line by the one call that waits for it.
LEMMA ClearAnswer ==
  ASSUME RestInv, Calm, ClearInv, HandleAnswer, Types'
  PROVE  ClearInv'
<1> USE DEF callerVars, taskVars, parserVars, modemVars, history
<1> USE RestFacts DEF RestInv
<1>0. rx' \in Seq(Lines) /\ \A k : Count(rx', k) \in Nat
  BY CountType DEF Types, LineType
<1>1. PICK k : k = Head(rx)
  OBVIOUS
<1>2. /\ k \in {"ok", "error"} /\ rx # <<>> /\ rx' = Tail(rx) /\ ppc = "read"
      /\ UNCHANGED <<bits, want, got, tx, answer, asked, op, ret, ppc, queue>>
      /\ \A c \in Callers : pc'[c] = IF pc[c] # "answer" THEN pc[c]
                                     ELSE IF k = "ok" THEN "answered" ELSE "refused"
  BY <1>1 DEF HandleAnswer, groupVars
<1>3. \A j : Count(rx, j) = Count(rx', j) + (IF k = j THEN 1 ELSE 0)
  BY <1>1, <1>2, CountTail
<1>4. /\ Answering /\ Count(rx', "ok") = 0 /\ Count(rx', "error") = 0
      /\ k = "error" => Count(rx, "ok") = 0
  <2>1. Count(rx, "ok") + Count(rx, "error") <= IF Answering THEN 1 ELSE 0
    BY DEF ClearInv, AnsInv
  <2>2. Count(rx, "ok") = Count(rx', "ok") + (IF k = "ok" THEN 1 ELSE 0)
    BY <1>3
  <2>3. Count(rx, "error") = Count(rx', "error") + (IF k = "error" THEN 1 ELSE 0)
    BY <1>3
  <2> QED  BY <1>0, <1>2, <2>1, <2>2, <2>3
<1>5. PICK c \in Callers : pc[c] = "answer" /\ answer[c] # <<>>
  BY <1>4 DEF Answering
<1>6. \A d \in Callers : pc[d] = "answer" => d = c
  BY <1>5 DEF LockInv
<1>7. tx = <<>>
  BY <1>5, <1>6 DEF ClearInv, TxInv
<1>8. k = "error" => ~Confirmed(answer[c])
  BY <1>4, <1>5 DEF ClearInv, AnsInv
<1>9. OpenRoad'
  BY <1>2 DEF ClearInv, OpenRoad
<1>10. \A d \in Callers : pc'[d] # "answer"
  BY <1>2
<1>11. AnsInv' /\ TxInv'
  BY <1>0, <1>2, <1>4, <1>7, <1>10 DEF AnsInv, TxInv
<1>12. \A d \in Callers, r \in Requests : Expecting(d, r)' <=> Expecting(d, r)
  <2> TAKE d \in Callers, r \in Requests
  <2>1. CASE pc[d] # "answer"
    BY <1>2, <2>1 DEF Expecting, Confirmed, RequestOf
  <2>2. CASE pc[d] = "answer" /\ k = "ok"
    BY <1>2, <2>2 DEF Expecting, Confirmed, RequestOf
  <2>3. CASE pc[d] = "answer" /\ k = "error"
    <3>1. ~Confirmed(answer[d])
      BY <1>6, <1>8, <2>3
    <3> QED  BY <1>2, <3>1 DEF Expecting, Confirmed
  <2> QED  BY <1>2, <2>1, <2>2, <2>3
<1>13. PendInv'
  <2>1. \A r \in Requests : SomeExpecting(r)' <=> SomeExpecting(r)
    BY <1>12 DEF SomeExpecting
  <2>2. ASSUME NEW r \in Requests PROVE Count(rx', r) = Count(rx, r)
    <3>1. k # r
      BY <1>2 DEF Requests
    <3>2. Count(rx, r) = Count(rx', r) + 0 /\ Count(rx', r) \in Nat
      BY <1>0, <1>3, <3>1
    <3> QED  BY <3>2
  <2> QED  BY <1>2, <2>1, <2>2 DEF ClearInv, PendInv
<1>14. OutInv'
  <2> SUFFICES ASSUME NEW d \in Callers
               PROVE  /\ pc'[d] = "refused" => ~Confirmed(answer[d])
                      /\ pc'[d] = "wait" /\ want[d] = {} =>
                           (RequestOf(op[d]) \in got[d] <=> Confirmed(answer[d]))
                      /\ ret[d] # "none" => (ret[d] = "true" <=> Confirmed(answer[d]))
    BY <1>2 DEF OutInv, Confirmed, RequestOf
  <2>1. CASE pc[d] # "answer"
    BY <1>2, <2>1 DEF ClearInv, OutInv
  <2>2. CASE pc[d] = "answer"
    BY <1>2, <1>6, <1>8, <2>2 DEF ClearInv, OutInv
  <2> QED  BY <2>1, <2>2
<1> QED  BY <1>9, <1>11, <1>13, <1>14 DEF ClearInv

\* A confirmation becomes a bit, or wakes the one task that waits for it.
LEMMA ClearReport ==
  ASSUME OneTaskPerRequest, RestInv, Calm, ClearInv, stage # "broken", HandleReport,
         Calm', Types'
  PROVE  ClearInv'
<1> USE DEF callerVars, taskVars, parserVars, modemVars, history
<1> USE RestFacts DEF RestInv
<1>0. rx' \in Seq(Lines) /\ \A j : Count(rx', j) \in Nat
  BY CountType DEF Types, LineType
<1>1. PICK k : k = Head(rx)
  OBVIOUS
<1>2. /\ k \in Requests /\ rx # <<>> /\ rx' = Tail(rx) /\ Len(queue) # QueueSize
      /\ UNCHANGED <<pc, op, answer, asked, ret, tx, queue>>
      /\ ppc' \in {"read", "enqueue"}
  <2>1. k # "break" /\ Len(queue) # QueueSize
    BY <1>1 DEF HandleReport, Calm
  <2> QED  BY <1>1, <2>1 DEF HandleReport, Post
<1>3. \A j : Count(rx, j) = Count(rx', j) + (IF k = j THEN 1 ELSE 0)
  BY <1>1, <1>2, CountTail
<1>4. SomeExpecting(k) /\ Count(rx', k) = 0 /\ k \notin bits
  <2>1. Count(rx, k) + (IF k \in bits THEN 1 ELSE 0) = IF SomeExpecting(k) THEN 1 ELSE 0
    BY <1>2 DEF ClearInv, PendInv
  <2>2. Count(rx, k) = Count(rx', k) + 1
    BY <1>3
  <2> QED  BY <1>0, <2>1, <2>2
<1>5. PICK c \in Callers : Expecting(c, k)
  BY <1>4 DEF SomeExpecting
<1>6. pc[c] # "idle" /\ RequestOf(op[c]) = k /\ Confirmed(answer[c])
  BY <1>5 DEF Expecting
<1>8. SetBits({k})
  <2>1. "event" \in made
    BY DEF HandleReport, Calm
  <2> QED  BY <1>1, <2>1 DEF HandleReport
<1>9. /\ \A d \in Callers :
            IF k \in want[d] THEN want'[d] = {} /\ got'[d] = bits \cup {k}
                            ELSE want'[d] = want[d] /\ got'[d] = got[d]
      /\ \A x : x # k => (x \in bits' <=> x \in bits)
      /\ k \in bits' <=> ~\E d \in Callers : k \in want[d]
  <2>1. k \in BitNames
    BY <1>2 DEF BitNames
  <2> QED  BY <1>8, <2>1, SetOne DEF BaseInv, Types
<1>10. \A d \in Callers : RequestOf(op[d]) = k /\ pc[d] # "idle" => d = c
  BY <1>6, OneEach DEF BaseInv
<1>11. \A d \in Callers : k \in want[d] => d = c
  <2>1. \A d \in Callers : k \in want[d] => pc[d] = "wait" /\ k \in {RequestOf(op[d]), "break"}
    BY DEF BaseInv, WaitInv
  <2>2. k # "break"
    BY <1>2 DEF Requests
  <2> QED  BY <1>10, <2>1, <2>2
<1>12. OpenRoad'
  <2>1. "break" \notin bits'
    BY <1>2, <1>9 DEF ClearInv, OpenRoad, Requests
  <2>2. Len(queue) < QueueSize
    BY <1>2, MqttConstantsOK DEF BaseInv, Types, EventsType, MqttConstantsOK
  <2> QED  BY <1>2, <2>1, <2>2 DEF OpenRoad
<1>13. AnsInv' /\ TxInv'
  <2>1. ASSUME NEW j \in {"ok", "error"} PROVE Count(rx', j) = Count(rx, j)
    <3>1. k # j
      BY <1>2 DEF Requests
    <3>2. Count(rx, j) = Count(rx', j) + 0 /\ Count(rx', j) \in Nat
      BY <1>0, <1>3, <3>1
    <3> QED  BY <3>2
  <2>2. Answering' <=> Answering
    BY <1>2 DEF Answering
  <2>3. AnsInv'
    BY <1>2, <2>1, <2>2 DEF ClearInv, AnsInv, Confirmed
  <2>4. TxInv'
    BY <1>2 DEF ClearInv, TxInv, RequestOf
  <2> QED  BY <2>3, <2>4
<1>14. \A d \in Callers \ {c} : want'[d] = want[d] /\ got'[d] = got[d]
  BY <1>9, <1>11
<1>15. \A d \in Callers \ {c}, r \in Requests : Expecting(d, r)' <=> Expecting(d, r)
  BY <1>2, <1>14 DEF Expecting, Confirmed, RequestOf
<1>16. \A r \in Requests \ {k} : SomeExpecting(r)' <=> SomeExpecting(r)
  <2>1. \A r \in Requests \ {k} : ~Expecting(c, r)' /\ ~Expecting(c, r)
    BY <1>2, <1>6 DEF Expecting, RequestOf
  <2> QED  BY <1>15, <2>1 DEF SomeExpecting
<1>17. ASSUME (IF k \in bits' THEN 1 ELSE 0) = IF SomeExpecting(k)' THEN 1 ELSE 0
       PROVE  PendInv'
  <2> SUFFICES ASSUME NEW r \in Requests
               PROVE  Count(rx', r) + (IF r \in bits' THEN 1 ELSE 0)
                        = IF SomeExpecting(r)' THEN 1 ELSE 0
    BY DEF PendInv
  <2>1. CASE r = k
    BY <1>4, <1>17, <2>1
  <2>2. CASE r # k
    <3>1. Count(rx, r) + (IF r \in bits THEN 1 ELSE 0) = IF SomeExpecting(r) THEN 1 ELSE 0
      BY DEF ClearInv, PendInv
    <3>2. Count(rx', r) = Count(rx, r)
      BY <1>0, <1>3, <2>2
    <3> QED  BY <1>9, <1>16, <2>2, <3>1, <3>2
  <2> QED  BY <2>1, <2>2
<1>18. ASSUME pc[c] = "wait" /\ want'[c] = {} => k \in got'[c]
       PROVE  OutInv'
  BY <1>2, <1>6, <1>14, <1>18 DEF ClearInv, OutInv, Confirmed, RequestOf
<1>19. CASE k \in want[c]
  <2>1. want'[c] = {} /\ k \in got'[c] /\ k \notin bits' /\ pc[c] = "wait"
    BY <1>9, <1>19 DEF BaseInv, WaitInv
  <2>2. \A d \in Callers : ~Expecting(d, k)'
    <3>1. ~Expecting(c, k)'
      BY <1>2, <2>1 DEF Expecting
    <3>2. \A d \in Callers \ {c} : ~Expecting(d, k)
      BY <1>10 DEF Expecting
    <3> QED  BY <1>2, <1>15, <3>1, <3>2
  <2>3. ~SomeExpecting(k)'
    BY <2>2 DEF SomeExpecting
  <2> QED  BY <1>12, <1>13, <1>17, <1>18, <2>1, <2>3 DEF ClearInv
<1>20. CASE k \notin want[c]
  <2>1. want'[c] = want[c] /\ got'[c] = got[c] /\ k \in bits'
    BY <1>9, <1>11, <1>20
  <2>2. pc[c] # "wait"
    BY <1>5, <1>6, <1>20 DEF Expecting, BaseInv, WaitInv
  <2>3. Expecting(c, k)'
    BY <1>2, <1>5, <2>1 DEF Expecting, Confirmed, RequestOf
  <2>4. SomeExpecting(k)'
    BY <2>3 DEF SomeExpecting
  <2> QED  BY <1>12, <1>13, <1>17, <1>18, <2>1, <2>2, <2>4 DEF ClearInv
<1> QED  BY <1>19, <1>20

\* The modem answers the one call that waits for it.
LEMMA ClearServe ==
  ASSUME OneTaskPerRequest, RestInv, Calm, ClearInv, stage # "broken", ModemServe,
         Types'
  PROVE  ClearInv'
<1> USE DEF callerVars, taskVars, parserVars, modemVars, history
<1> USE RestFacts DEF RestInv
<1>0. rx' \in Seq(Lines) /\ \A j : Count(rx', j) \in Nat
  BY CountType DEF Types, LineType
<1>1. tx # <<>> /\ Len(tx) = 1 /\ tx' = Tail(tx) /\ Head(tx) = tx[1]
  BY DEF ModemServe, ClearInv, TxInv
<1>2. PICK c \in Callers : /\ pc[c] = "answer" /\ answer[c] = <<>>
                           /\ asked[c] = tx[1].num /\ RequestOf(op[c]) = tx[1].req
  BY <1>1 DEF ClearInv, TxInv
<1>3. PICK q : q = Head(tx).req
  OBVIOUS
<1>4. q \in Requests /\ RequestOf(op[c]) = q /\ asked[c] = Head(tx).num
  BY <1>1, <1>2, <1>3
<1>5. PICK a \in AnswersTo(q) :
        /\ rx' = rx \o a
        /\ answer' = [d \in Callers |-> IF asked[d] = Head(tx).num THEN a ELSE answer[d]]
  BY <1>3 DEF ModemServe
<1>6. UNCHANGED <<bits, want, got, pc, op, asked, ret, ppc, queue>>
  BY DEF ModemServe, groupVars
<1>7. \A d \in Callers \ {c} : asked[d] # Head(tx).num
  <2>1. asked[c] > 0
    BY <1>2 DEF AskInv
  <2> QED  BY <1>4, <2>1 DEF AskInv
<1>8. answer'[c] = a /\ \A d \in Callers \ {c} : answer'[d] = answer[d]
  BY <1>4, <1>5, <1>7
<1>9. \A d \in Callers : pc[d] = "answer" => d = c
  BY <1>2 DEF LockInv
<1>10. Count(rx, "ok") = 0 /\ Count(rx, "error") = 0
  <2>1. ~Answering
    BY <1>2, <1>9 DEF Answering
  <2> QED  BY <2>1 DEF ClearInv, AnsInv
<1>11. OpenRoad'
  BY <1>6 DEF ClearInv, OpenRoad
<1>12. TxInv'
  <2>1. Len(tx') = 0 /\ tx' \in Seq(Commands)
    <3>1. tx \in Seq(Commands)
      OBVIOUS
    <3> QED  BY <1>1, <3>1
  <2>2. tx' = <<>>
    BY <2>1
  <2> QED  BY <2>2 DEF TxInv
<1>13. OutInv'
  <2>1. ret[c] = "none"
    BY <1>2 DEF RetInv
  <2> QED  BY <1>2, <1>6, <1>8, <2>1 DEF ClearInv, OutInv, Confirmed, RequestOf
<1>14. \A d \in Callers \ {c}, r \in Requests : Expecting(d, r)' <=> Expecting(d, r)
  BY <1>6, <1>8 DEF Expecting, Confirmed, RequestOf
<1>15. \A r \in Requests : ~Expecting(c, r)
  BY <1>2 DEF Expecting, Confirmed
<1>16. \A r \in Requests : Expecting(c, r)' <=> r = q /\ Confirmed(a)
  BY <1>2, <1>4, <1>6, <1>8 DEF Expecting, Confirmed, RequestOf
<1>17. \A r \in Requests : r # "ok" /\ r # "error"
  BY DEF Requests
<1>18. PICK e, o : e = "error" /\ o = "ok"
  OBVIOUS
<1>19. e \in Lines /\ o \in Lines
  BY <1>18 DEF Lines
<1>20. a = <<>> \/ a = <<e>> \/ a = <<o>> \/ a = <<o, q>>
  BY <1>18, Zenon DEF AnswersTo
<1>21. ASSUME \A r \in Requests : Count(rx', r) = Count(rx, r) +
                                               (IF r = q /\ Confirmed(a) THEN 1 ELSE 0)
       PROVE  PendInv'
  <2> SUFFICES ASSUME NEW r \in Requests
               PROVE  Count(rx', r) + (IF r \in bits' THEN 1 ELSE 0)
                        = IF SomeExpecting(r)' THEN 1 ELSE 0
    BY DEF PendInv
  <2>1. Count(rx, r) + (IF r \in bits THEN 1 ELSE 0) = IF SomeExpecting(r) THEN 1 ELSE 0
    BY DEF ClearInv, PendInv
  <2>2. CASE r = q /\ Confirmed(a)
    <3>1. ~SomeExpecting(r)
      <4>1. \A d \in Callers \ {c} : ~Expecting(d, r)
        BY <1>2, <1>4, <2>2, OneEach DEF Expecting, BaseInv
      <4> QED  BY <1>15, <4>1 DEF SomeExpecting
    <3>2. SomeExpecting(r)'
      BY <1>16, <2>2 DEF SomeExpecting
    <3>3. Count(rx', r) = Count(rx, r) + 1
      BY <1>21, <2>2
    <3> HIDE DEF SomeExpecting
    <3> QED  BY <1>6, <2>1, <3>1, <3>2, <3>3
  <2>3. CASE ~(r = q /\ Confirmed(a))
    <3>1. SomeExpecting(r)' <=> SomeExpecting(r)
      BY <1>14, <1>15, <1>16, <2>3 DEF SomeExpecting
    <3>2. Count(rx', r) = Count(rx, r)
      BY <1>21, <2>3
    <3> QED  BY <1>6, <2>1, <3>1, <3>2
  <2> QED  BY <2>2, <2>3
<1>22. ASSUME Count(rx', "ok") + Count(rx', "error") <= IF a = <<>> THEN 0 ELSE 1,
              Confirmed(a) => Count(rx', "ok") = 1
       PROVE  AnsInv'
  <2>1. a # <<>> => Answering'
    BY <1>2, <1>6, <1>8 DEF Answering
  <2>2. \A d \in Callers : pc'[d] = "answer" /\ Confirmed(answer[d])' => Count(rx', "ok") = 1
    BY <1>6, <1>8, <1>9, <1>22 DEF Confirmed
  <2> QED  BY <1>0, <1>22, <2>1, <2>2 DEF AnsInv
<1>23. CASE a = <<>>
  <2>1. rx' = rx /\ ~Confirmed(a)
    BY <1>5, <1>23 DEF Confirmed
  <2>2. AnsInv'
    BY <1>10, <1>22, <1>23, <2>1
  <2>3. PendInv'
    BY <1>21, <2>1
  <2> QED  BY <1>11, <1>12, <1>13, <2>2, <2>3 DEF ClearInv
<1>24. ASSUME NEW l \in {e, o}, a = <<l>>
       PROVE  ClearInv'
  <2>1. rx' = Append(rx, l) /\ l \in Lines /\ l \in {"ok", "error"}
    BY <1>5, <1>18, <1>19, <1>24
  <2>2. ~Confirmed(a) /\ a # <<>>
    BY <1>24 DEF Confirmed
  <2>3. \A j : Count(rx', j) = Count(rx, j) + (IF l = j THEN 1 ELSE 0)
    BY <2>1, CountAppend
  <2>4. Count(rx', "ok") + Count(rx', "error") <= 1
    <3>1. Count(rx', "ok") = IF l = "ok" THEN 1 ELSE 0
      BY <1>10, <2>3
    <3>2. Count(rx', "error") = IF l = "error" THEN 1 ELSE 0
      BY <1>10, <2>3
    <3> QED  BY <3>1, <3>2
  <2>5. AnsInv'
    BY <1>22, <2>2, <2>4
  <2>6. ASSUME NEW r \in Requests PROVE Count(rx', r) = Count(rx, r)
    <3>1. l # r
      BY <1>17, <2>1
    <3>2. Count(rx', r) = Count(rx, r) + 0 /\ Count(rx, r) \in Nat
      BY <2>3, <3>1
    <3> QED  BY <3>2
  <2>7. PendInv'
    BY <1>21, <2>2, <2>6
  <2> QED  BY <1>11, <1>12, <1>13, <2>5, <2>7 DEF ClearInv
<1>25. CASE a = <<o, q>>
  <2>2. q \in Lines
    BY <1>4, Zenon DEF Lines
  <2>3. Confirmed(a) /\ a # <<>>
    BY <1>25 DEF Confirmed
  <2>4. rx' = Append(Append(rx, o), q) /\ Append(rx, o) \in Seq(Lines)
    BY <1>5, <1>19, <1>25, <2>2
  <2>5. \A j : Count(rx', j) = Count(rx, j) + (IF o = j THEN 1 ELSE 0)
                                            + (IF q = j THEN 1 ELSE 0)
    <3>1. \A j : Count(Append(rx, o), j) = Count(rx, j) + (IF o = j THEN 1 ELSE 0)
      BY <1>19, CountAppend
    <3>2. \A j : Count(rx', j) = Count(Append(rx, o), j) + (IF q = j THEN 1 ELSE 0)
      BY <2>2, <2>4, CountAppend
    <3> QED  BY <3>1, <3>2
  <2>6. q # "ok" /\ q # "error"
    BY <1>4, <1>17
  <2>7. Count(rx', "ok") = 1
    <3>1. Count(rx', "ok") = 0 + 1 + 0
      BY <1>10, <1>18, <2>5, <2>6
    <3> QED  BY <3>1
  <2>8. Count(rx', "error") = 0
    <3>1. Count(rx', "error") = 0 + 0 + 0
      BY <1>10, <1>18, <2>5, <2>6
    <3> QED  BY <3>1
  <2>9. AnsInv'
    BY <1>22, <2>3, <2>7, <2>8
  <2>10. ASSUME NEW r \in Requests
         PROVE  Count(rx', r) = Count(rx, r) + (IF r = q /\ Confirmed(a) THEN 1 ELSE 0)
    <3>1. o # r
      BY <1>17, <1>18
    <3>2. Count(rx', r) = Count(rx, r) + 0 + (IF q = r THEN 1 ELSE 0) /\ Count(rx, r) \in Nat
      BY <2>2, <2>5, <3>1
    <3> QED  BY <2>3, <3>2
  <2>11. PendInv'
    BY <1>21, <2>10
  <2> QED  BY <1>11, <1>12, <1>13, <2>9, <2>11 DEF ClearInv
<1> QED  BY <1>20, <1>23, <1>24, <1>25

\* The other steps of the parser, the dispatch task and the modem, and of init.
LEMMA ClearRest ==
  ASSUME RestInv, Calm, ClearInv, Calm', Types',
         \/ MqttInit \/ MqttInitFails \/ HandleMessage \/ MessageRead \/ Enqueue
         \/ TaskStep \/ \E k \in {"msgi", "break"} : ModemReport(k)
  PROVE  ClearInv'
<1> USE DEF callerVars, taskVars, parserVars, modemVars, history
<1> USE RestFacts DEF RestInv
<1>1. ASSUME UNCHANGED <<bits, want, got, rx, tx, answer, asked, op, pc, ret>>, OpenRoad'
      PROVE  ClearInv'
  BY <1>1, AllKept
<1>2. CASE MqttInit
  <2>1. UNCHANGED <<bits, want, got, rx, tx, answer, asked, op, pc, ret, ppc, queue>>
    BY <1>2 DEF MqttInit, groupVars
  <2> QED  BY <1>1, <2>1 DEF ClearInv, OpenRoad
<1>3. CASE MqttInitFails
  <2>1. /\ UNCHANGED <<bits, want, got, rx, tx, answer, asked, ret, ppc, queue>>
        /\ \A d \in Callers \ {Starter} : pc'[d] = pc[d] /\ op'[d] = op[d]
        /\ pc'[Starter] = "lock" /\ stage = "none"
    BY <1>3 DEF MqttInitFails, Goto, groupVars
  <2>2. \A d \in Callers : pc[d] = "idle" /\ ret[d] = "none"
    BY <2>1 DEF BaseInv, IInv, NoneInv, RetInv
  <2>3. \A d \in Callers, r \in Requests : ~Expecting(d, r)' /\ ~Expecting(d, r)
    BY <2>1, <2>2 DEF Expecting
  <2>4. PendInv'
    BY <2>1, <2>3, PendKept DEF ClearInv
  <2>5. AnsInv' /\ TxInv'
    BY <2>1, <2>2, LineKept DEF ClearInv
  <2>6. OutInv'
    BY <2>1, <2>2 DEF OutInv
  <2>7. OpenRoad'
    BY <2>1 DEF ClearInv, OpenRoad
  <2> QED  BY <2>4, <2>5, <2>6, <2>7 DEF ClearInv
<1>4. CASE HandleMessage \/ MessageRead
  BY <1>4 DEF HandleMessage, MessageRead, Calm, ClearInv, OpenRoad
<1>5. CASE Enqueue
  <2>1. UNCHANGED <<bits, want, got, rx, tx, answer, asked, op, pc, ret>> /\ ppc' = "read"
    BY <1>5 DEF Enqueue, groupVars
  <2> QED  BY <1>1, <2>1 DEF ClearInv, OpenRoad
<1>6. CASE TaskStep
  <2>1. /\ UNCHANGED <<bits, want, got, rx, tx, answer, asked, op, pc, ret, ppc>>
        /\ queue' = queue \/ (queue # <<>> /\ queue' = Tail(queue))
    BY <1>6 DEF TaskStep, TaskReceive, TaskFree, groupVars
  <2>2. Len(queue') <= Len(queue) /\ Len(queue) \in Nat /\ Len(queue') \in Nat
    BY <2>1 DEF BaseInv, Types, EventsType
  <2> QED  BY <1>1, <2>1, <2>2, MqttConstantsOK DEF ClearInv, OpenRoad, MqttConstantsOK
<1>7. ASSUME NEW k \in {"msgi", "break"}, ModemReport(k)
      PROVE  ClearInv'
  <2>1. /\ rx' = Append(rx, k) /\ k \in Lines
        /\ UNCHANGED <<bits, want, got, tx, answer, asked, op, pc, ret, ppc, queue>>
    BY <1>7 DEF ModemReport, Lines, groupVars
  <2>2. ASSUME NEW j \in Requests \cup {"ok", "error"} PROVE Count(rx', j) = Count(rx, j)
    <3>1. j # k
      BY DEF Requests
    <3>2. Count(rx', j) = Count(rx, j) + 0 /\ Count(rx, j) \in Nat
      BY <2>1, <3>1, CountAppend
    <3> QED  BY <3>2
  <2>3. \A r \in Requests : SomeExpecting(r)' <=> SomeExpecting(r)
    BY <2>1 DEF SomeExpecting, Expecting, Confirmed, RequestOf
  <2>4. PendInv'
    BY <2>1, <2>2, <2>3 DEF ClearInv, PendInv
  <2>5. Answering' <=> Answering
    BY <2>1 DEF Answering
  <2>6. AnsInv'
    BY <2>1, <2>2, <2>5 DEF ClearInv, AnsInv, Confirmed
  <2>7. TxInv' /\ OutInv'
    BY <2>1 DEF ClearInv, TxInv, OutInv, Confirmed, RequestOf
  <2>8. OpenRoad'
    BY <2>1 DEF ClearInv, OpenRoad
  <2> QED  BY <2>4, <2>6, <2>7, <2>8 DEF ClearInv
<1> QED  BY <1>2, <1>3, <1>4, <1>5, <1>6, <1>7

\* What got in the way once has got in the way.
LEMMA CalmBefore ==
  ASSUME Types, Works, Calm' PROVE Calm
<1> USE DEF callerVars, taskVars, parserVars, modemVars, history
<1>1. prompt \in BOOLEAN /\ disturbed \in BOOLEAN
  BY DEF Types, CallersType, LineType
<1>2. ASSUME NEW c \in Callers, CallWorks(c) \/ \E o \in OpKinds : Call(c, o)
      PROVE  UNCHANGED <<prompt, disturbed>>
  BY <1>2 DEF CallWorks, Call, TakeLock, ExecSend, AnswerTimesOut, Release, Await,
              WaitTimesOut, WaitDone, Delete
<1>3. CASE MqttInit \/ MqttInitFails \/ TaskStep \/ ModemServe
             \/ \E k \in {"msgi", "break"} : ModemReport(k)
  <2>1. UNCHANGED <<prompt, disturbed>>
    BY <1>3 DEF MqttInit, MqttInitFails, TaskStep, TaskReceive, TaskFree, ModemServe,
                ModemReport
  <2> QED  BY <2>1 DEF Calm
<1>4. CASE ParserStep
  <2>1. prompt' = prompt
    BY <1>4 DEF ParserStep, HandleAnswer, HandleReport, HandleMessage, MessageRead,
                Enqueue
  <2>2. disturbed => disturbed'
    <3>1. CASE HandleReport
      <4>1. disturbed' = (disturbed \/ Head(rx) = "break" \/ Len(queue) = QueueSize
                                    \/ "event" \notin made)
        BY <3>1, Zenon DEF HandleReport
      <4> QED  BY <4>1, Zenon
    <3>2. CASE HandleMessage
      BY <3>2, Zenon DEF HandleMessage
    <3>3. CASE HandleAnswer \/ MessageRead \/ Enqueue
      BY <3>3 DEF HandleAnswer, MessageRead, Enqueue
    <3> QED  BY <1>4, <3>1, <3>2, <3>3 DEF ParserStep
  <2> QED  BY <2>1, <2>2, Zenon DEF Calm
<1> QED  BY <1>2, <1>3, <1>4 DEF Calm, Works

LEMMA CalmNext ==
  ASSUME OneTaskPerRequest, RestInv, CalmInv, [Next]_vars PROVE CalmInv'
<1>1. CASE UNCHANGED vars
  <2>1. Calm' => Calm
    BY <1>1 DEF Calm, vars, history
  <2>2. UNCHANGED <<bits, want, got, rx, tx, answer, asked, op, pc, ret, ppc, queue>>
    BY <1>1 DEF vars, groupVars, callerVars, taskVars, parserVars, modemVars, history
  <2>3. ClearInv => OpenRoad'
    BY <2>2 DEF ClearInv, OpenRoad
  <2> QED  BY <2>1, <2>2, <2>3, AllKept DEF CalmInv
<1>2. CASE Break
  <2>1. Calm' => Calm
    BY <1>2 DEF Break, Calm, history
  <2>2. UNCHANGED <<bits, want, got, rx, tx, answer, asked, op, pc, ret, ppc, queue>>
    BY <1>2 DEF Break, groupVars, callerVars, taskVars, parserVars, modemVars, history
  <2>3. ClearInv => OpenRoad'
    BY <2>2 DEF ClearInv, OpenRoad
  <2> QED  BY <2>1, <2>2, <2>3, AllKept DEF CalmInv
<1>3. CASE Works
  <2> SUFFICES ASSUME Calm' PROVE ClearInv'
    BY DEF CalmInv
  <2>1. Calm /\ ClearInv /\ Types'
    BY <1>3, CalmBefore, TypesNext DEF RestInv, BaseInv, CalmInv
  <2>0. stage # "broken"
    BY <1>3 DEF Works
  <2>2. CASE \E c \in Callers : CallWorks(c) \/ \E o \in OpKinds : Call(c, o)
    BY <2>0, <2>1, <2>2, ClearCalls, ClearWaits DEF CallWorks
  <2>3. CASE HandleAnswer
    BY <2>1, <2>3, ClearAnswer
  <2>4. CASE HandleReport
    BY <2>0, <2>1, <2>4, ClearReport
  <2>5. CASE ModemServe
    BY <2>0, <2>1, <2>5, ClearServe
  <2>6. CASE \/ MqttInit \/ MqttInitFails \/ HandleMessage \/ MessageRead \/ Enqueue
             \/ TaskStep \/ \E k \in {"msgi", "break"} : ModemReport(k)
    BY <2>1, <2>6, ClearRest
  <2> QED  BY <1>3, <2>2, <2>3, <2>4, <2>5, <2>6 DEF Works, ParserStep
<1> QED  BY <1>1, <1>2, <1>3, Steps

\* With timeouts longer than answers take, and nothing in the way, a function
\* returns true exactly if the modem has confirmed this very call.
THEOREM TrueIsConfirmed ==
  ASSUME OneTaskPerRequest
  PROVE  Spec => []TrueMeansConfirmed
<1>1. Init => LockInv /\ AskInv /\ RetInv /\ CalmInv
  <2> SUFFICES ASSUME Init PROVE LockInv /\ AskInv /\ RetInv /\ CalmInv
    OBVIOUS
  <2>1. /\ \A c \in Callers : /\ pc[c] = "idle" /\ ret[c] = "none" /\ asked[c] = 0
                              /\ want[c] = {}
        /\ sent = 0 /\ rx = <<>> /\ tx = <<>> /\ bits = {} /\ ppc = "read"
    BY DEF Init, InitGroup
  <2>2. LockInv /\ AskInv /\ RetInv
    BY <2>1 DEF LockInv, AskInv, RetInv
  <2>3. \A r \in Requests : ~SomeExpecting(r)
    BY <2>1 DEF SomeExpecting, Expecting
  <2>4. PendInv
    BY <2>1, <2>3, CountEmpty DEF PendInv
  <2>5. AnsInv
    BY <2>1, CountEmpty DEF AnsInv
  <2>6. OpenRoad /\ TxInv /\ OutInv
    BY <2>1 DEF OpenRoad, TxInv, OutInv
  <2> QED  BY <2>2, <2>4, <2>5, <2>6 DEF CalmInv, ClearInv
<1>2. BaseInv /\ LockInv /\ AskInv /\ RetInv /\ CalmInv /\ [Next]_vars =>
        LockInv' /\ AskInv' /\ RetInv' /\ CalmInv'
  <2> SUFFICES ASSUME BaseInv, LockInv, AskInv, RetInv, CalmInv, [Next]_vars
               PROVE  LockInv' /\ AskInv' /\ RetInv' /\ CalmInv'
    OBVIOUS
  <2>1. CalmInv'
    BY CalmNext DEF RestInv
  <2>2. CASE UNCHANGED vars
    BY <2>1, <2>2 DEF LockInv, AskInv, RetInv, vars, callerVars, history
  <2>3. CASE Break
    BY <2>1, <2>3 DEF Break, LockInv, AskInv, RetInv, callerVars, history
  <2>4. CASE Works
    BY <2>1, <2>4, LockNext, AskNext, RetNext DEF BaseInv
  <2> QED  BY <2>2, <2>3, <2>4, Steps
<1>3. CalmInv => TrueMeansConfirmed
  BY DEF CalmInv, Calm, ClearInv, OutInv, TrueMeansConfirmed
<1> QED  BY <1>1, <1>2, <1>3, BaseAlways, PTL DEF Spec
=============================================================================

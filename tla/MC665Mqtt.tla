----------------------------- MODULE MC665Mqtt ------------------------------
(***************************************************************************)
(* The MQTT service of components/mc665/mc665_mqtt.c.  A call sends a      *)
(* command under the driver's mutex and then waits, without it, for an     *)
(* event bit.  The URC handler, in the parser thread, sets the bit and     *)
(* puts an event into a queue; while the queue is full it waits, and reads *)
(* no line.  The dispatch task takes the events out, runs the callback of  *)
(* the application, which may itself call the service, and frees messages. *)
(*                                                                         *)
(* The commands of one call (mqtt_open has three) are one exchange here,   *)
(* answered OK or not: MC665Commands has their sequence.  sent, asked,     *)
(* answer, handled, delivered, credit and disturbed are history.           *)
(*                                                                         *)
(* Some steps of the code use what does not exist: the driver or an event  *)
(* group that is NULL, a queue that is being deleted.  What the program    *)
(* does from then on is not modelled: the stage is then "broken".          *)
(***************************************************************************)
EXTENDS Integers, Sequences, EventGroup

CONSTANTS
  Callers,    \* the tasks that use the service
  Starter,    \* the one that creates and deletes it
  Dispatch,   \* the dispatch task, which calls from inside its callback
  None,       \* "nobody"
  Ops,        \* Ops[c]: the functions caller c uses
  MaxCalls,   \* bound: MaxCalls[c] calls of c
  QueueSize,  \* 10 in the code
  MaxSpont,   \* bound: messages and broken connections
  Prompts     \* the choices for `prompt'

Requests == {"open", "sub", "unsub", "pub", "close"}
OpKinds == Requests \cup {"delete"}

ASSUME MqttConstantsOK ==
  /\ Starter \in Callers /\ Dispatch \in Callers \ {Starter}
  /\ None \notin Callers
  /\ Ops \in [Callers -> SUBSET OpKinds]
  /\ "delete" \notin Ops[Dispatch]
  /\ MaxCalls \in [Callers -> Nat]
  /\ QueueSize \in Nat \ {0} /\ MaxSpont \in Nat
  /\ Prompts \subseteq BOOLEAN

VARIABLES
  prompt,            \* never changes; TRUE: timeouts are longer than answers take
  stage, made,       \* how far init or delete is, and what exists
  drvLock,           \* s_mqtt_drv.drv->mutex: its holder
  pc, op, ret, calls,       \* the callers
  queue, tpc, tmsg,         \* the event queue and the dispatch task
  ppc, pev,                 \* the parser thread, and the event it has made
  tx, rx, connected, spont, \* the serial line and the modem
  held,                     \* the messages whose memory is allocated
  \* history: requests sent, number of each caller's last one and what the modem
  \* did with it; events made and delivered; confirmations sent less those a
  \* call has returned true for; whether something got in the way
  sent, asked, answer, handled, delivered, credit, disturbed

callerVars == <<pc, op, ret, calls>>
taskVars == <<queue, tpc, tmsg>>
parserVars == <<ppc, pev>>
modemVars == <<tx, rx, connected, spont>>
history == <<sent, asked, answer, handled, delivered, credit, disturbed>>
vars == <<prompt, stage, made, drvLock, callerVars, taskVars, parserVars,
          modemVars, held, history, groupVars>>

Everything == {"event", "uri", "queue", "task"}

\* What a failed mc665_mqtt_init leaves behind: its objects come in this order.
Leftovers == {{}, {"event"}, {"event", "uri"}, {"event", "uri", "queue"}}

\* An event in the queue.  Messages own memory, named by the event's number.
Events == [kind : Requests \cup {"break", "data"}, num : Nat]
NoEvent == [kind |-> "data", num |-> 0]

\* A line: "ok" or "error" to a command, a confirmation or report, or +MQTTMSGI.
Lines == Requests \cup {"ok", "error", "break", "msgi"}

\* delete starts with a close.
RequestOf(o) == IF o = "delete" THEN "close" ELSE o

-----------------------------------------------------------------------------
Init ==
  /\ prompt \in Prompts
  /\ stage = "none" /\ made = {}
  /\ drvLock = None
  /\ pc = [c \in Callers |-> "idle"]
  /\ op = [c \in Callers |-> "none"]
  /\ ret = [c \in Callers |-> "none"]
  /\ calls = [c \in Callers |-> 0]
  /\ queue = <<>> /\ tpc = "receive" /\ tmsg = NoEvent
  /\ ppc = "read" /\ pev = NoEvent
  /\ tx = <<>> /\ rx = <<>> /\ spont = 0
  /\ connected \in BOOLEAN  \* this program may have restarted, the modem not
  /\ held = {}
  /\ sent = 0 /\ asked = [c \in Callers |-> 0]
  /\ answer = [c \in Callers |-> <<>>]
  /\ handled = 0 /\ delivered = 0
  /\ credit = [r \in Requests |-> 0]
  /\ disturbed = FALSE
  /\ InitGroup(Callers)

Goto(c, label) == pc' = [pc EXCEPT ![c] = label]

MqttInit ==
  /\ stage = "none"
  /\ stage' = "ready" /\ made' = Everything
  /\ UNCHANGED <<prompt, drvLock, callerVars, taskVars, parserVars, modemVars,
                 held, history, groupVars>>

Break ==
  /\ stage' = "broken"
  /\ UNCHANGED <<prompt, made, drvLock, callerVars, taskVars, parserVars,
                 modemVars, held, history, groupVars>>

\* Without a driver init deletes, and so closes, with the mutex of that driver.
InitBreaks == stage = "none" /\ Break

\* A creation fails: init deletes what there is, and so closes first.
MqttInitFails ==
  /\ stage = "none"
  /\ stage' = "failing" /\ made' \in Leftovers
  /\ Goto(Starter, "lock")
  /\ op' = [op EXCEPT ![Starter] = "delete"]
  /\ UNCHANGED <<prompt, drvLock, ret, calls, taskVars, parserVars, modemVars,
                 held, history, groupVars>>

-----------------------------------------------------------------------------
(* The calls *)

Call(c, o) ==
  /\ stage = "ready" /\ pc[c] = "idle" /\ calls[c] < MaxCalls[c] /\ o \in Ops[c]
  /\ c = Dispatch => tpc = "callback"
  /\ Goto(c, "lock")
  /\ op' = [op EXCEPT ![c] = o]
  /\ ret' = [ret EXCEPT ![c] = "none"]
  /\ calls' = [calls EXCEPT ![c] = @ + 1]
  /\ UNCHANGED <<prompt, stage, made, drvLock, taskVars, parserVars, modemVars,
                 held, history, groupVars>>

TakeLock(c) ==
  /\ pc[c] = "lock" /\ drvLock = None
  /\ drvLock' = c
  /\ Goto(c, "exec")
  /\ UNCHANGED <<prompt, stage, made, op, ret, calls, taskVars, parserVars,
                 modemVars, held, history, groupVars>>

ExecSend(c) ==
  /\ pc[c] = "exec"
  /\ tx' = Append(tx, [req |-> RequestOf(op[c]), num |-> sent + 1])
  /\ sent' = sent + 1
  /\ asked' = [asked EXCEPT ![c] = sent + 1]
  /\ answer' = [answer EXCEPT ![c] = <<>>]
  /\ Goto(c, "answer")
  /\ UNCHANGED <<prompt, stage, made, drvLock, op, ret, calls, taskVars,
                 parserVars, rx, connected, spont, held, handled, delivered,
                 credit, disturbed, groupVars>>

\* A command that waits for its answer holds client->lock; a handler that reads
\* a message needs it.
ClientLocked == \E c \in Callers : pc[c] = "answer"
ParserStuck == \/ ppc = "message" /\ ClientLocked
               \/ ppc = "enqueue" /\ Len(queue) = QueueSize
Quiet == tx = <<>> /\ rx = <<>> /\ ppc = "read"
MayTimeOut == prompt => Quiet \/ ParserStuck

\* Mutant: a command waits for ever.
AnswerNeverTimesOut(c) ==
  /\ pc[c] = "answer" /\ Quiet
  /\ Goto(c, "refused")
  /\ UNCHANGED <<prompt, stage, made, drvLock, op, ret, calls, taskVars,
                 parserVars, modemVars, held, history, groupVars>>

AnswerTimesOut(c) ==
  /\ pc[c] = "answer" /\ MayTimeOut
  /\ Goto(c, "refused")
  /\ UNCHANGED <<prompt, stage, made, drvLock, op, ret, calls, taskVars,
                 parserVars, modemVars, held, history, groupVars>>

\* What a call does last: a delete goes on, whatever close has returned.
Finish(c, r) ==
  /\ ret' = [ret EXCEPT ![c] = r]
  /\ Goto(c, IF op[c] = "delete" THEN "delete" ELSE "idle")

Release(c) ==
  /\ pc[c] \in {"answered", "refused"}
  /\ drvLock' = None
  /\ IF pc[c] = "answered" THEN Goto(c, "await") /\ UNCHANGED ret
                           ELSE Finish(c, "false")
  /\ UNCHANGED <<prompt, stage, made, op, calls, taskVars, parserVars,
                 modemVars, held, history, groupVars>>

\* Mutant: the wait leaves the bits set.
AwaitKeepsBits(c) ==
  LET wanted == {RequestOf(op[c]), "break"}
  IN  /\ pc[c] = "await"
      /\ IF wanted \cap bits # {}
         THEN got' = [got EXCEPT ![c] = bits] /\ UNCHANGED <<bits, want>>
         ELSE WaitBits(c, wanted)
      /\ Goto(c, "wait")
      /\ UNCHANGED <<prompt, stage, made, drvLock, op, ret, calls, taskVars,
                     parserVars, modemVars, held, history>>

Await(c) ==
  /\ pc[c] = "await" /\ "event" \in made
  /\ WaitBits(c, {RequestOf(op[c]), "break"})
  /\ Goto(c, "wait")
  /\ UNCHANGED <<prompt, stage, made, drvLock, op, ret, calls, taskVars,
                 parserVars, modemVars, held, history>>

WaitTimesOut(c) ==
  /\ want[c] # {} /\ MayTimeOut
  /\ WaitExpires(c)
  /\ UNCHANGED <<prompt, stage, made, drvLock, callerVars, taskVars, parserVars,
                 modemVars, held, history>>

WaitDone(c) ==
  LET r == RequestOf(op[c])
  IN  /\ pc[c] = "wait" /\ want[c] = {}
      /\ Finish(c, IF r \in got[c] THEN "true" ELSE "false")
      /\ credit' = IF r \in got[c] THEN [credit EXCEPT ![r] = @ - 1] ELSE credit
      /\ UNCHANGED <<prompt, stage, made, drvLock, op, calls, taskVars,
                     parserVars, modemVars, held, sent, asked, answer, handled,
                     delivered, disturbed, groupVars>>

\* A queue at which the handler waits, or a task in the middle of a call.
InUse(c) == ppc = "enqueue" \/ \E d \in Callers \ {c} : pc[d] # "idle"

\* The rest of mc665_mqtt_delete.  Messages in the queue are not freed.
Delete(c) ==
  /\ pc[c] = "delete" /\ ~InUse(c)
  /\ made' = {} /\ stage' = "deleted"
  /\ queue' = <<>> /\ tpc' = "receive" /\ tmsg' = NoEvent
  /\ DeleteGroup
  /\ Goto(c, "idle")
  /\ UNCHANGED <<prompt, drvLock, op, ret, calls, parserVars, modemVars, held,
                 history>>

\* A close that is answered OK waits for the event group, also in an init that
\* has not created it; delete asks nobody whether its objects are in use.
CallBreaks(c) ==
  /\ \/ pc[c] = "await" /\ "event" \notin made
     \/ pc[c] = "delete" /\ InUse(c)
  /\ Break

CallStep(c) ==
  /\ stage # "broken"
  /\ \/ TakeLock(c) \/ ExecSend(c) \/ AnswerTimesOut(c) \/ Release(c)
     \/ Await(c) \/ WaitTimesOut(c) \/ WaitDone(c) \/ Delete(c)
     \/ CallBreaks(c)

-----------------------------------------------------------------------------
(* The URC handler and, for the answers to commands, the parser *)

HandleAnswer ==
  /\ ppc = "read" /\ rx # <<>> /\ Head(rx) \in {"ok", "error"}
  /\ rx' = Tail(rx)
  /\ pc' = [c \in Callers |-> IF pc[c] # "answer" THEN pc[c]
                              ELSE IF Head(rx) = "ok" THEN "answered"
                              ELSE "refused"]
  /\ UNCHANGED <<prompt, stage, made, drvLock, op, ret, calls, taskVars,
                 parserVars, tx, connected, spont, held, history, groupVars>>

\* Hand an event over to the queue, if there is one.
Post(kind) ==
  IF "queue" \in made
  THEN /\ ppc' = "enqueue"
       /\ pev' = [kind |-> kind, num |-> handled + 1]
       /\ handled' = handled + 1
  ELSE ppc' = "read" /\ UNCHANGED <<pev, handled>>

\* The status that the line carries is not looked at.
HandleReport ==
  LET k == Head(rx)
  IN  /\ ppc = "read" /\ rx # <<>> /\ k \in Requests \cup {"break"}
      /\ rx' = Tail(rx)
      /\ IF "event" \in made THEN SetBits({k}) ELSE UNCHANGED groupVars
      /\ IF k = "close" THEN UNCHANGED <<ppc, pev, handled>> ELSE Post(k)
      /\ disturbed' = (disturbed \/ k = "break" \/ Len(queue) = QueueSize
                                 \/ "event" \notin made)
      /\ UNCHANGED <<prompt, stage, made, drvLock, callerVars, taskVars, tx,
                     connected, spont, held, sent, asked, answer, delivered,
                     credit>>

\* A message that does not fit the line buffer is not read at all.
HandleMessage ==
  /\ ppc = "read" /\ rx # <<>> /\ Head(rx) = "msgi"
  /\ rx' = Tail(rx)
  /\ ppc' \in {"message", "read"}
  /\ disturbed' = TRUE
  /\ UNCHANGED <<prompt, stage, made, drvLock, callerVars, taskVars, pev, tx,
                 connected, spont, held, sent, asked, answer, handled,
                 delivered, credit, groupVars>>

\* AT+MQTTREAD and the bytes that follow, among them lines that were on their
\* way already; the read fails, or the message is copied.
MessageRead ==
  /\ ppc = "message" /\ ~ClientLocked
  /\ \E n \in 0..Len(rx) : rx' = SubSeq(rx, n + 1, Len(rx))
  /\ \/ ppc' = "read" /\ UNCHANGED <<pev, handled, held>>
     \/ Post("data") /\ held' = held \cup {handled + 1}
  /\ UNCHANGED <<prompt, stage, made, drvLock, callerVars, taskVars, tx,
                 connected, spont, sent, asked, answer, delivered, credit,
                 disturbed, groupVars>>

\* Mutant: an event for a full queue is dropped with its memory.
EnqueueOrDrop ==
  /\ ppc = "enqueue"
  /\ IF Len(queue) < QueueSize THEN queue' = Append(queue, pev)
                               ELSE UNCHANGED queue
  /\ ppc' = "read" /\ pev' = NoEvent
  /\ UNCHANGED <<prompt, stage, made, drvLock, callerVars, tpc, tmsg, modemVars,
                 held, history, groupVars>>

Enqueue ==
  /\ ppc = "enqueue" /\ Len(queue) < QueueSize
  /\ queue' = Append(queue, pev)
  /\ ppc' = "read" /\ pev' = NoEvent
  /\ UNCHANGED <<prompt, stage, made, drvLock, callerVars, tpc, tmsg, modemVars,
                 held, history, groupVars>>

ParserStep ==
  /\ stage # "broken"
  /\ HandleAnswer \/ HandleReport \/ HandleMessage \/ MessageRead \/ Enqueue

-----------------------------------------------------------------------------
(* The dispatch task *)

TaskReceive ==
  /\ "task" \in made /\ tpc = "receive" /\ queue # <<>>
  /\ tmsg' = Head(queue) /\ queue' = Tail(queue)
  /\ delivered' = Head(queue).num
  /\ tpc' = "callback"
  /\ UNCHANGED <<prompt, stage, made, drvLock, callerVars, parserVars,
                 modemVars, held, sent, asked, answer, handled, credit,
                 disturbed, groupVars>>

\* Mutant: the memory of a message is not freed.
TaskForgetsFree ==
  /\ tpc = "callback" /\ pc[Dispatch] = "idle"
  /\ tpc' = "receive" /\ tmsg' = NoEvent
  /\ UNCHANGED <<prompt, stage, made, drvLock, callerVars, queue, parserVars,
                 modemVars, held, history, groupVars>>

\* The callback returns, and the memory of a message is freed.
TaskFree ==
  /\ tpc = "callback" /\ pc[Dispatch] = "idle"
  /\ held' = IF tmsg.kind = "data" THEN held \ {tmsg.num} ELSE held
  /\ tpc' = "receive" /\ tmsg' = NoEvent
  /\ UNCHANGED <<prompt, stage, made, drvLock, callerVars, queue, parserVars,
                 modemVars, history, groupVars>>

TaskStep == stage # "broken" /\ (TaskReceive \/ TaskFree)

-----------------------------------------------------------------------------
(* The modem (external) *)

\* It answers a request, or not, and confirms what it has answered with OK, or
\* not.
AnswersTo(r) == {<<>>, <<"error">>, <<"ok">>, <<"ok", r>>}

Confirmed(a) == Len(a) = 2

ModemServe ==
  LET r == Head(tx).req
  IN  /\ tx # <<>> /\ stage # "broken"
      /\ tx' = Tail(tx)
      /\ \E a \in AnswersTo(r) :
           /\ rx' = rx \o a
           /\ answer' = [c \in Callers |-> IF asked[c] = Head(tx).num
                                           THEN a ELSE answer[c]]
           /\ credit' = IF Confirmed(a) THEN [credit EXCEPT ![r] = @ + 1]
                                        ELSE credit
           /\ connected' \in IF Confirmed(a) /\ r \in {"open", "close"}
                             THEN {connected, r = "open"} ELSE {connected}
      /\ UNCHANGED <<prompt, stage, made, drvLock, callerVars, taskVars,
                     parserVars, spont, held, sent, asked, handled, delivered,
                     disturbed, groupVars>>

\* An open connection brings a message, or breaks.  Before init these are lines
\* that nobody waits for.
ModemReport(k) ==
  /\ stage \notin {"none", "broken"} /\ connected /\ spont < MaxSpont
  /\ rx' = Append(rx, k)
  /\ spont' = spont + 1
  /\ connected' = (k # "break")
  /\ UNCHANGED <<prompt, stage, made, drvLock, callerVars, taskVars, parserVars,
                 tx, held, history, groupVars>>

Terminated ==
  /\ stage # "none" /\ Quiet
  /\ \A c \in Callers : pc[c] = "idle"
  /\ tpc = "receive" /\ queue = <<>>
  /\ UNCHANGED vars

Broken == stage = "broken" /\ UNCHANGED vars

Next == \/ MqttInit \/ MqttInitFails \/ InitBreaks
        \/ \E c \in Callers : CallStep(c) \/ \E o \in OpKinds : Call(c, o)
        \/ ParserStep \/ TaskStep
        \/ ModemServe \/ \E k \in {"msgi", "break"} : ModemReport(k)
        \/ Terminated \/ Broken

Spec == Init /\ [][Next]_vars

\* Every ready task runs.  ModemServe is the moment from which a request is
\* answered or never will be; it comes for each.
FairSpec == /\ Spec
            /\ \A c \in Callers : WF_vars(CallStep(c))
            /\ WF_vars(ParserStep) /\ WF_vars(TaskStep) /\ WF_vars(ModemServe)

-----------------------------------------------------------------------------
(* Properties *)

PcLabels == {"idle", "lock", "exec", "answer", "answered", "refused", "await",
             "wait", "delete"}
BitNames == Requests \cup {"break"}

\* Every variable has a value of its type; the queue keeps its size.
TypeOK ==
  /\ prompt \in BOOLEAN
  /\ stage \in {"none", "ready", "failing", "deleted", "broken"}
  /\ made \subseteq Everything
  /\ drvLock \in Callers \cup {None}
  /\ pc \in [Callers -> PcLabels]
  /\ op \in [Callers -> OpKinds \cup {"none"}]
  /\ ret \in [Callers -> {"none", "true", "false"}]
  /\ calls \in [Callers -> Nat]
  /\ queue \in Seq(Events) /\ Len(queue) <= QueueSize
  /\ tpc \in {"receive", "callback"}
  /\ tmsg \in Events
  /\ ppc \in {"read", "message", "enqueue"}
  /\ pev \in Events
  /\ tx \in Seq([req : Requests, num : Nat])
  /\ rx \in Seq(Lines)
  /\ connected \in BOOLEAN
  /\ spont \in Nat
  /\ held \subseteq Nat
  /\ sent \in Nat
  /\ asked \in [Callers -> Nat]
  /\ answer \in [Callers -> Seq(Lines)]
  /\ handled \in Nat
  /\ delivered \in Nat
  /\ credit \in [Requests -> Int]
  /\ disturbed \in BOOLEAN
  /\ bits \subseteq BitNames
  /\ want \in [Callers -> SUBSET BitNames]
  /\ got \in [Callers -> SUBSET BitNames]

Pending == IF ppc = "enqueue" THEN <<pev>> ELSE <<>>

\* Every event the handler makes reaches the callback once, in the order of the
\* lines, however slow the callback is and however full the queue.
EventsInOrder ==
  LET waiting == queue \o Pending
  IN  stage = "ready" =>
        /\ Len(waiting) = handled - delivered
        /\ \A i \in DOMAIN waiting : waiting[i].num = delivered + i

InFlight == {e \in {tmsg, pev} \cup {queue[i] : i \in DOMAIN queue} :
               e.kind = "data" /\ e.num # 0}

\* The memory of a message belongs to the handler, the queue or the dispatch
\* task, until that has freed it after the callback: none leaks, and no
\* callback sees a message that is freed.
MessageMemory ==
  stage = "ready" => held = {e.num : e \in InFlight}

\* Each function is used by one task.  Two that wait for the same bit are both
\* woken by one confirmation, and the code does not tell them apart.
OneTaskPerRequest ==
  \A c, d \in Callers : \A o \in Ops[c], p \in Ops[d] :
    RequestOf(o) = RequestOf(p) => c = d

\* If one task uses it, a function returns true at most as often as the modem
\* has sent the confirmation it waits for: no timeout, broken connection or
\* stale bit makes two of one.
NoConfirmationTwice ==
  \A r \in Requests : credit[r] >= 0

\* With one task for each function, timeouts longer than answers take, no
\* message, no broken connection, no full queue and an event group for each
\* confirmation that comes, a function returns true exactly if the modem has
\* confirmed this very call.
TrueMeansConfirmed ==
  \A c \in Callers :
    prompt /\ ~disturbed /\ pc[c] = "idle" /\ ret[c] # "none" =>
      (ret[c] = "true" <=> Confirmed(answer[c]))

Busy == ppc # "read" \/ \E c \in Callers : pc[c] # "idle"

\* Nobody waits on anybody for ever.  Calls return, also those a callback makes
\* while the parser waits for room in the queue that only this callback's task
\* can make; the parser comes back from a handler that waits for the client's
\* mutex or for room.  (Each task makes a bounded number of calls, so there is a
\* moment when all have returned, unless the program breaks.)
NothingHangs == Busy ~> ~Busy \/ stage = "broken"
=============================================================================

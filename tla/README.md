# A TLA+ model of AT_Client

AT_Client is ESP32 firmware (FreeRTOS, two cores) that drives an MC665 cellular
modem over a UART: an AT command client ported from RT-Thread, a modem driver,
MQTT and HTTP services on top of it, and a firmware update (OTA) task.

Contents: 1 the system, 2 the modules, 3 the runs, 4 the proofs, 5 what the
project found, 6 what is not modelled, 7 what is left.

## 1. The system

### Components

| part | source | state | operations |
|---|---|---|---|
| AT client | `components/at_client/at_client.c`, `at.h`, `at_adapter.*`, `at_utils.c` | `client->lock` (mutex), `resp`, `resp_status`, `resp_notice` (binary semaphore), `end_sign`, `recv_line_buf`, the URC table; the response objects | `at_obj_exec_cmd`, `at_client_obj_wait_connect`, `at_client_obj_send`, `at_client_obj_recv`, `at_obj_set_end_sign`, `at_obj_set_urc_table`, `at_resp_set_info`; the parser thread `client_parser` |
| Response text | `at_client.c:145-273` | none | `at_resp_get_line`, `at_resp_get_line_by_kw`, `at_resp_parse_line_args` |
| MC665 driver | `components/mc665/mc665.c` | `status`, `event` (SIM ready, SIM drop), `mutex`, one shared `resp` | the driver task (a state machine), the SIM URC handler, one wrapper per AT command, `mc665_take_lock` / `mc665_release_lock` |
| MQTT | `components/mc665/mc665_mqtt.c`, `interface/mqtt_interface.*` | `event` (7 bits), `queue` (10 messages), `callback` | init, open, close, delete, subscribe, unsubscribe, publish; the URC handler; the dispatch task |
| HTTP | `components/mc665/mc665_http.c` | `event`, `mutex`, `msg` (points into a caller's stack), status and length | init, set_param, start, post, read_resp, read_status, read_data; the URC handler |
| OTA | `main/mc665_ota.c`, `interface/ota_interface.*` | `status`, `ignore_version_check`, URL, flash handle | init, start, the download task |
| UART | `components/bsp_driver/at_uart_drv.c`, `interface/com_interface.*` | an RX ring of 2048 bytes | init, read, write |
| Application | `main/main.c` | none | creates the parts, opens MQTT when an address has been got |

### How they interact

* A **task** (driver task, MQTT dispatch task, OTA task, application callbacks)
  calls the AT client. `at_obj_exec_cmd` takes `client->lock`, publishes its
  response object in `client->resp`, writes the command, and waits on the
  semaphore `resp_notice` with a timeout.
* The **parser thread** reads lines. A line that matches the URC table runs a
  handler in the parser thread; any other line goes into `client->resp` if that
  is set. The parser takes no lock: `client->resp`, `resp_status` and the
  response object are shared with the tasks through interleavings only.
* **URC handlers** set event bits, post to a queue, or send a command
  themselves. While one runs, no line is read.
* Several AT commands that belong together are protected by a second mutex,
  `mc665_drv_t.mutex` (`mc665.h:65`). URC handlers do not take it.
* Callers of the MQTT and HTTP functions wait on **event bits** that the URC
  handlers set; a bit nobody consumed stays set.

### What is hard

The parser and the tasks run on two cores and share state without a lock;
answers are matched to commands by time only; every wait has a timeout that can
race a late answer; the parser thread blocks inside handlers (on the client's
mutex, on a full queue); one stack buffer is filled by another thread; several
starts of the update may overlap.

### What makes each part correct

* AT client: a command's result and response are the modem's answer to *that*
  command; nothing is written to the line between a command and its answer;
  every call returns; the parser always comes back to reading.
* Response text: the parser gets whole lines, and line *i* of a response is the
  *i*-th line stored.
* Several commands in a row: nobody gets in between, and the settings they change
  are restored whatever fails.
* Driver: the modem is brought up in order, and a lost SIM leads back to the
  wait for a SIM.
* MQTT: a call returns success only for its own confirmation; every message is
  handed to the callback once, in order, and freed once.
* HTTP: data is only written to the caller's buffer while the caller waits.
* OTA: at most one update runs; every byte of the image is written once.

## 2. The modules

| module | what it is |
|---|---|
| `ATClient` | the AT client: tasks, parser thread, URC handlers that send, serial line and modem |
| `ATService` | what `at_obj_exec_cmd` promises, without parser, semaphore or shared pointer |
| `ATClientService` | the refinement mapping from `ATClient` to `ATService` |
| `ATText` | the text side of the client: cutting lines, packing them, finding them again |
| `MC665Commands` | the driver's functions: sequences of calls of `ATClient` under the driver's mutex |
| `EventGroup` | a FreeRTOS event group (external), used by the two services |
| `MC665Mqtt` | the MQTT service: calls, handler, queue, dispatch task |
| `MC665Http` | the HTTP service: calls, handler, the pointer to a caller's stack |
| `ContentLength` | `mc665_read_content_length`: a header search through a window |
| `MC665Driver` | `mc665_init`, the driver task and the SIM handler |
| `MC665Ota` | `ota_start` and the update tasks |
| `MCATClient`, `MCATText`, `MCMC665Commands`, `MCMC665Mqtt`, `MCMC665Http`, `MCContentLength` | values for the constants of the runs |
| `MCReliable` | `MCATClient` with the hypotheses of the proofs about `ATClientService`, which TLC evaluates; those of `MC665Commands` are evaluated by its MC module |
| `ATClientProofs`, `ATTextProofs`, `MC665CommandsProofs`, `MC665DriverProofs`, `ContentLengthProofs`, `MC665HttpProofs`, `MC665MqttProofs`, `MC665OtaProofs` | the theorems |

`MC665Commands` extends `ATClient`: its steps start calls of the client and then
interleave with every step of client and parser. `ATClientService` extends
`ATClient` and instantiates `ATService`. `MC665Mqtt` and `MC665Http` extend
`EventGroup` and take a command for one exchange, whose interleavings `ATClient` has.

`PROJECT.json` maps every definition to the lines it stands for. Each definition
called a mutant in its comment is a variant of the one after it, with a bug that
the property named there finds.

### ATClient

*State.* `lock`, `clientResp`, `respStatus`, `sem`, `endSign` are
`client->lock`, `resp`, `resp_status`, `resp_notice` and `end_sign`. `resp` holds
the response objects: those of the `exec` calls (`Own(t)`, the object
`RespUsed` gives to task t; all tasks share one in `MC665Commands`), and the one
`wait_connect` allocates (`Tmp`); `live` says which of the latter exist. `pc`,
`call`, `tries`, `result` are a task's place, function, number of probes and
return value; `ppc`, `pline`, `presp`, `partial` are the parser's place, the line
it is storing, its local `resp`, and whether text without a line end is in
`recv_line_buf`. `tx` and `rx` are the two directions of the UART.

*Steps.* A step is one access, or one group of accesses nobody else can
separate, to what the parser and the tasks share. For `at_obj_exec_cmd` they are
`CallExec`, `TakeLock`, `ExecPrepare` (lines 311-319), `ResetSem` (320),
`ExecWrite` (322-326), `Woken` or `TimedOut` (328), `CheckStatus` (336), `Finish`
(345-351). The clearing of the response and the store of `client->resp` are one
step because the mutex is held and `client->resp` is NULL until the store.
For the parser they are `ReadResponse` (test and copy of `client->resp`),
`StoreLine`, `ClearResp`, `Notify`: a task can act between any two.

*Abstractions.*

* A line is one of a few kinds: the kinds the parser tells apart, and those whose
  size or origin matters. Its characters are `ATText`'s; a raw read
  (`at_client_obj_recv`) takes whole lines.
* A `>` that ends no line is put in front of the next line (`Glue`), as in
  `at_recv_readline`, so that line is then recognised as an error only.
* `client->resp` is tested and copied by one load. The source reads it twice
  (729 and 731), with nothing stored in between, and the build is `-Os`.
* `exec_null` is `at_obj_exec_cmd` with no response. Nothing in `src/` calls it so;
  it is a part of the API and has a branch of its own.
* `Prompt` says that no timeout is shorter than an answer takes: a wait then ends
  by timeout only if no answer is on its way and the parser has nothing to read
  or is stuck on the mutex. It is the assumption under which the API can
  be relied on; with `Prompt = FALSE` a timeout may come at any moment.
* `from` (in a line), `cmd` and `given` are history variables: the number of the
  command a line answers, of the last command of a task, and all answers given.
  No step of the code reads them.

### ATService and the refinement

`ATService` has four variables: whose command is on its way, the answer the modem
has given to it, and the result and lines each caller got. A call is `Call`, `Send`,
at most one `Reply`, and `Return` with the `Verdict` that the answer calls for and
its lines, whole and in order. In `ATClientService` a command is on its way from
the step that writes it to the one that releases the mutex; result and lines are
visible when the call has returned. Every other step of the client (the parser's
four steps per line, the semaphore, the store and the clearing of
`client->resp`) is a stutter of the service. The refinement holds for `Prompt` and
without a handler that sends: `late_answer` and `handler_blocks` show how it fails
otherwise. An answer that does not fit is returned as `Cut` with the verdict of its
last line, since that is what the code does.

### ATText

*State.* `line`, `isFull`, `lastCh` are the line buffer and the locals of
`at_recv_readline`; `got` says that it has returned a line. `text`, `len`, `count`,
`num` are `buf`, `buf_len`, `line_counts` and `line_num` of one response; `waiting`
is `client->resp != NULL`. `raw`, `ended` and `stored` are the reference: the stream
cut into lines without a buffer, and the lines stored since the last command.

*Steps.* `Receive` is one turn of the loop of `at_recv_readline` (`CutLine`), `Parse`
one turn of `client_parser`. Callers send (`Exec`), time out, switch the end sign
and register a URC table. `GetLine` and `GetLineByKw` are functions of the state.
`at_obj_exec_cmd` resets the counts and not the text, so what `strlen` walks over
may be older text; that is what `GetLineFindsLine` is about.

*Abstractions.* A character stands for a class of texts: `k` is OK, `e` is ERROR (or
FAIL), `+` the prefix of a registered URC. There is no concurrency here.

### MC665Commands

*State.* `drvLock` is `mc665_drv_t.mutex`, `lineNum` the `line_num` of the shared
response; `op`, `pos`, `running`, `failed` are the function a task is in, its place,
whether the client is at work for it, and `!ret`. `written` is history: who wrote
each item to the line.

*Steps.* A function is a sequence of `Step`s (`Function`): an exec, a raw send, a
change of the end sign or of `line_num`, a `wait_connect`. `&&` in the source makes a
step that is left out after a failure; a step outside the chain is `always` made.
`publish` and `mc665_http_post` alike are: set the end sign, command, clear the end
sign, data, empty command. All functions of `mc665.c` with one command are `simple`:
picking numbers out of its lines is left out. `Expected` says which answers the modem
may give to the item of each step.

### MC665Mqtt

*State.* `made` is what exists of event group, queue, URI and task; `bits`, `want`,
`got` (of `EventGroup`) the event bits and who waits; `queue`, `tpc`, `tmsg` the queue
and the dispatch task; `ppc`, `pev` the handler; `held` the messages whose memory is
allocated.

*Steps.* A call is `Call`, `TakeLock`, `ExecSend`, the answer (`HandleAnswer` or
`AnswerTimesOut`), `Release`, `Await`, `WaitDone` or `WaitTimesOut`. The handler sets a
bit and posts (`HandleReport`), or reads a message, which needs the client's mutex
(`HandleMessage`, `MessageRead`); `Enqueue` waits while the queue is full. The dispatch
task takes an event, runs the callback (which may `Call`) and frees.
`MqttInitFails` leaves any prefix of the objects behind and runs delete, which
starts with a close. `Delete` is the rest of it.

Three steps use what does not exist: `InitBreaks` (an init without a driver locks
the mutex of NULL), and `CallBreaks` (a close that is answered OK waits for an event
group that a failed init has not created; delete removes the queue while
the handler waits at it, or objects another task is using). The code checks none of
these. What the program does afterwards is not modelled: `stage` is "broken" and
nothing moves (`Broken`).

*Abstractions.* The commands of one call are one exchange. The `<Status>` a
confirmation carries is left out of the line, since the code does not look at it: a
confirmed open or close may leave the modem `connected` or not. `connected` has any
value at first: the ESP32 may have restarted and the modem not. The modem may
answer any request with an error, with OK, with OK and a confirmation, or not at all,
whatever its state. Delete is called by nothing in `src/` but a failed init; the
model lets the application call it at any time. Nothing in `src/` calls the service
from the dispatch task either (the callback of `main.c` only logs; `mqtt_open` is
called in the driver's task), but the API does not forbid it.

### MC665Http and ContentLength

*State.* `msg` is `obj->msg`: whose structure on a stack it points at; `objMutex` is
`obj->mutex`; `readLen` is `read_len` in each structure, `pmsg` the structure the
handler writes. `buf`, `asked`, `given`, `sess` are history: the request whose bytes are
in a buffer, the last request of a caller, the replies, the session whose header
it got.

*Steps.* `mc665_http_read_data` is `ReadSetMsg`, `ReadSend`, `ReadAwait`, `ReadClearMsg`,
`ReadReturn`; the handler is `HandleData` (which drops what does not fit the
line buffer or comes in part), `HandlerTake`, `HandlerCheck`, `HandlerCopy`,
`HandlerSetLen`, `HandlerGive`. The copy and the store of the length are two steps: it
is between them that a caller could leave. A session is `mc665_http_start`,
`read_status`, `read_resp`, in the order of the update task. `mc665_http_post` is in
`MC665Commands`.

`ContentLength` is the loop on top: `readOffset`, and `skipping` for `line_offset`;
one action per way through the loop body. A header stands for the line it is in; the
number behind it, which `sscanf` reads, is not computed.

### MC665Driver

*State.* `ipc` is how far `mc665_init` has come; `bits` are the bits of
`obj->event`; `status` is `obj->status`; `dpc` is the place of the driver task:
its first wait (line 63), its wait for 1 tick (68), the switch (85); `told` is
the last event its callback got. `sim`, `heard`, `masked` are history: the last report
of the modem, whether there was an event group to record it, and whether the other
bit was set when it came that the driver acts on after it or instead of it
(`MaskedBy`).

*Steps.* `InitCreates` and `InitFails` (any of five allocations fails; the table
stays registered), `SimReport` (the URC handler), `FirstWait` and
`FirstWaitTimedOut` (the ready bit alone), `Poll` (both bits; ready wins),
`StageSucceeds`, `StageFails`, `Rest`.

*Abstractions.* A stage's commands succeed or fail in one step; whether they can
succeed without a SIM is left open. `+SIM DROP` and `+SIM: Removed` are one report.
The callback is registered before `mc665_init`, as `main.c` does. The modem reports
at any time and any report, also the last one again: a stage may take a minute, and
whatever comes meanwhile is in the bits when it ends.

### MC665Ota

*State.* `status` and `ignore` are `s_ota_drv.status` and
`ignore_version_check`; a start is a number that also stands for the URL asked
for and the task created. `url` and `session` are what the modem holds: the URL
parameter, and the URL of the HTTP session that `AT+HTTPACT` opened. `modem` and
`target` are what it is doing for the last `AT+HTTPACT` it took, and `bits` the bits
its reports have set in the HTTP event group: nobody clears them but a wait that takes
them. `image` is the update partition: which URL each packet came from. `prompt` is
a choice made once: if it is TRUE, a task's wait ends without its bit only when the
modem has nothing more to report.

*Steps.* For the caller `StartCheck` (270-275), `StartParam`, `StartCreate`,
`StartRunning` (281), `StartIgnore` (285) or `StartFail`; for the task one per
stage of `private_mc665_ota_task`, each of which may fail. `TaskAct` is line 127: the
modem takes the request or does not, and the task does not look at the result.
`TaskStatus` and `TaskResp` take whatever bit is set, of this request or of an earlier
one; `TaskTimesOut` ends either wait. The modem goes through `ModemConnects` (it
opens the session, "+HTTP:") or `ModemFails`, and `ModemResponds` ("+HTTPRES:"), at
any moment, or stops (`ModemGivesUp`). `TaskIdle` (256) and
`TaskReport` (the callback) are two steps: a new start may come between.

*Abstractions.* HTTP reads are one step; `esp_ota_end` (external) refuses an image
whose packets come from different URLs, as its checksum would.

## 3. The runs

| run | asks | bounds | result |
|---|---|---|---|
| `core_prompt` | Does each command return exactly its own answer, is no wakeup lost, do only unanswered commands time out, does the client implement `ATService`? | 2 tasks, 2 calls each, 1 notification, `line_num` 0 and 2, room for 2 lines | holds |
| `core_live` | With late answers: who owns `client->resp`, who may write, does every call return, does the parser come back? | 2 tasks, 1 call each of every kind, prompts, 1 `+MQTTMSGI` | holds |
| `late_answer` | Is a success always an answer to this command? | 1 task, 2 calls | violated |
| `handler_blocks` | Does an answered command ever time out? | 1 task, 1 call, 1 `+MQTTMSGI` | violated |
| `text` | Are lines whole, and is every stored line and keyword found again? | a line buffer of 4, a response buffer of 9, 4 pieces of text, 2 commands | holds |
| `commands` | Are exchanges uninterrupted, successes complete, settings restored? | 2 tasks with 2 functions and 1, 1 unsolicited line, 2 probes of `wait_connect` | holds |
| `mqtt` | Do events arrive once and in order, is memory freed, are confirmations counted once, does a success mean a confirmation, does anything hang? | an application with 2 calls, a callback with 1, a queue of 1, 1 message or broken connection, timeouts shorter or longer than answers | holds |
| `http` | Does the parser write only to live buffers, does each read get its own reply? | an update task with 2 calls, a reader with 1, lengths of 0 to 2, all of which fit the line buffer (`packet_too_long` has those that do not) | holds |
| `packet_too_long` | Does a packet that comes whole and in time reach its reader? | the sizes of `main.c` and `mc665_ota.c` | violated |
| `content_length` | Is the first header found, and is none missed? | every page of up to 10 characters, windows of 3 | holds |
| `driver` | In which cases do status and callback follow the SIM card, are both right in the end, and does the modem come up? | 6 reports, at any time and in any order | holds |
| `ota_one_caller` | Is there one update, of the right image, that reports its end? | 1 caller, 2 starts, 3 packets, a modem that reports in time or late | holds |

*Why the bounds are enough.* Two tasks and the parser are all the parties a step
of the AT client can involve: there is one mutex holder, the tasks that wait for the
mutex do not differ, and the parser is one thread. Two calls of a task show what
a call leaves behind for the next (an old response, a set semaphore, a late answer);
a leftover does not survive a second call, which resets or overwrites each of them.
Room for two lines makes a two-line answer fit and a third line or a long one not.
In `text` there are lines of two to seven characters around a buffer of four, and
seven ends of line or of none; nine characters hold two lines of four and not
three, and a second response shorter than the first leaves old text behind it.
In `commands` every pair of functions that change a setting meets every kind of
function: a function that leaves something behind is followed by another. In `mqtt` a
queue of one is full as soon as a second event comes, which is the case that blocks
the parser. In `http` two calls of the update task let a late reply of the first
meet the second, with another reader in between. In `content_length` ten characters
hold a line longer than two windows between others.
Six reports of the card are each of the two reports arriving in every state of the
driver reachable after the other, and both in one look more than once. Two starts let
a second update meet the session, the bits and the late reports of the first, and the
end of one task overlap with the start of the next; three packets have a first, a
middle and a last.

*Fairness.* Weak fairness of each task's steps inside a call, of the parser, of
`ota_start`, of the dispatch, update and driver tasks: FreeRTOS runs every ready task,
every wait for an answer has a timeout, and each task calls a bounded number of times,
so weak fairness of taking a mutex does not hide starvation by a task that takes it
again and again. The liveness properties are therefore about a bounded number of
calls. Beginning a call has no fairness. The modem has none in `ATClient`. In
`MC665Commands`, where timeouts are longer than any answer takes, `InModemAnswer` is
weakly fair because "no answer" is one of the answers: it is the moment from which a
command is answered or never will be, and time brings it. Without `Prompt` it is not
assumed. `ModemServe` of the two services is fair in the same sense, and so is
`ModemStep` of `MC665Ota`, which may be `ModemGivesUp`. `CardComesUp` and
`CallbackCatchesUp` also assume that the modem does not refuse a stage for ever
(strong fairness of `StageSucceeds`); without a modem that answers nothing can come
up.

*Deadlock* is checked except in `text` and `content_length`, which are sequential
and end. `Terminated` or `AllDone` (all calls the bound allows have returned, nothing
is in flight) and `NoDriver` (`mc665_init` failed) are the only places where a
model may stay for ever, besides `Broken` of `MC665Mqtt`.

## 4. The proofs

`ATClientProofs` proves, for every set of tasks, calls, answers, bounds, every
sharing of response objects, and for `Prompt` true or false, from `ConstantsOK` alone:

* `TypeCorrect`: `Spec => []TypeOK`.
* `SlotSafe`: `Spec => []SlotBelongsToLockHolder`.
* `LineQuiet`: `Spec => LineIsQuietWhileWaiting`.

`SlotBelongsToLockHolder` is not inductive: a step of a task that is inside a call
without holding the mutex would break it. `IInv` adds what rules that out: `LockInv`
(a task is in a step between `rt_mutex_take` and `rt_mutex_release` exactly if it
is the holder, and the parser exactly in `handler_send`), `SlotInv` (the same fact
with the holder named) and, in `TypeInv`, that the parser stores only when it has
copied a response. `TypeOK`, too, needs the last one: `StoreLine` updates
`resp[presp]`. `LineIsQuietWhileWaiting` follows in one step: who writes holds the
mutex, and so does a task that waits.

The same module proves of `ATClientService`, for every set of tasks, answers and
bounds, from `ConstantsOK`, `ObjectsOK` and `ReliableModem`:

* `WakeupSafe`: `Spec => []NoLostWakeup`.
* `ReportSafe`: `Spec => []ExecReportsItsAnswer`.
* `ServiceImplemented`: `Spec => ImplementsService`, which needs `FittingAnswers` too.

`ReliableModem` is what the API needs to be relied on at all: timeouts longer than
any answer takes, a response object for each caller, no handler that sends
(`late_answer` and `handler_blocks` are what happens without the first and the
last), and answers whose final line comes last. `FittingAnswers` says that the
response has room for the answer and that counted lines come complete. TLC
evaluates both in `core_prompt`, through `MCReliable`. The invariant, `LineInv`,
says where the answer to the command on its way is: not given yet
(`tx`), or its first `k` lines in the response (`Holds`) and the others in order in
`rx` among unsolicited lines (`Rest`), with perhaps one in the hands of the parser;
or all of it in the response and the wakeup under way. Nothing else on the line
can be taken for a response (`IdleInv`), and a response nobody waits for is
what it was at the return (`ReportInv`). The refinement is then one lemma per party:
the task steps `ExecWrite` and `Finish` are `Send` and `Return`, a step that begins
a call is `Call`, `ModemAnswer` is `Reply`, and everything else is a stutter.

`ATTextProofs` proves, for line and response buffers of every size, every text the
modem may send and every number of commands, from `TextConstantsOK`: `TypeCorrect`
(the copy of the parser stays in its buffer, with a zero behind it), `LinesAreWhole`
(`WholeLines`), `EnoughLines` (`SuccessHasItsLines`), `LinesAreFound`
(`GetLineFindsLine`) and `KeywordsAreFound` (`KeywordFindsFirst`). Three invariants
carry them. `LineInv` relates the line buffer to the characters since the last
line: it holds all of them, or it is full and the rest of the line is thrown away.
`CountInv` says that a response that still waits has fewer lines than it wants.
`LayoutInv` says that the text of a response is the stored lines one behind the
other, each with a zero for its last character: there is a sequence of offsets with
which this is so. What `Start` finds walking over the zeros is then the offset of the
line. That is an induction over a recursive function, and the library's induction
theorems cannot be instantiated; the proof takes the least line at which the two
differ, which exists because `<` on Nat is well-founded (`WFMin`), and shows that
they differ one line earlier.

`MC665CommandsProofs` proves, for every set of tasks and functions:

* `SettingsSafe`: `CommandsSpec => []SettingsRestored`, from `LineNumsOK` (the two
  values of `line_num` the driver uses).
* `NoOtherTaskBetween`: what stands between two items of one function is from this
  function or from a handler (`OnlyTheHandlerBetween`). This holds in every
  configuration: the mutex keeps out the tasks.
* `ExchangeSafe`: `CommandsSpec => []ExchangeUninterrupted`, from `NoHandler` (no
  `+MQTTMSGI` comes). Without it the property is false (section 5).
* `DataSafe`, `TrueIsAccepted` and `ResponseSafe`: `DataWasAskedFor`,
  `TrueMeansAllAccepted` and `SharedResponseIsOwn`, from `NoHandler` and `PromptModem`
  (an answer comes before the timeout or not at all; data are answered with OK, with
  ERROR, or not at all). Each of the three is false without `Prompt` and with a handler
  that sends: TLC finds it with `Prompt = FALSE` and with `Urcs = {"msgi"}` in
  `commands.cfg`. `MCMC665Commands` evaluates both hypotheses.

The client's `IInv` is a part of the invariant: a step of a function starts a
client call, changes a setting, or leaves the client alone, and the proofs of the
client's steps are reused. `DrvInv` adds that only the holder of the driver's mutex
is past the first place of a function and that only such a task is in a client call
(`HolderInv`), and that the settings are those of the holder's place (`SignAt`,
`LineNumAt`). `RowInv` says that the items of a run have nothing of another task
between them and, while the run goes on, nothing of another task behind them.

The last three are about whose answer ends which wait. The proof of `ReportSafe`
does not serve: there each caller has a response of its own and a command gets one
answer, while here all tasks share one response, the end sign makes a prompt an
answer, and the answer to the data of a publish is waited for by the empty
command behind it. The invariant, `ExchangeInv`, follows the one item whose answer can
be on its way (`Source`: the last item, or the data if the last item is
the empty command). `WireInv`: every reply line in `rx` or with the parser is of that
answer and in its order, and nothing follows the line that ended a response. `Calm`:
no reply is on the line and none is to come. `Place` says that the line is calm
while the holder of the driver's mutex does not expect an answer, and `FreeInv` that it
is calm while nobody holds it; so a step that sends a command finds nothing that
could be taken for its answer. From there, `LinesOf` (the response holds the first
lines of that answer), `Heard` (a wait that was ended, and a call that returned well,
had a line of it that is no error) and `Run` (all items of the run but the one under
way are accepted) are kept by every step. Half of them rest on what an
answer can look like (`AnswerShapes`): a line that is no error comes in an
answer that accepts, and an answer of two lines with the OK first is that of
`request_ip`, the only function that waits for a line behind the OK. So the line with
which the parser ends a wait is the last of its answer (`LastReply`), and the line is
calm again when the call returns.

`MC665HttpProofs` proves, for every set of callers, lengths and answers, from
`HttpConstantsOK`, with timeouts and late replies at any moment: `TypeCorrect`,
`BufferIsLive` (`WritesIntoLiveBuffer`) and `LengthIsTrue` (`LengthMatchesBuffer`). The
inductive invariant follows the pointer: the handler holds `obj->mutex` from its
look at `obj->msg` to the store of the length (`HandlerHolds`); `obj->msg` points only
at a caller that has not cleared it (`MsgIsLive`); so what the handler has checked
still holds when it writes (`WritesThroughMsg`). For the length it adds that
`read_len` and the bytes are of one reply but for the moment between the two
stores (`SameReply`), that a read returns `read_len` (`ReturnsReadLen`), and that only
sessions wait for a status (`SessionsWait`). These three never use the driver's mutex:
the two stores to `obj->msg` under `obj->mutex` are enough, for any number of readers.

Two more are about prompt answers and do need it: `ReadGetsReply`
(`ReadGetsItsReply`, for any number of readers) and `HeaderIsOwn`
(`HeaderOfThisSession`, from `OneSessionTask`: the update task is the only code in
`src/` that starts a session). One read is between its command and its answer at a
time, and the invariant has a clause for each stage of it that says where its reply
is: in `tx`, on the line, with the handler, in the buffer with the bit set
(`ReadInv`). The bit cannot be an old one because a read whose answers are prompt
consumes what it caused. A session is not one hold of the mutex, since reads of
other tasks may come between its steps; its lines have kinds of their own, and
with one task in sessions nobody else consumes them (`SessInv`).

`ContentLengthProofs` proves, for every set of pages, window size and search end, from
`WindowOK`: `WindowsFallOnLines`, `ReturnsFirst`, `MissesNone` and `AlwaysAdvances`
(`Advances`). The first three together with `TypeOK` are inductive; the step that
matters is that between the start of a window and the line end found in it there is no
other start of a line.

`MC665DriverProofs` proves, for every number and timing of reports, from
`DriverConstantsOK`: `RemovalSafe`, `InsertionSafe`, `CallbackSafe`, through
`DriverInvariant`. Before the first wait has ended, a recorded report has its bit
(`BitInv`). After it, `CardInv` says what the last report and `masked` make of the status:
`Away` says whether the driver will be disconnected, and it is so already if no bit is
pending, while a pending bit agrees with it: a ready bit with an insertion, or with
a removal that it masks, and a drop bit alone with the opposite. None of the three
has a hypothesis about the modem; what is false without one is not claimed (section 5).

`MC665MqttProofs` proves, for every set of callers, every queue size and all timing,
from `MqttConstantsOK`: `OrderSafe` (`EventsInOrder`), `MemorySafe` (`MessageMemory`) and
`TypeCorrect`. The invariant numbers the events (`Numbered`): the callback has had
the first `delivered` of them, the queue holds the next ones, the handler the last.
So the event the dispatch task frees is in no other place, which is what the
ownership of memory (`Memory`) needs. Both hold while the service is ready; `NoneInv` says
that nothing is on its way before `mc665_mqtt_init`.

Two are about the calls. `ConfirmedOnce`
(`NoConfirmationTwice`) and `TrueIsConfirmed` (`TrueMeansConfirmed`) assume
`OneTaskPerRequest`, which the code needs: two tasks that wait for the same bit are
both woken by one confirmation, and both return true. `ConfirmedOnce` holds for
all timing. It counts: of the confirmations the modem has sent and no call
has used, there are at least as many as are lines in `rx`, plus one for a set bit,
plus one for a task that was woken with the bit (`CreditInv`); the lemmas about
`Count` say what sending and reading a line do to that sum. `TrueIsConfirmed` is
for prompt answers and a handler nothing holds up; `CalmInv` follows the one
request that is open from the line to the modem, back, and into the bit. `Works` is
a step of a program that is not broken, whose cases the lemmas share; a `Break`
changes nothing but the stage.

`MC665OtaProofs` proves, for any number of starts and packets, from `OtaConstantsOK`
and `OneCaller` (one task calls `ota_start`; nothing in `src/` calls it, so this is a
duty of the application): `OneUpdateSafe` and `ImageSafe` (`WritesWhatWasAsked`, whose
own hypothesis is a modem that reports in time). The status alone does not say whether
an update runs: its task exists before the status is set (281) and may have set it
back before that. The invariant says that a running task is known by the status or by
the caller that is about to set it (`KnownRunning`), and that nothing runs while a
caller prepares to create a task (`NoneWhileStarting`). `SessionInv` says, for a modem
that reports in time, that the URL is that of the update and that the modem is at rest
with no bit set (`Calm`) while no task waits for it: a task that has taken both of its
reports leaves none. So the next task finds either the reports of its own request
(`StatusCase`, `RespCase`) or, if the modem has refused it, nothing, and times out.
With two callers both theorems are false, and without the hypothesis about the modem
`ImageSafe` is (section 5).

The type invariants of `MC665Http`, `MC665Driver`, `MC665Ota`, `MC665Mqtt` and
`ContentLength` are proved and not run; that of `MC665Commands` (`CommandTypes`) is a part
of `DrvInv`.

Only model-checked:

* All liveness (`EveryCallReturns`, `ParserComesBack`, `EveryFunctionReturns`,
  `NothingHangs` and their like): fairness and ENABLED are out of reach too.

## 5. What the project found

With a run:

1. **A late answer ends the next command** (`late_answer`). A line is an answer if
   `client->resp` is set when it arrives. After a timeout nothing discards what is
   on its way, so the late OK ends the next command with 0.
2. **A URC handler blocks the parser** (`handler_blocks`): `+MQTTMSGI` during a
   command waits for the mutex the command holds, while nobody reads its answer;
   the command times out though the modem answered.
3. **An update packet does not fit the line buffer** (`packet_too_long`): packets of
   512 bytes, a line buffer of 128. The handler drops every reply to such a read, so
   no update can succeed, although `mc665_ota.c:16` says that a packet is smaller
   than the line buffer. The image header, 288 bytes, does not fit either.

Without a run; each is a behaviour of the models or, where it says so, of the source:

* **A truncated response is a success.** `AT_RESP_BUFF_FULL` (`at_client.c:748`) is
  overwritten by the OK that follows (760): `Return` in `ATService` has `Cut` with
  the result `ok`.
* **`+CME ERROR` does not end a command.** It is a URC (`mc665.c:197`), so the
  command waits for its timeout. `TrueMeansAllAccepted` holds nevertheless.
* **`mc665_detect` returns true with probes unanswered.** `wait_connect` sends a
  probe after each timeout and is content with one answer.
  `TrueMeansAllAccepted` says so; with a single probe the difference does not show.
* **An ERROR line ends a response with `line_num` set** before that many lines have
  come, other than the comment of `at_create_resp` says (line 48). The callers in
  `src/` look at the result or at `line_counts` first, and `SuccessHasItsLines` holds.
* **A message interrupts an exchange.** With `Urcs = {"msgi"}` in `commands.cfg`
  `ExchangeUninterrupted` is violated: the handler sends AT+MQTTREAD between the two
  commands of a publish, since it takes the client's mutex and not the driver's, which
  `mc665.h:65` says protects them.
* **A publish fails though the modem took the data.** The OK for the data comes
  before the empty command that waits for it has set `client->resp`
  (`mc665_mqtt.c:408-411`), and the parser drops it. `TrueMeansAllAccepted` is
  therefore an implication and no equivalence.
* **The status of a confirmation is ignored** (`mc665_mqtt.c:133-166`): a refused
  connection sets the same bit as an accepted one, and `mqtt_open` logs a success.
* **A SIM report is overlooked** in two cases, which `masked` names and
  `RemovalIsNoticed` and `InsertionIsNoticed` say are the only ones. A card inserted and
  removed while the driver is in one stage is taken for one that is there: of two
  bits, ready wins (`mc665.c:69`). A card removed and inserted again before the first
  wait ends leaves the driver disconnected, because that wait clears the ready bit
  alone (63) and the next look takes the drop bit that is left.
* **The callback is not told that the address is lost** when the bring-up starts
  again for a ready driver (`mc665.c:69-72`): after a second "+SIM READY", as a modem
  that has restarted reports it, or one that came together with a "+SIM DROP". The
  application believes in its address until the driver is ready again or the card
  goes; `CallbackCatchesUp` says that one of these comes.
* **An update may write the image of an earlier one.** The result of
  `mc665_http_start` is ignored (`mc665_ota.c:127`), and the two waits behind it take
  any bit that is set (`mc665_http.c:325`, 307). If the reports to an `AT+HTTPACT` come
  after its task has given up, their bits stay; if the next `AT+HTTPACT` is then
  refused, its task goes on with the session of the first. Two starts of one caller are
  enough: without `prompt =>` in `WritesWhatWasAsked`, TLC finds it in
  `ota_one_caller`. The timeout of 60 s that the modem is given and the wait of 60000
  ticks (of 1 ms) are equal, so a modem that uses its time reports late.
* **A failed MQTT init may wait on a NULL event group**: it closes first
  (`mc665_mqtt.c:317`, 225), and a modem that answers OK, still connected from before the
  ESP32 restarted, makes line 215 wait. Without a driver the same way leads to the
  mutex of a NULL driver (263-266, 211).
* **MQTT delete removes what is in use**: nothing keeps the handler from waiting at
  the queue (170) that line 241 deletes, or another task from being in a call. Data
  messages left in the queue are not freed, nor is a message that is read when the
  queue is gone (168).
* **An answer that comes between `at_client.c:319` and 320 is lost**: the parser stores
  it and gives the semaphore, which line 320 then resets, and the command times out.
  The answer must be a late one, to an earlier command; with `Prompt` none comes
  (`NoLostWakeup`).
* **Two callers start two updates**: with two `Callers`, `OneUpdate` is violated. The
  status is tested (`mc665_ota.c:274`) four AT commands before it is set (281).
* **The status may stay RUNNING**: a task that fails early sets IDLE before its starter
  sets RUNNING, and every later start is refused. `ota_one_caller` reaches such states.
* **Memory freed in use**: `at_client_obj_wait_connect` deletes its response (410)
  before it clears `client->resp`. With a late answer the parser stores a line in
  freed memory: the task reaches `DeleteResp` with `clientResp = Tmp(t)`, and
  `ReadResponse`, `StoreLine` follow before `Finish`. With prompt answers it cannot
  happen.
* From reading: a modem that reported its card before the ESP32 restarted reports
  nothing after it, and the first wait then ends in a state that only a report leaves
  (`heard` in `InsertionIsNoticed` excludes it); the MQTT and HTTP handlers write
  `recv_line_buf[recv_len - 1]` also when nothing was received; the MQTT handler sends
  as many bytes of AT+MQTTREAD as the header of the expected reply has
  (`mc665_mqtt.c:85`).

## 6. What is not modelled

* UART driver and interface dispatch: pure input and output. Loss of bytes when
  its ring of 2048 overflows is not modelled.
* `main.c`: creates the parts; its order is in the modules' initial states. The
  restart that its OTA callback makes is left out.
* `at_client_init` and the failures inside it: the modules start with a client
  that exists. `ota_init` likewise. `at_client_obj_wait_connect` returns at once if it
  gets no memory for its response (376-381); `CallWaitConnect` leaves that return out,
  on which no property depends. The memory of the URC table moving while
  `get_urc_obj` walks it.
* The other buffer size of `at_resp_set_info` (no caller passes one).
* Formatting and parsing of text other than lines, logging, memory allocation except
  where a failed one changes the control flow that is modelled.

## 7. What is left

1. The composition of `MC665Ota` with `MC665Http`, whose read is one step there, and
   the restart of the system by the OTA callback.
2. The URC table in memory: a registration against the walk of the parser.

------------------------------ MODULE MC665Ota ------------------------------
(***************************************************************************)
(* The firmware update of main/mc665_ota.c: ota_start, which any task may  *)
(* call, and the task it creates, which downloads an image packet by       *)
(* packet and writes it to flash.                                          *)
(*                                                                         *)
(* The modem works on an AT+HTTPACT by itself and reports twice, "+HTTP:"  *)
(* and "+HTTPRES:", of which the task takes a bit each.  A report that is  *)
(* later than the task's timeout leaves its bit for the next update.       *)
(*                                                                         *)
(* The file keeps one object, s_ota_drv, for all of them and no lock: a    *)
(* step below is one access to s_ota_drv.status, to                        *)
(* s_ota_drv.ignore_version_check, or to the HTTP session in the modem,    *)
(* which is shared as well.  A start is a number; it also names the URL    *)
(* asked for and the task created.                                         *)
(***************************************************************************)
EXTENDS Naturals, FiniteSets

CONSTANTS
  Callers,    \* tasks that call ota_start
  MaxStarts,  \* bound: calls of ota_start, by all of them together
  Packets,    \* packets in an image
  Asks,       \* the values of ignore_version_check callers pass
  Prompts     \* the choices for `prompt'

ASSUME OtaConstantsOK ==
  MaxStarts \in Nat /\ Packets \in Nat \ {0} /\ Asks \subseteq BOOLEAN
  /\ Prompts \subseteq BOOLEAN

Starts == 1 .. MaxStarts
NoStart == 0

VARIABLES
  status,    \* s_ota_drv.status after init: "idle" or "running"
  ignore,    \* s_ota_drv.ignore_version_check
  nstarts,   \* calls of ota_start so far
  cpc, cur,  \* per caller: where it is, and its start
  asked,     \* per start: the flag its caller passed
  answer,    \* per start: what ota_start returned, "none" while it runs
  tpc,       \* per start: where its task is
  sent,      \* per start: packets written to flash
  handle,    \* per start: is its esp_ota handle open?
  url,       \* the URL parameter in the modem
  session,   \* the URL of the modem's HTTP session
  modem,     \* what the modem is doing for the last AT+HTTPACT it took,
  target,    \* the URL of that one,
  bits,      \* and the bits its reports have set in the HTTP event group
  prompt,    \* never changes; TRUE: timeouts are longer than the modem takes
  image,     \* per packet: the URL whose content the update partition holds
  boot,      \* has esp_ota_set_boot_partition selected that partition?
  event      \* per start: the event its task reported

callerVars == <<nstarts, cpc, cur, asked, answer>>
taskVars == <<tpc, sent, handle, event>>
netVars == <<session, modem, target, bits, prompt>>
vars == <<status, ignore, callerVars, taskVars, url, netVars, image, boot>>

-----------------------------------------------------------------------------
Init ==
  /\ status = "idle" /\ ignore = FALSE /\ nstarts = 0
  /\ cpc = [c \in Callers |-> "idle"] /\ cur = [c \in Callers |-> NoStart]
  /\ asked = [s \in Starts |-> FALSE] /\ answer = [s \in Starts |-> "none"]
  /\ tpc = [s \in Starts |-> "none"] /\ sent = [s \in Starts |-> 0]
  /\ handle = [s \in Starts |-> FALSE]
  /\ url = NoStart /\ session = NoStart
  /\ prompt \in Prompts /\ bits = {} /\ target = NoStart
  \* The modem may still be at work for a program that has restarted.
  /\ modem \in {"idle", "connecting", "responding"}
  /\ prompt => modem = "idle"
  /\ image = [p \in 1 .. Packets |-> NoStart] /\ boot = FALSE
  /\ event = [s \in Starts |-> "none"]

(* private_mc665_ota_start *)

Answer(s, r) == answer' = [answer EXCEPT ![s] = r]

\* Mutant: the status is not looked at.
StartUnchecked(c, flag) ==
  LET s == nstarts + 1
  IN  /\ cpc[c] = "idle" /\ nstarts < MaxStarts
      /\ nstarts' = s
      /\ asked' = [asked EXCEPT ![s] = flag]
      /\ cur' = [cur EXCEPT ![c] = s]
      /\ cpc' = [cpc EXCEPT ![c] = "param"]
      /\ UNCHANGED <<status, ignore, answer, taskVars, url, netVars, image,
                     boot>>

\* Only a call that finds the status idle goes on.
StartCheck(c, flag) ==
  LET s == nstarts + 1
  IN  /\ cpc[c] = "idle" /\ nstarts < MaxStarts
      /\ nstarts' = s
      /\ asked' = [asked EXCEPT ![s] = flag]
      /\ IF status = "idle"
         THEN /\ cur' = [cur EXCEPT ![c] = s]
              /\ cpc' = [cpc EXCEPT ![c] = "param"]
              /\ UNCHANGED answer
         ELSE Answer(s, "refused") /\ UNCHANGED <<cur, cpc>>
      /\ UNCHANGED <<status, ignore, taskVars, url, netVars, image, boot>>

\* Four AT+HTTPSET commands, of which the first sets the URL.
StartParam(c) ==
  /\ cpc[c] = "param"
  /\ url' = cur[c]
  /\ cpc' = [cpc EXCEPT ![c] = "create"]
  /\ UNCHANGED <<status, ignore, nstarts, cur, asked, answer, taskVars, netVars,
                 image, boot>>

\* A command or xTaskCreate fails.
StartFail(c) ==
  /\ cpc[c] \in {"param", "create"}
  /\ url' \in IF cpc[c] = "param" THEN {url, cur[c]} ELSE {url}
  /\ Answer(cur[c], "failed")
  /\ cpc' = [cpc EXCEPT ![c] = "idle"]
  /\ UNCHANGED <<status, ignore, nstarts, cur, asked, taskVars, netVars, image,
                 boot>>

StartCreate(c) ==
  /\ cpc[c] = "create"
  /\ tpc' = [tpc EXCEPT ![cur[c]] = "connect"]
  /\ cpc' = [cpc EXCEPT ![c] = "running"]
  /\ UNCHANGED <<status, ignore, nstarts, cur, asked, answer, sent, handle,
                 event, url, netVars, image, boot>>

\* The status is set when the task already runs.
StartRunning(c) ==
  /\ cpc[c] = "running"
  /\ status' = "running"
  /\ cpc' = [cpc EXCEPT ![c] = "ignore"]
  /\ UNCHANGED <<ignore, nstarts, cur, asked, answer, taskVars, url, netVars,
                 image, boot>>

StartIgnore(c) ==
  /\ cpc[c] = "ignore"
  /\ ignore' = asked[cur[c]]
  /\ Answer(cur[c], "started")
  /\ cpc' = [cpc EXCEPT ![c] = "idle"]
  /\ UNCHANGED <<status, nstarts, cur, asked, taskVars, url, netVars, image,
                 boot>>

StartStep(c) == StartParam(c) \/ StartFail(c) \/ StartCreate(c)
                  \/ StartRunning(c) \/ StartIgnore(c)

(* private_mc665_ota_task *)

Goto(s, label) == tpc' = [tpc EXCEPT ![s] = label]

\* mc665_http_start.  Its result is not looked at: the modem may have refused.
TaskAct(s) ==
  /\ tpc[s] = "connect"
  /\ \/ modem' = "connecting" /\ target' = url
     \/ UNCHANGED <<modem, target>>
  /\ Goto(s, "status")
  /\ UNCHANGED <<prompt, status, ignore, callerVars, sent, handle, event, url,
                 session, bits, image, boot>>

MayTimeOut == prompt => modem = "idle"

\* mc665_http_read_status takes both bits; of the two, success wins.
TaskStatus(s) ==
  /\ tpc[s] = "status" /\ bits \cap {"connected", "failed"} # {}
  /\ bits' = bits \ {"connected", "failed"}
  /\ Goto(s, IF "connected" \in bits THEN "resp" ELSE "exit_fail")
  /\ UNCHANGED <<prompt, status, ignore, callerVars, sent, handle, event, url,
                 session, modem, target, image, boot>>

\* mc665_http_read_resp, then mc665_read_content_length and the partition.
TaskResp(s) ==
  /\ tpc[s] = "resp" /\ "resp" \in bits
  /\ bits' = bits \ {"resp"}
  /\ Goto(s, "version") \/ Goto(s, "exit_fail")
  /\ UNCHANGED <<prompt, status, ignore, callerVars, sent, handle, event, url,
                 session, modem, target, image, boot>>

\* Either wait ends without the bit it is for.
TaskTimesOut(s) ==
  /\ \/ tpc[s] = "status" /\ bits \cap {"connected", "failed"} = {}
     \/ tpc[s] = "resp" /\ "resp" \notin bits
  /\ MayTimeOut
  /\ Goto(s, "exit_fail")
  /\ UNCHANGED <<status, ignore, callerVars, sent, handle, event, url, netVars,
                 image, boot>>

\* private_mc665_ota_validate_image_header says yes, or no and it is ignored,
\* or no.
TaskVersion(s) ==
  /\ tpc[s] = "version"
  /\ \/ Goto(s, "begin")
     \/ ~ignore /\ Goto(s, "exit_fail")
  /\ UNCHANGED <<status, ignore, callerVars, sent, handle, event, url, netVars,
                 image, boot>>

TaskBegin(s) ==
  /\ tpc[s] = "begin"
  /\ \/ Goto(s, "malloc") /\ handle' = [handle EXCEPT ![s] = TRUE]
     \/ Goto(s, "exit_fail") /\ UNCHANGED handle
  /\ UNCHANGED <<status, ignore, callerVars, sent, event, url, netVars, image,
                 boot>>

\* When malloc fails the handle stays open.
TaskMalloc(s) ==
  /\ tpc[s] = "malloc"
  /\ Goto(s, "download") \/ Goto(s, "exit_fail")
  /\ UNCHANGED <<status, ignore, callerVars, sent, handle, event, url, netVars,
                 image, boot>>

\* Mutant: a new download goes on where the last one stopped.
TaskPacketResumes(s) ==
  /\ tpc[s] = "download" /\ sent[s] < Packets
  /\ IF s > 1 /\ sent[s] = 0 /\ sent[s - 1] \in 1 .. Packets - 1
     THEN sent' = [sent EXCEPT ![s] = sent[s - 1]] /\ UNCHANGED image
     ELSE /\ image' = [image EXCEPT ![sent[s] + 1] = session]
          /\ sent' = [sent EXCEPT ![s] = @ + 1]
  /\ UNCHANGED <<status, ignore, callerVars, tpc, handle, event, url, netVars,
                 boot>>

\* mc665_http_read_data and esp_ota_write of the next packet.
TaskPacket(s) ==
  /\ tpc[s] = "download" /\ sent[s] < Packets
  /\ image' = [image EXCEPT ![sent[s] + 1] = session]
  /\ sent' = [sent EXCEPT ![s] = @ + 1]
  /\ UNCHANGED <<status, ignore, callerVars, tpc, handle, event, url, netVars,
                 boot>>

\* The read or the write fails: esp_ota_abort.
TaskAbort(s) ==
  /\ tpc[s] = "download" /\ sent[s] < Packets
  /\ handle' = [handle EXCEPT ![s] = FALSE]
  /\ Goto(s, "exit_fail")
  /\ UNCHANGED <<status, ignore, callerVars, sent, event, url, netVars, image,
                 boot>>

\* esp_ota_end, which accepts only an image in one piece.
TaskEnd(s) ==
  /\ tpc[s] = "download" /\ sent[s] = Packets
  /\ handle' = [handle EXCEPT ![s] = FALSE]
  /\ \/ /\ \A p \in 1 .. Packets : image[p] = image[1]
        /\ Goto(s, "boot")
     \/ Goto(s, "exit_fail")
  /\ UNCHANGED <<status, ignore, callerVars, sent, event, url, netVars, image,
                 boot>>

TaskBoot(s) ==
  /\ tpc[s] = "boot"
  /\ \/ boot' = TRUE /\ Goto(s, "exit_ok")
     \/ UNCHANGED boot /\ Goto(s, "exit_fail")
  /\ UNCHANGED <<status, ignore, callerVars, sent, handle, event, url, netVars,
                 image>>

Exit == {"exit_ok", "exit_fail"}

TaskIdle(s) ==
  /\ tpc[s] \in Exit
  /\ status' = "idle"
  /\ Goto(s, IF tpc[s] = "exit_ok" THEN "report_ok" ELSE "report_fail")
  /\ UNCHANGED <<ignore, callerVars, sent, handle, event, url, netVars, image,
                 boot>>

\* Mutant: the callback hears of successes only.
TaskReportSuccess(s) ==
  /\ tpc[s] \in {"report_ok", "report_fail"}
  /\ event' = [event EXCEPT ![s] = IF tpc[s] = "report_ok" THEN "success"
                                                           ELSE @]
  /\ Goto(s, "deleted")
  /\ UNCHANGED <<status, ignore, callerVars, sent, handle, url, netVars, image,
                 boot>>

\* The callback, free and vTaskDelete(NULL).
TaskReport(s) ==
  /\ tpc[s] \in {"report_ok", "report_fail"}
  /\ event' = [event EXCEPT ![s] = IF tpc[s] = "report_ok" THEN "success"
                                                           ELSE "fail"]
  /\ Goto(s, "deleted")
  /\ UNCHANGED <<status, ignore, callerVars, sent, handle, url, netVars, image,
                 boot>>

TaskStep(s) == \/ TaskAct(s) \/ TaskStatus(s) \/ TaskResp(s) \/ TaskTimesOut(s)
               \/ TaskVersion(s) \/ TaskBegin(s) \/ TaskMalloc(s)
               \/ TaskPacket(s) \/ TaskAbort(s) \/ TaskEnd(s) \/ TaskBoot(s)
               \/ TaskIdle(s) \/ TaskReport(s)

(* The modem (external), whose reports the HTTP handler makes bits of *)

ModemConnects ==
  /\ modem = "connecting"
  /\ modem' = "responding" /\ session' = target
  /\ bits' = bits \cup {"connected"}
  /\ UNCHANGED <<prompt, status, ignore, callerVars, taskVars, url, target,
                 image, boot>>

ModemFails ==
  /\ modem = "connecting"
  /\ modem' = "idle"
  /\ bits' = bits \cup {"failed"}
  /\ UNCHANGED <<prompt, status, ignore, callerVars, taskVars, url, session,
                 target, image, boot>>

ModemResponds ==
  /\ modem = "responding"
  /\ modem' = "idle"
  /\ bits' = bits \cup {"resp"}
  /\ UNCHANGED <<prompt, status, ignore, callerVars, taskVars, url, session,
                 target, image, boot>>

\* It reports nothing any more.
ModemGivesUp ==
  /\ modem # "idle"
  /\ modem' = "idle"
  /\ UNCHANGED <<prompt, status, ignore, callerVars, taskVars, url, session,
                 target, bits, image, boot>>

ModemStep == ModemConnects \/ ModemFails \/ ModemResponds \/ ModemGivesUp

\* Every start the bound allows has been made and every task has ended.
Terminated ==
  /\ nstarts = MaxStarts
  /\ \A c \in Callers : cpc[c] = "idle"
  /\ \A s \in Starts : tpc[s] \in {"none", "deleted"}
  /\ UNCHANGED vars

Next == \/ \E c \in Callers : StartStep(c) \/ \E f \in Asks : StartCheck(c, f)
        \/ \E s \in Starts : TaskStep(s)
        \/ ModemStep
        \/ Terminated

Spec == Init /\ [][Next]_vars

\* Every ready task runs; every wait has a timeout.  The modem gets on with a
\* request, if only by giving it up: MayTimeOut of a prompt one asks when.
Fairness == /\ \A c \in Callers : WF_vars(StartStep(c))
            /\ \A s \in Starts : WF_vars(TaskStep(s))
            /\ WF_vars(ModemStep)
FairSpec == Spec /\ Fairness

-----------------------------------------------------------------------------
(* Properties *)

CallerLabels == {"idle", "param", "create", "running", "ignore"}
TaskLabels == {"none", "connect", "status", "resp", "version", "begin",
               "malloc", "download", "boot", "report_ok", "report_fail",
               "deleted"} \cup Exit
StartsOrNone == Starts \cup {NoStart}

\* Every variable has a value of its type.
TypeOK ==
  /\ status \in {"idle", "running"}
  /\ ignore \in BOOLEAN
  /\ nstarts \in 0 .. MaxStarts
  /\ cpc \in [Callers -> CallerLabels]
  /\ cur \in [Callers -> StartsOrNone]
  /\ \A c \in Callers : cpc[c] # "idle" => cur[c] \in Starts
  /\ asked \in [Starts -> BOOLEAN]
  /\ answer \in [Starts -> {"none", "refused", "failed", "started"}]
  /\ tpc \in [Starts -> TaskLabels]
  /\ sent \in [Starts -> 0 .. Packets]
  /\ handle \in [Starts -> BOOLEAN]
  /\ url \in StartsOrNone
  /\ session \in StartsOrNone /\ target \in StartsOrNone
  /\ modem \in {"idle", "connecting", "responding"}
  /\ bits \subseteq {"connected", "failed", "resp"}
  /\ prompt \in BOOLEAN
  /\ image \in [1 .. Packets -> StartsOrNone]
  /\ boot \in BOOLEAN
  /\ event \in [Starts -> {"none", "success", "fail"}]

\* A task between its creation and the moment it sets the status back.
Active(s) == tpc[s] \notin {"none", "report_ok", "report_fail", "deleted"}

\* At most one update runs: ota_start refuses while one does, "MC665 ota task
\* is running".
OneUpdate == \A r, s \in Starts : Active(r) /\ Active(s) => r = s

\* With a modem that reports before the task's timeouts, what an update has
\* written is the image its own caller asked for, packet by packet, although the
\* URL, the HTTP session in the modem and the event bits are shared, the session
\* of the last update is still there, and nobody looks at the result of
\* AT+HTTPACT.
WritesWhatWasAsked ==
  prompt => \A s \in Starts : Active(s) => \A p \in 1 .. sent[s] : image[p] = s

\* Every update that was started reports its end through the callback.
EveryStartReports ==
  \A s \in Starts : answer[s] = "started" ~> event[s] # "none"

=============================================================================

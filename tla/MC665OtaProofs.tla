--------------------------- MODULE MC665OtaProofs ---------------------------
(***************************************************************************)
(* Proofs about MC665Ota: when one task alone calls ota_start, one update  *)
(* at a time runs, and with a modem that reports before the timeouts it    *)
(* writes the image that was asked for, for any number of starts and       *)
(* packets.                                                                *)
(*                                                                         *)
(* The status alone does not say whether an update runs: its task exists   *)
(* before the status is set, and may have set it back before that.  The    *)
(* invariant is that a running task is known, by the status or by a caller *)
(* that is about to set it, and a single caller cannot be that caller and  *)
(* start another update.  That an update reads its own session follows     *)
(* from the bits: a task that has taken both of its reports leaves none,   *)
(* so the next one, whose AT+HTTPACT was refused, finds none.              *)
(***************************************************************************)
EXTENDS MC665Ota, TLAPS

OneCaller == \A c, d \in Callers : c = d

StartNotCreated == {"param", "create"}

\* A start is counted before it has a task, and a caller that has not created
\* its task yet names a start without one.
FreshInv ==
  /\ \A s \in Starts : s > nstarts => tpc[s] = "none"
  /\ \A c \in Callers : cpc[c] # "idle" => cur[c] <= nstarts
  /\ \A c \in Callers : cpc[c] \in StartNotCreated => tpc[cur[c]] = "none"

\* No task runs while a caller prepares to create one.
NoneWhileStarting ==
  \A c \in Callers : cpc[c] \in StartNotCreated => \A s \in Starts : ~Active(s)

\* A running task is known by the status, or by the caller that has just created
\* it and sets the status next.
KnownRunning ==
  \A s \in Starts : Active(s) =>
    status = "running" \/ \E c \in Callers : cpc[c] = "running" /\ cur[c] = s

\* Nothing is written before the download.
SentInv ==
  \A s \in Starts :
    tpc[s] \in {"none", "connect", "status", "resp", "version", "begin", "malloc"} =>
      sent[s] = 0

\* The modem is not at work and nothing is left of its reports.
Calm == modem = "idle" /\ bits = {}

\* What a task that waits for "+HTTP:" can find: nothing, because the modem has
\* refused or given up, or is not so far; or its reports.
StatusCase(s) ==
  \/ Calm
  \/ modem = "connecting" /\ target = s /\ bits = {}
  \/ modem = "responding" /\ session = s /\ bits = {"connected"}
  \/ modem = "idle" /\ session = s /\ bits \in {{"connected"}, {"connected", "resp"}}
  \/ modem = "idle" /\ bits = {"failed"}

\* What a task that waits for "+HTTPRES:" can find.
RespCase(s) ==
  /\ session = s
  /\ \/ modem \in {"responding", "idle"} /\ bits = {}
     \/ modem = "idle" /\ bits = {"resp"}

\* The modem's URL is that of the update, and so is the session, once the update
\* has had the modem's reports; there are reports only while it waits for them.
SessionInv ==
  prompt =>
    /\ \A c \in Callers : cpc[c] = "create" => url = cur[c]
    /\ (\A s \in Starts : tpc[s] \notin {"status", "resp"}) => Calm
    /\ \A s \in Starts :
         /\ tpc[s] = "connect" => url = s
         /\ tpc[s] = "status" => StatusCase(s)
         /\ tpc[s] = "resp" => RespCase(s)
         /\ tpc[s] \in {"version", "begin", "malloc", "download"} => session = s

IInv == /\ TypeOK /\ FreshInv /\ NoneWhileStarting /\ KnownRunning /\ OneUpdate
        /\ SentInv /\ SessionInv /\ WritesWhatWasAsked

-----------------------------------------------------------------------------
USE OtaConstantsOK DEF OtaConstantsOK

LEMMA InitEstablishes == Init => IInv
<1> SUFFICES ASSUME Init PROVE IInv
  OBVIOUS
<1> USE DEF Init, Starts, NoStart, StartsOrNone
<1>1. TypeOK
  <2>1. nstarts \in 0 .. MaxStarts /\ sent \in [Starts -> 0 .. Packets]
    OBVIOUS
  <2>2. ignore \in BOOLEAN /\ boot \in BOOLEAN /\ prompt \in BOOLEAN
    OBVIOUS
  <2>3. asked \in [Starts -> BOOLEAN] /\ handle \in [Starts -> BOOLEAN]
    OBVIOUS
  <2>4. cpc \in [Callers -> CallerLabels] /\ tpc \in [Starts -> TaskLabels]
    BY DEF CallerLabels, TaskLabels
  <2> QED  BY <2>1, <2>2, <2>3, <2>4 DEF TypeOK
<1>2. \A s \in Starts : ~Active(s)
  BY DEF Active
<1>3. FreshInv /\ SentInv /\ SessionInv
  BY DEF FreshInv, StartNotCreated, SentInv, SessionInv, Calm
<1> QED
  BY <1>1, <1>2, <1>3 DEF IInv, NoneWhileStarting, KnownRunning, OneUpdate,
                          WritesWhatWasAsked

\* Types, for the steps of a caller and of a task.
LEMMA CallerType ==
  ASSUME TypeOK, NEW c \in Callers,
         StartStep(c) \/ \E f \in Asks : StartCheck(c, f)
  PROVE  TypeOK'
<1> USE DEF TypeOK, CallerLabels, StartsOrNone, Starts, NoStart, Answer
<1>1. ASSUME NEW f \in Asks, StartCheck(c, f) PROVE TypeOK'
  <2>1. asked' \in [Starts -> BOOLEAN]
    <3>1. f \in BOOLEAN
      OBVIOUS
    <3> QED  BY <1>1, <3>1 DEF StartCheck
  <2>2. nstarts' \in 0 .. MaxStarts /\ nstarts + 1 \in Starts
    BY <1>1 DEF StartCheck
  <2>3. /\ cpc' \in [Callers -> CallerLabels] /\ cur' \in [Callers -> StartsOrNone]
        /\ \A d \in Callers : cpc'[d] # "idle" => cur'[d] \in Starts
    <3>1. \/ UNCHANGED <<cur, cpc>>
          \/ /\ cur' = [cur EXCEPT ![c] = nstarts + 1]
             /\ cpc' = [cpc EXCEPT ![c] = "param"]
      BY <1>1 DEF StartCheck
    <3>2. cpc \in [Callers -> CallerLabels] /\ cur \in [Callers -> StartsOrNone]
          /\ \A d \in Callers : cpc[d] # "idle" => cur[d] \in Starts
      OBVIOUS
    <3> HIDE DEF TypeOK, Starts
    <3>3. CASE UNCHANGED <<cur, cpc>>
      BY <3>2, <3>3
    <3>4. CASE /\ cur' = [cur EXCEPT ![c] = nstarts + 1]
               /\ cpc' = [cpc EXCEPT ![c] = "param"]
      BY <2>2, <3>2, <3>4
    <3> QED  BY <3>1, <3>3, <3>4
  <2>4. answer' \in [Starts -> {"none", "refused", "failed", "started"}]
    BY <1>1, <2>2 DEF StartCheck
  <2> QED  BY <1>1, <2>1, <2>2, <2>3, <2>4 DEF StartCheck, taskVars, netVars
<1>2. CASE StartParam(c)    BY <1>2 DEF StartParam, taskVars, netVars
<1>3. CASE StartFail(c)     BY <1>3 DEF StartFail, taskVars, netVars
<1>4. CASE StartCreate(c)   BY <1>4 DEF StartCreate, TaskLabels, netVars
<1>5. CASE StartRunning(c)  BY <1>5 DEF StartRunning, taskVars, netVars
<1>6. CASE StartIgnore(c)   BY <1>6 DEF StartIgnore, taskVars, netVars
<1> QED  BY <1>1, <1>2, <1>3, <1>4, <1>5, <1>6 DEF StartStep

LEMMA TaskType ==
  ASSUME TypeOK, NEW s \in Starts, TaskStep(s)
  PROVE  TypeOK'
<1> USE DEF TypeOK, TaskLabels, Exit, Goto, callerVars, netVars
<1>1. CASE TaskAct(s)
  <2>1. target' \in StartsOrNone /\ modem' \in {"idle", "connecting", "responding"}
    BY <1>1 DEF TaskAct
  <2> QED  BY <1>1, <2>1 DEF TaskAct
<1>2. CASE TaskStatus(s)       BY <1>2 DEF TaskStatus
<1>3. CASE TaskResp(s)         BY <1>3 DEF TaskResp
<1>4. CASE TaskTimesOut(s)     BY <1>4 DEF TaskTimesOut
<1>5. CASE TaskVersion(s)      BY <1>5 DEF TaskVersion
<1>6. CASE TaskBegin(s)        BY <1>6 DEF TaskBegin
<1>7. CASE TaskMalloc(s)       BY <1>7 DEF TaskMalloc
<1>8. CASE TaskPacket(s)       BY <1>8 DEF TaskPacket
<1>9. CASE TaskAbort(s)        BY <1>9 DEF TaskAbort
<1>10. CASE TaskEnd(s)         BY <1>10 DEF TaskEnd
<1>11. CASE TaskBoot(s)        BY <1>11 DEF TaskBoot
<1>12. CASE TaskIdle(s)        BY <1>12 DEF TaskIdle
<1>13. CASE TaskReport(s)      BY <1>13 DEF TaskReport
<1> QED  BY <1>1, <1>2, <1>3, <1>4, <1>5, <1>6, <1>7, <1>8, <1>9, <1>10, <1>11,
            <1>12, <1>13 DEF TaskStep

LEMMA ModemType == TypeOK /\ ModemStep => TypeOK'
<1> SUFFICES ASSUME TypeOK, ModemStep PROVE TypeOK'
  OBVIOUS
<1> USE DEF TypeOK, callerVars, taskVars
<1>1. CASE ModemConnects       BY <1>1 DEF ModemConnects
<1>2. CASE ModemFails          BY <1>2 DEF ModemFails
<1>3. CASE ModemResponds       BY <1>3 DEF ModemResponds
<1>4. CASE ModemGivesUp        BY <1>4 DEF ModemGivesUp
<1> QED  BY <1>1, <1>2, <1>3, <1>4 DEF ModemStep

\* A step that leaves tasks and modem alone, and lets no caller through to the
\* creation of a task, keeps SessionInv.
LEMMA SessionKept ==
  ASSUME SessionInv, UNCHANGED <<tpc, url, netVars>>,
         \A d \in Callers : cpc'[d] = "create" => cpc[d] = "create" /\ cur'[d] = cur[d]
  PROVE  SessionInv'
<1>1. Calm' = Calm /\ prompt' = prompt
  BY DEF Calm, netVars
<1>2. \A s \in Starts : StatusCase(s)' = StatusCase(s) /\ RespCase(s)' = RespCase(s)
  BY <1>1 DEF StatusCase, RespCase, netVars
<1>3. UNCHANGED <<tpc, url, session>>
  BY DEF netVars
<1> QED
  BY <1>1, <1>2, <1>3 DEF SessionInv

\* A call that goes on has found the status idle; with one caller nobody else
\* is about to set it, so no task runs.
LEMMA CheckPreserves ==
  ASSUME OneCaller, IInv, NEW c \in Callers, NEW f \in Asks, StartCheck(c, f)
  PROVE  IInv'
<1> USE DEF IInv, Active, StartCheck, taskVars, netVars
<1>1. TypeOK'
  BY CallerType
<1>2. \A s \in Starts : status = "idle" => ~Active(s)
  BY DEF OneCaller, KnownRunning
<1>3. nstarts + 1 \in Starts /\ tpc[nstarts + 1] = "none"
  BY DEF TypeOK, FreshInv, Starts
<1>4. FreshInv'
  <2>1. nstarts' = nstarts + 1 /\ nstarts \in Nat /\ UNCHANGED tpc
    BY DEF TypeOK
  <2>2. \A d \in Callers : \/ cpc'[d] = cpc[d] /\ cur'[d] = cur[d]
                           \/ cpc'[d] = "param" /\ cur'[d] = nstarts + 1
    BY DEF TypeOK
  <2>3. \A s \in Starts : s > nstarts' => tpc'[s] = "none"
    BY <2>1 DEF FreshInv, Starts
  <2>4. \A d \in Callers : cpc[d] # "idle" => cur[d] \in Nat
    BY DEF TypeOK, Starts
  <2>5. \A d \in Callers : cpc'[d] # "idle" => cur'[d] <= nstarts'
    BY <2>1, <2>2, <2>4 DEF FreshInv
  <2>6. \A d \in Callers : cpc'[d] \in StartNotCreated => tpc'[cur'[d]] = "none"
    BY <1>3, <2>1, <2>2 DEF FreshInv, StartNotCreated
  <2> QED  BY <2>3, <2>5, <2>6 DEF FreshInv
<1>5. NoneWhileStarting'
  BY <1>2 DEF TypeOK, NoneWhileStarting
<1>6. KnownRunning'
  <2>1. \A d \in Callers : cpc[d] = "running" => cpc'[d] = "running" /\ cur'[d] = cur[d]
    BY DEF TypeOK
  <2> QED  BY <2>1 DEF KnownRunning
<1>7. (OneUpdate /\ SentInv /\ WritesWhatWasAsked)'
  BY DEF OneUpdate, SentInv, WritesWhatWasAsked
<1>8. SessionInv'
  <2>1. \A d \in Callers : cpc'[d] = "create" => cpc[d] = "create" /\ cur'[d] = cur[d]
    BY DEF TypeOK
  <2>2. UNCHANGED <<tpc, url, netVars>>
    OBVIOUS
  <2> QED  BY <2>1, <2>2, SessionKept
<1> QED  BY <1>1, <1>4, <1>5, <1>6, <1>7, <1>8

\* The steps up to the creation of the task meet no other task, so the URL they
\* change is nobody's; the steps after it change no task.
LEMMA CallerPreserves ==
  ASSUME OneCaller, IInv, NEW c \in Callers, StartStep(c)
  PROVE  IInv'
<1> USE DEF IInv, Active, netVars
<1>1. TypeOK'
  BY CallerType
<1>2. \A d \in Callers : d = c
  BY DEF OneCaller
<1>3. CASE StartParam(c)
  <2> USE <1>3 DEF StartParam, taskVars, StartNotCreated
  <2>1. \A s \in Starts : ~Active(s)
    BY DEF NoneWhileStarting
  <2>2. FreshInv' /\ NoneWhileStarting' /\ KnownRunning'
    BY <1>2, <2>1 DEF FreshInv, NoneWhileStarting, KnownRunning, TypeOK
  <2>3. OneUpdate' /\ SentInv' /\ WritesWhatWasAsked'
    BY DEF OneUpdate, SentInv, WritesWhatWasAsked
  <2>4. SessionInv'
    <3>1. /\ Calm' = Calm
          /\ UNCHANGED <<tpc, prompt>>
          /\ \A s \in Starts : tpc[s] \in {"none", "report_ok", "report_fail", "deleted"}
      BY <2>1 DEF Calm
    <3>2. \A d \in Callers : cpc'[d] = "create" => url' = cur'[d]
      BY <1>2 DEF TypeOK
    <3> QED  BY <3>1, <3>2 DEF SessionInv
  <2> QED  BY <1>1, <2>2, <2>3, <2>4
<1>4. CASE StartFail(c)
  <2> USE <1>4 DEF StartFail, taskVars, StartNotCreated
  <2>1. \A s \in Starts : ~Active(s)
    BY DEF NoneWhileStarting
  <2>2. FreshInv' /\ NoneWhileStarting' /\ KnownRunning'
    BY <1>2, <2>1 DEF FreshInv, NoneWhileStarting, KnownRunning, TypeOK
  <2>3. OneUpdate' /\ SentInv' /\ WritesWhatWasAsked'
    BY DEF OneUpdate, SentInv, WritesWhatWasAsked
  <2>4. SessionInv'
    <3>1. /\ Calm' = Calm
          /\ UNCHANGED <<tpc, prompt>>
          /\ \A s \in Starts : tpc[s] \in {"none", "report_ok", "report_fail", "deleted"}
      BY <2>1 DEF Calm
    <3>2. \A d \in Callers : cpc'[d] = "create" => url' = cur'[d]
      BY <1>2 DEF TypeOK
    <3> QED  BY <3>1, <3>2 DEF SessionInv
  <2> QED  BY <1>1, <2>2, <2>3, <2>4
<1>5. CASE StartCreate(c)
  <2> USE <1>5 DEF StartCreate, StartNotCreated
  <2>1. cur[c] \in Starts /\ tpc[cur[c]] = "none" /\ sent[cur[c]] = 0
        /\ (prompt => url = cur[c]) /\ cur[c] <= nstarts
    BY DEF TypeOK, FreshInv, SentInv, SessionInv
  <2>2. \A s \in Starts : ~Active(s)
    BY DEF NoneWhileStarting
  <2>3. \A s \in Starts : Active(s)' => s = cur[c]
    BY <2>2 DEF TypeOK
  <2>4. FreshInv'
    BY <1>2, <2>1 DEF FreshInv, TypeOK, Starts
  <2>5. NoneWhileStarting' /\ KnownRunning' /\ OneUpdate'
    BY <1>2, <2>3 DEF NoneWhileStarting, KnownRunning, OneUpdate, TypeOK
  <2>6. SentInv' /\ SessionInv'
    <3>1. tpc' = [tpc EXCEPT ![cur[c]] = "connect"] /\ UNCHANGED <<sent, prompt, url>>
      OBVIOUS
    <3>2. SentInv'
      BY <2>1, <3>1 DEF SentInv, TypeOK
    <3>3. \A s \in Starts : tpc[s] \in {"none", "report_ok", "report_fail", "deleted"}
      BY <2>2
    <3>4. \A s \in Starts : tpc'[s] \in {"none", "connect", "report_ok", "report_fail", "deleted"}
                            /\ (tpc'[s] = "connect" => s = cur[c])
      BY <2>1, <3>1, <3>3 DEF TypeOK
    <3>5. Calm' = Calm
      BY DEF Calm
    <3>6. \A d \in Callers : cpc'[d] # "create"
      BY <1>2 DEF TypeOK
    <3>7. SessionInv'
      BY <2>1, <3>1, <3>3, <3>4, <3>5, <3>6 DEF SessionInv
    <3> QED  BY <3>2, <3>7
  <2>7. WritesWhatWasAsked'
    BY <2>1, <2>3 DEF WritesWhatWasAsked, TypeOK
  <2> QED  BY <1>1, <2>4, <2>5, <2>6, <2>7
<1>6. CASE StartRunning(c)
  <2>1. UNCHANGED <<cur, nstarts, url, taskVars, netVars, image>>
    BY <1>6 DEF StartRunning
  <2>2. cpc' = [cpc EXCEPT ![c] = "ignore"] /\ cpc[c] = "running"
    BY <1>6 DEF StartRunning
  <2>3. FreshInv' /\ NoneWhileStarting' /\ KnownRunning'
    BY <1>6, <1>2, <2>1, <2>2 DEF StartRunning, taskVars, StartNotCreated, TypeOK,
       FreshInv, NoneWhileStarting, KnownRunning
  <2>4. OneUpdate' /\ SentInv' /\ WritesWhatWasAsked'
    BY <2>1 DEF taskVars, OneUpdate, SentInv, WritesWhatWasAsked
  <2>5. SessionInv'
    <3>1. \A d \in Callers : cpc'[d] = "create" => cpc[d] = "create"
      BY <2>2 DEF TypeOK
    <3> QED  BY <2>1, <3>1, SessionKept DEF taskVars
  <2> QED  BY <1>1, <2>3, <2>4, <2>5
<1>7. CASE StartIgnore(c)
  <2>1. UNCHANGED <<cur, nstarts, url, taskVars, netVars, image>>
    BY <1>7 DEF StartIgnore
  <2>2. cpc' = [cpc EXCEPT ![c] = "idle"] /\ cpc[c] = "ignore"
    BY <1>7 DEF StartIgnore
  <2>3. FreshInv' /\ NoneWhileStarting' /\ KnownRunning'
    BY <1>7, <1>2, <2>1, <2>2 DEF StartIgnore, taskVars, StartNotCreated, TypeOK,
       FreshInv, NoneWhileStarting, KnownRunning
  <2>4. OneUpdate' /\ SentInv' /\ WritesWhatWasAsked'
    BY <2>1 DEF taskVars, OneUpdate, SentInv, WritesWhatWasAsked
  <2>5. SessionInv'
    <3>1. \A d \in Callers : cpc'[d] = "create" => cpc[d] = "create"
      BY <2>2 DEF TypeOK
    <3> QED  BY <2>1, <3>1, SessionKept DEF taskVars
  <2> QED  BY <1>1, <2>3, <2>4, <2>5
<1> QED  BY <1>3, <1>4, <1>5, <1>6, <1>7 DEF StartStep

\* A task that ends sets the status back; it was the only one.
LEMMA TaskPreserves ==
  ASSUME IInv, NEW s \in Starts, TaskStep(s)
  PROVE  IInv'
<1> USE DEF IInv, Active, callerVars, Goto, Exit, netVars
<1>1. TypeOK'
  BY TaskType
<1>2. tpc[s] # "none" /\ \A r \in Starts \ {s} : tpc'[r] = tpc[r]
  BY DEF TypeOK, TaskStep, TaskAct, TaskStatus, TaskResp, TaskTimesOut, TaskVersion,
         TaskBegin, TaskMalloc, TaskPacket, TaskAbort, TaskEnd, TaskBoot, TaskIdle,
         TaskReport
<1>3. tpc'[s] # "none" /\ (Active(s)' => Active(s))
  BY DEF TypeOK, TaskStep, TaskAct, TaskStatus, TaskResp, TaskTimesOut, TaskVersion,
         TaskBegin, TaskMalloc, TaskPacket, TaskAbort, TaskEnd, TaskBoot, TaskIdle,
         TaskReport
<1>4. UNCHANGED callerVars /\ UNCHANGED <<url, prompt>>
  BY DEF TaskStep, TaskAct, TaskStatus, TaskResp, TaskTimesOut, TaskVersion,
         TaskBegin, TaskMalloc, TaskPacket, TaskAbort, TaskEnd, TaskBoot, TaskIdle,
         TaskReport
<1>5. \A r \in Starts : Active(r)' => Active(r)
  BY <1>2, <1>3
<1>6. FreshInv'
  BY <1>2, <1>4 DEF FreshInv, TypeOK, StartNotCreated
<1>7. NoneWhileStarting' /\ OneUpdate'
  BY <1>4, <1>5 DEF NoneWhileStarting, OneUpdate
<1>8. KnownRunning'
  <2>1. CASE UNCHANGED status
    BY <1>4, <1>5, <2>1 DEF KnownRunning
  <2>2. CASE TaskIdle(s)
    <3>1. \A r \in Starts : ~Active(r)'
      BY <1>2, <2>2 DEF TaskIdle, OneUpdate, TypeOK
    <3> QED  BY <3>1 DEF KnownRunning
  <2> QED
    BY <2>1, <2>2 DEF TaskStep, TaskAct, TaskStatus, TaskResp, TaskTimesOut,
       TaskVersion, TaskBegin, TaskMalloc, TaskPacket, TaskAbort, TaskEnd, TaskBoot,
       TaskReport
<1>9. SentInv'
  BY <1>2 DEF TypeOK, SentInv, TaskStep, TaskAct, TaskStatus, TaskResp, TaskTimesOut,
     TaskVersion, TaskBegin, TaskMalloc, TaskPacket, TaskAbort, TaskEnd, TaskBoot,
     TaskIdle, TaskReport
<1>10. Active(s) => \A r \in Starts \ {s} : ~Active(r) /\ ~Active(r)'
  BY <1>2 DEF OneUpdate
<1>11. SessionInv'
  <2> SUFFICES ASSUME prompt PROVE SessionInv'
    BY <1>4 DEF SessionInv
  <2> DEFINE OfTask(r) == /\ tpc[r] \notin {"status", "resp"} => Calm
                          /\ tpc[r] = "connect" => url = r
                          /\ tpc[r] = "status" => StatusCase(r)
                          /\ tpc[r] = "resp" => RespCase(r)
                          /\ tpc[r] \in {"version", "begin", "malloc", "download"} =>
                               session = r
  <2>1. CASE TaskReport(s)
    BY <1>2, <1>4, <2>1
       DEF TaskReport, SessionInv, Calm, StatusCase, RespCase, TypeOK
  <2>2. CASE Active(s)
    <3>1. OfTask(s)
      BY <1>10, <2>2 DEF SessionInv
    <3>2. SUFFICES OfTask(s)'
      BY <1>4, <1>10, <2>2 DEF SessionInv
    <3> USE DEF TypeOK, Calm, StatusCase, RespCase
    <3>3. CASE TaskAct(s)        BY <3>1, <3>3 DEF TaskAct
    <3>4. CASE TaskStatus(s)     BY <3>1, <3>4 DEF TaskStatus
    <3>5. CASE TaskResp(s)       BY <3>1, <3>5 DEF TaskResp
    <3>6. CASE TaskTimesOut(s)   BY <3>1, <3>6 DEF TaskTimesOut, MayTimeOut
    <3>7. CASE TaskVersion(s)    BY <3>1, <3>7 DEF TaskVersion
    <3>8. CASE TaskBegin(s)      BY <3>1, <3>8 DEF TaskBegin
    <3>9. CASE TaskMalloc(s)     BY <3>1, <3>9 DEF TaskMalloc
    <3>10. CASE TaskPacket(s)    BY <3>1, <3>10 DEF TaskPacket
    <3>11. CASE TaskAbort(s)     BY <3>1, <3>11 DEF TaskAbort
    <3>12. CASE TaskEnd(s)       BY <3>1, <3>12 DEF TaskEnd
    <3>13. CASE TaskBoot(s)      BY <3>1, <3>13 DEF TaskBoot
    <3>14. CASE TaskIdle(s)      BY <3>1, <3>14 DEF TaskIdle
    <3> QED  BY <2>2, <3>3, <3>4, <3>5, <3>6, <3>7, <3>8, <3>9, <3>10, <3>11, <3>12,
                <3>13, <3>14 DEF TaskStep, TaskReport
  <2> QED
    BY <2>1, <2>2 DEF TaskStep, TaskAct, TaskStatus, TaskResp, TaskTimesOut,
       TaskVersion, TaskBegin, TaskMalloc, TaskPacket, TaskAbort, TaskEnd, TaskBoot,
       TaskIdle
<1>12. WritesWhatWasAsked'
  <2> SUFFICES ASSUME prompt PROVE WritesWhatWasAsked'
    BY <1>4 DEF WritesWhatWasAsked
  <2>1. CASE UNCHANGED <<image, sent>>
    BY <1>4, <1>5, <2>1 DEF WritesWhatWasAsked
  <2>2. CASE TaskPacket(s)
    <3> USE DEF TypeOK
    <3>1. session = s /\ sent'[s] = sent[s] + 1 /\ sent[s] + 1 \in 1 .. Packets
      BY <2>2 DEF TaskPacket, SessionInv
    <3>2. image'[sent[s] + 1] = s /\ \A p \in 1 .. sent[s] : image'[p] = s
      <4>1. \A p \in 1 .. sent[s] : image[p] = s /\ p \in 1 .. Packets
        <5>1. tpc[s] = "download" /\ sent[s] \in 0 .. Packets
          BY <2>2 DEF TaskPacket
        <5>2. \A p \in 1 .. sent[s] : image[p] = s
          BY <5>1 DEF WritesWhatWasAsked
        <5> QED  BY <5>1, <5>2
      <4>2. image' = [image EXCEPT ![sent[s] + 1] = s]
        BY <2>2, <3>1 DEF TaskPacket
      <4> QED  BY <3>1, <4>1, <4>2
    <3>3. \A r \in Starts : Active(r)' => r = s
      BY <1>10, <2>2 DEF TaskPacket
    <3>4. \A p \in 1 .. sent'[s] : image'[p] = s
      BY <3>1, <3>2
    <3> QED  BY <3>3, <3>4 DEF WritesWhatWasAsked
  <2> QED
    BY <2>1, <2>2 DEF TaskStep, TaskAct, TaskStatus, TaskResp, TaskTimesOut,
       TaskVersion, TaskBegin, TaskMalloc, TaskAbort, TaskEnd, TaskBoot, TaskIdle,
       TaskReport
<1> QED  BY <1>1, <1>6, <1>7, <1>8, <1>9, <1>11, <1>12

\* A report comes while the task waits for it, and from the request of that task.
LEMMA ModemPreserves == IInv /\ ModemStep => IInv'
<1> SUFFICES ASSUME IInv, ModemStep PROVE IInv'
  OBVIOUS
<1> USE DEF IInv, Active, callerVars, taskVars
<1>1. TypeOK'
  BY ModemType
<1>2. UNCHANGED <<status, callerVars, taskVars, url, image, prompt>>
  BY DEF ModemStep, ModemConnects, ModemFails, ModemResponds, ModemGivesUp
<1>3. FreshInv' /\ NoneWhileStarting' /\ KnownRunning' /\ OneUpdate' /\ SentInv'
      /\ WritesWhatWasAsked'
  BY <1>2 DEF FreshInv, NoneWhileStarting, KnownRunning, OneUpdate, SentInv,
     WritesWhatWasAsked
<1>4. SessionInv'
  <2> SUFFICES ASSUME prompt PROVE SessionInv'
    BY <1>2 DEF SessionInv
  <2>1. PICK s \in Starts : tpc[s] \in {"status", "resp"}
    BY DEF SessionInv, Calm, ModemStep, ModemConnects, ModemFails, ModemResponds,
           ModemGivesUp
  <2>2. \A r \in Starts \ {s} : ~Active(r)
    BY <2>1 DEF OneUpdate
  <2>3. /\ tpc[s] = "status" => StatusCase(s)
        /\ tpc[s] = "resp" => RespCase(s)
    BY DEF SessionInv
  <2>4. SUFFICES /\ tpc[s] = "status" => StatusCase(s)'
                 /\ tpc[s] = "resp" => RespCase(s)'
    BY <1>2, <2>1, <2>2 DEF SessionInv
  <2> USE DEF Calm, StatusCase, RespCase
  <2>5. CASE ModemConnects  BY <2>3, <2>5 DEF ModemConnects
  <2>6. CASE ModemFails     BY <2>3, <2>6 DEF ModemFails
  <2>7. CASE ModemResponds  BY <2>3, <2>7 DEF ModemResponds
  <2>8. CASE ModemGivesUp   BY <2>3, <2>8 DEF ModemGivesUp
  <2> QED  BY <2>5, <2>6, <2>7, <2>8 DEF ModemStep
<1> QED  BY <1>1, <1>3, <1>4

\* With one caller the invariant always holds.
LEMMA Invariant == OneCaller => (Spec => []IInv)
<1> SUFFICES ASSUME OneCaller PROVE Spec => []IInv
  OBVIOUS
<1>1. IInv /\ [Next]_vars => IInv'
  <2> SUFFICES ASSUME IInv, [Next]_vars PROVE IInv'
    OBVIOUS
  <2>1. CASE UNCHANGED vars
    BY <2>1 DEF vars, callerVars, taskVars, netVars, Calm, StatusCase, RespCase, IInv, TypeOK, FreshInv,
       NoneWhileStarting, KnownRunning, OneUpdate, SentInv, SessionInv,
       WritesWhatWasAsked, Active
  <2>2. CASE Next
    BY <2>1, <2>2, CheckPreserves, CallerPreserves, TaskPreserves,
       ModemPreserves
       DEF Next, Terminated
  <2> QED  BY <2>1, <2>2
<1> QED  BY <1>1, InitEstablishes, PTL DEF Spec

\* One task that calls ota_start never has two updates running at a time, although
\* the status is set only when the task of the update already runs,
THEOREM OneUpdateSafe == OneCaller => (Spec => []OneUpdate)
<1>1. IInv => OneUpdate
  BY DEF IInv
<1> QED  BY <1>1, Invariant, PTL

\* and with a modem that reports in time every packet an update has written is one
\* of the image it was asked for, also when its own AT+HTTPACT was refused and the
\* session of an earlier update is still there.
THEOREM ImageSafe == OneCaller => (Spec => []WritesWhatWasAsked)
<1>1. IInv => WritesWhatWasAsked
  BY DEF IInv
<1> QED  BY <1>1, Invariant, PTL
=============================================================================

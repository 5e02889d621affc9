------------------------- MODULE MC665CommandsProofs -------------------------
(***************************************************************************)
(* Theorems about MC665Commands, for every set of tasks, every choice of   *)
(* functions and every bound.                                              *)
(*                                                                         *)
(* Two hold for every modem: a function leaves the shared settings as it   *)
(* found them, and no other task writes between its commands.  They follow *)
(* from who is in a function: only its holder is past the driver's mutex,  *)
(* only such a task is in a call of the client, and the settings are a     *)
(* function of the step its holder is at.                                  *)
(*                                                                         *)
(* The others are about answers, for a modem that gives its answer before  *)
(* the timeout or never (PromptModem) and sends no notification whose      *)
(* handler writes (NoHandler).  Of all that was written, one item at a     *)
(* time has its answer on the wire (Source).  WireInv says that every      *)
(* reply line, wherever it is, belongs to that answer; Calm, that there is *)
(* none.  While nobody expects an answer the line is calm (Place), and so  *)
(* the next command finds no line of an earlier one: what ends its wait    *)
(* (Heard) and fills its response (LinesOf) is its own answer, and a wait  *)
(* that ends well was for an answer that accepts (Run).                    *)
(***************************************************************************)
EXTENDS MC665Commands, ATClientProofs

-----------------------------------------------------------------------------
(* The functions *)

Doing(o, p) == Function(o)[p].do

\* The settings of a function at its step p.
SignAt(o, p) == o = "publish" /\ p \in {2, 3}
LineNumAt(o, p) == IF o = "request_ip" /\ p \in {2, 3} THEN 2 ELSE 0

LEMMA FunctionFacts ==
  ASSUME NEW o \in OpKinds
  PROVE  /\ Len(Function(o)) \in Nat \ {0}
         /\ DOMAIN Function(o) = 1 .. Len(Function(o))
         /\ \A p \in DOMAIN Function(o) :
              Doing(o, p) \in {"exec", "send", "connect", "sign", "line_num"}
         /\ \A p \in DOMAIN Function(o) :
              Doing(o, p) \in {"sign", "line_num"} => Function(o)[p].always
         /\ \A p \in DOMAIN Function(o) :
              Doing(o, p) = "sign" => Function(o)[p].arg \in BOOLEAN
         /\ SignAt(o, 1) = FALSE /\ LineNumAt(o, 1) = 0
         /\ SignAt(o, Len(Function(o)) + 1) = FALSE
         /\ LineNumAt(o, Len(Function(o)) + 1) = 0
<1>1. CASE o = "simple"
  BY <1>1 DEF Function, SimpleSteps, Exec, Step, Doing, SignAt, LineNumAt
<1>2. CASE o = "open"
  BY <1>2 DEF Function, OpenSteps, Exec, Step, Doing, SignAt, LineNumAt
<1>3. CASE o = "publish"
  <2>1. Function(o) = PublishSteps /\ Len(PublishSteps) = 5
        /\ DOMAIN PublishSteps = 1 .. 5
    <3>1. Function(o) = PublishSteps
      BY <1>3 DEF Function
    <3>2. \A a, b, c, d, e : Len(<<a, b, c, d, e>>) = 5
                             /\ DOMAIN <<a, b, c, d, e>> = 1 .. 5
      OBVIOUS
    <3> QED BY <3>1, <3>2, Zenon DEF PublishSteps
  <2>2. ASSUME NEW p \in 1 .. 5
        PROVE  /\ Doing(o, p) \in {"exec", "send", "connect", "sign", "line_num"}
               /\ Doing(o, p) \in {"sign", "line_num"} => Function(o)[p].always
               /\ Doing(o, p) = "sign" => Function(o)[p].arg \in BOOLEAN
    <3>0. ASSUME NEW b \in BOOLEAN
          PROVE  /\ Step("sign", b, TRUE).do = "sign"
                 /\ Step("sign", b, TRUE).arg \in BOOLEAN
                 /\ Step("sign", b, TRUE).always
      BY Zenon DEF Step
    <3>1. CASE p = 1
      <4>1. Function(o)[p] = Step("sign", TRUE, TRUE)
        BY <2>1, <3>1 DEF PublishSteps
      <4> QED BY <3>0, <4>1 DEF Doing
    <3>5. CASE p = 3
      <4>1. Function(o)[p] = Step("sign", FALSE, TRUE)
        BY <2>1, <3>5 DEF PublishSteps
      <4> QED BY <3>0, <4>1 DEF Doing
    <3>2. CASE p = 2
      BY <2>1, <3>2 DEF PublishSteps, Exec, Step, Doing
    <3>3. CASE p = 4
      BY <2>1, <3>3 DEF PublishSteps, Exec, Step, Doing
    <3>4. CASE p = 5
      BY <2>1, <3>4 DEF PublishSteps, Exec, Step, Doing
    <3> QED BY <3>1, <3>2, <3>3, <3>4, <3>5
  <2>3. /\ SignAt(o, 1) = FALSE /\ SignAt(o, 6) = FALSE
        /\ LineNumAt(o, 1) = 0 /\ LineNumAt(o, 6) = 0
    BY <1>3 DEF SignAt, LineNumAt
  <2>4. Len(Function(o)) = 5 /\ Len(Function(o)) + 1 = 6 /\ DOMAIN Function(o) = 1 .. 5
    BY <2>1
  <2> QED
    <3>1. Len(Function(o)) \in Nat \ {0} /\ DOMAIN Function(o) = 1 .. Len(Function(o))
      BY <2>4
    <3> HIDE DEF Doing
    <3> QED BY <2>2, <2>3, <2>4, <3>1, Zenon
<1>4. CASE o = "request_ip"
  BY <1>4 DEF Function, RequestIpSteps, Exec, Step, Doing, SignAt, LineNumAt
<1>5. CASE o = "detect"
  BY <1>5 DEF Function, DetectSteps, Exec, Step, Doing, SignAt, LineNumAt
<1> QED BY <1>1, <1>2, <1>3, <1>4, <1>5 DEF OpKinds

\* What a step does to the settings.
LEMMA SettingsFacts ==
  ASSUME NEW o \in OpKinds, NEW p \in DOMAIN Function(o)
  PROVE  /\ SignAt(o, p + 1) <=> IF Doing(o, p) = "sign"
                                  THEN Function(o)[p].arg = TRUE
                                  ELSE SignAt(o, p)
         /\ LineNumAt(o, p + 1) = IF Doing(o, p) = "line_num"
                                  THEN Function(o)[p].arg ELSE LineNumAt(o, p)
<1>1. CASE o = "simple"
  BY <1>1 DEF Function, SimpleSteps, Exec, Step, Doing, SignAt, LineNumAt
<1>2. CASE o = "open"
  BY <1>2 DEF Function, OpenSteps, Exec, Step, Doing, SignAt, LineNumAt
<1>3. CASE o = "publish"
  <2>1. Function(o) = PublishSteps
    BY <1>3 DEF Function
  <2>2. p = 1 \/ p = 2 \/ p = 3 \/ p \in {4, 5}
    BY <2>1 DEF PublishSteps
  <2>3. CASE p = 1
    BY <1>3, <2>1, <2>3 DEF PublishSteps, Exec, Step, Doing, SignAt, LineNumAt
  <2>4. CASE p = 2
    BY <1>3, <2>1, <2>4 DEF PublishSteps, Exec, Step, Doing, SignAt, LineNumAt
  <2>5. CASE p = 3
    BY <1>3, <2>1, <2>5 DEF PublishSteps, Exec, Step, Doing, SignAt, LineNumAt
  <2>6. CASE p \in {4, 5}
    BY <1>3, <2>1, <2>6 DEF PublishSteps, Exec, Step, Doing, SignAt, LineNumAt
  <2> QED BY <2>2, <2>3, <2>4, <2>5, <2>6
<1>4. CASE o = "request_ip"
  BY <1>4 DEF Function, RequestIpSteps, Exec, Step, Doing, SignAt, LineNumAt
<1>5. CASE o = "detect"
  BY <1>5 DEF Function, DetectSteps, Exec, Step, Doing, SignAt, LineNumAt
<1> QED BY <1>1, <1>2, <1>3, <1>4, <1>5 DEF OpKinds

-----------------------------------------------------------------------------
(* Who is in a function, and in a call *)

InFunction(t) == op[t] # "none" /\ pos[t] >= 1

CommandTypes ==
  /\ drvLock \in Tasks \cup {None}
  /\ op \in [Tasks -> OpKinds \cup {"none"}]
  /\ pos \in [Tasks -> Nat] /\ running \in [Tasks -> BOOLEAN]
  /\ failed \in [Tasks -> BOOLEAN] /\ ops \in [Tasks -> Nat]
  /\ \A t \in Tasks : op[t] # "none" => pos[t] <= Len(Function(op[t])) + 1

\* A call is under way only in a step that makes one.
HolderInv ==
  \A t \in Tasks :
    /\ InFunction(t) <=> drvLock = t
    /\ running[t] =>
         AtStep(t) /\ Doing(op[t], pos[t]) \in {"exec", "send", "connect"}
    /\ pc[t] # "idle" => running[t]

SettingsInv ==
  /\ drvLock = None => ~endSign /\ lineNum = 0
  /\ \A t \in Tasks : drvLock = t =>
       /\ endSign <=> SignAt(op[t], pos[t])
       /\ lineNum = LineNumAt(op[t], pos[t])

DrvInv == IInv /\ CommandTypes /\ HolderInv /\ SettingsInv

LEMMA AtStepFacts ==
  ASSUME DrvInv, NEW t \in Tasks, AtStep(t)
  PROVE  /\ op[t] \in OpKinds /\ pos[t] \in DOMAIN Function(op[t])
         /\ Len(Function(op[t])) \in Nat /\ pos[t] \in 1 .. Len(Function(op[t]))
         /\ InFunction(t) /\ drvLock = t /\ t # None
         /\ Current(t) = Function(op[t])[pos[t]]
         /\ Current(t).do = Doing(op[t], pos[t])
<1>1. op[t] \in OpKinds /\ pos[t] \in DOMAIN Function(op[t]) /\ op[t] # "none"
  BY DEF DrvInv, CommandTypes, AtStep
<1>2. Len(Function(op[t])) \in Nat /\ pos[t] \in 1 .. Len(Function(op[t]))
  BY <1>1, FunctionFacts
<1>3. InFunction(t)
  BY <1>1, <1>2 DEF InFunction
<1> QED BY <1>1, <1>2, <1>3, ConstantsOK DEF DrvInv, HolderInv, Current, Doing

LEMMA DrvInit == CommandsInit => DrvInv
BY InvInit, ConstantsOK
   DEF CommandsInit, Init, DrvInv, CommandTypes, HolderInv, SettingsInv,
       InFunction

\* A step that keeps the functions where they are.
LEMMA InPlace ==
  ASSUME DrvInv, UNCHANGED <<drvLock, lineNum, op, pos, running, failed, ops>>,
         endSign' = endSign,
         \A t \in Tasks : pc'[t] # "idle" => pc[t] # "idle"
  PROVE  CommandTypes' /\ HolderInv' /\ SettingsInv'
BY DEF DrvInv, CommandTypes, HolderInv, SettingsInv, InFunction, AtStep

\* The holder goes on to the next step.
LEMMA NextInPlace ==
  ASSUME DrvInv, NEW t \in Tasks, AtStep(t), NextStep(t),
         UNCHANGED <<drvLock, op, ops>>, failed' \in [Tasks -> BOOLEAN],
         running' \in [Tasks -> BOOLEAN], ~running'[t], pc'[t] = "idle",
         \A u \in Tasks \ {t} : running'[u] = running[u] /\ pc'[u] = pc[u],
         endSign' <=> SignAt(op[t], pos[t] + 1),
         lineNum' = LineNumAt(op[t], pos[t] + 1)
  PROVE  CommandTypes' /\ HolderInv' /\ SettingsInv'
<1>1. /\ pos \in [Tasks -> Nat] /\ pos' = [pos EXCEPT ![t] = pos[t] + 1]
      /\ pos[t] \in 1 .. Len(Function(op[t])) /\ drvLock = t /\ t # None
      /\ Len(Function(op[t])) \in Nat /\ op[t] # "none"
  BY AtStepFacts DEF NextStep, DrvInv, CommandTypes, AtStep
<1>2. CommandTypes'
  BY <1>1 DEF DrvInv, CommandTypes
<1>3. ASSUME NEW u \in Tasks
      PROVE  /\ InFunction(u)' <=> drvLock' = u
             /\ running'[u] => AtStep(u)' /\ Doing(op'[u], pos'[u])
                                             \in {"exec", "send", "connect"}
             /\ pc'[u] # "idle" => running'[u]
  <2>1. CASE u = t
    BY <1>1, <2>1 DEF InFunction
  <2>2. CASE u # t
    BY <1>1, <2>2 DEF InFunction, DrvInv, HolderInv, AtStep
  <2> QED BY <2>1, <2>2
<1>4. SettingsInv'
  BY <1>1 DEF SettingsInv
<1> QED BY <1>2, <1>3, <1>4 DEF HolderInv

\* Every step of the functions is a step of the client, or none.
LEMMA ClientSteps ==
  ASSUME DrvInv, [CommandsNext]_allVars PROVE [Next]_vars
<1>1. ASSUME NEW t \in Tasks, OpStep(t) PROVE [Next]_vars
  <2>1. CASE InCall(t)
    BY <2>1 DEF InCall, Next, TaskStep
  <2>2. CASE SignStep(t)
    <3>1. Current(t).arg \in BOOLEAN
      BY <2>2, AtStepFacts, FunctionFacts DEF SignStep
    <3> QED BY <2>2, <3>1 DEF SignStep, Next, TaskStep
  <2>3. CASE Start(t)
    <3>1. AtStep(t)
      BY <2>3 DEF Start
    <3>2. drvLock = t /\ t # None
      BY <3>1, AtStepFacts
    <3>3. lineNum \in LineNums
      BY <3>2, LineNumsOK DEF DrvInv, SettingsInv, LineNumAt
    <3> QED BY <2>3, <3>3 DEF Start, Next, TaskStep
  <2>4. CASE \/ TakeDrvLock(t) \/ LeaveOut(t) \/ LineNumStep(t)
             \/ FinishStep(t) \/ Release(t)
    BY <2>4 DEF TakeDrvLock, LeaveOut, LineNumStep, FinishStep, Release
  <2> QED BY <1>1, <2>1, <2>2, <2>3, <2>4 DEF OpStep
<1>2. ASSUME NEW t \in Tasks, NEW o \in OpKinds, CallOp(t, o) PROVE [Next]_vars
  BY <1>2 DEF CallOp
<1>3. CASE InParser
  BY <1>3 DEF InParser, Next
<1>4. CASE InModemAnswer \/ InModemUrc
  BY <1>4 DEF InModemAnswer, InModemUrc, Next, ModemStep
<1>5. CASE AllDone
  BY <1>5 DEF AllDone, allVars
<1>6. CASE UNCHANGED allVars
  BY <1>6 DEF allVars
<1> QED BY <1>1, <1>2, <1>3, <1>4, <1>5, <1>6 DEF CommandsNext

LEMMA DrvNext == DrvInv /\ [CommandsNext]_allVars => DrvInv'
<1> SUFFICES ASSUME DrvInv, [CommandsNext]_allVars PROVE DrvInv'
  OBVIOUS
<1>1. IInv'
  BY ClientSteps, InvNext DEF DrvInv
<1>2. ASSUME NEW t \in Tasks, OpStep(t)
      PROVE  CommandTypes' /\ HolderInv' /\ SettingsInv'
  <2>1. CASE TakeDrvLock(t)
    <3>1. op[t] \in OpKinds /\ pos[t] = 0 /\ drvLock = None /\ drvLock' = t
          /\ pos' = [pos EXCEPT ![t] = 1] /\ t # None
      BY <2>1, ConstantsOK DEF TakeDrvLock, DrvInv, CommandTypes
    <3>2. /\ Len(Function(op[t])) \in Nat \ {0}
          /\ SignAt(op[t], 1) = FALSE /\ LineNumAt(op[t], 1) = 0
      BY <3>1, FunctionFacts
    <3>3. CommandTypes'
      BY <2>1, <3>1, <3>2 DEF TakeDrvLock, DrvInv, CommandTypes
    <3>4. ~running[t] /\ pc[t] = "idle"
      <4>1. ~InFunction(t)
        BY <3>1 DEF InFunction
      <4>2. ~AtStep(t)
        BY <3>1, FunctionFacts DEF AtStep
      <4> QED BY <4>2 DEF DrvInv, HolderInv, CommandTypes
    <3>5. HolderInv'
      <4>1. UNCHANGED <<op, running, pc>>
        BY <2>1 DEF TakeDrvLock, vars, taskVars
      <4>2. ASSUME NEW u \in Tasks
            PROVE  /\ InFunction(u)' <=> drvLock' = u
                   /\ running'[u] => AtStep(u)' /\ Doing(op'[u], pos'[u])
                                                   \in {"exec", "send", "connect"}
                   /\ pc'[u] # "idle" => running'[u]
        <5>1. CASE u = t
          BY <3>1, <3>4, <4>1, <5>1
             DEF InFunction, DrvInv, CommandTypes, OpKinds
        <5>2. CASE u # t
          BY <3>1, <4>1, <5>2, ConstantsOK
             DEF InFunction, AtStep, DrvInv, HolderInv, CommandTypes
        <5> QED BY <5>1, <5>2
      <4> QED BY <4>2 DEF HolderInv
    <3>6. SettingsInv'
      BY <2>1, <3>1, <3>2 DEF TakeDrvLock, DrvInv, SettingsInv, CommandTypes, vars
    <3> QED BY <3>3, <3>5, <3>6
  <2>2. CASE LeaveOut(t)
    <3>1. AtStep(t)
      BY <2>2 DEF LeaveOut
    <3>2. Doing(op[t], pos[t]) \notin {"sign", "line_num"}
      BY <2>2, <3>1, AtStepFacts, FunctionFacts DEF LeaveOut, LeftOut
    <3>3. /\ endSign <=> SignAt(op[t], pos[t] + 1)
          /\ lineNum = LineNumAt(op[t], pos[t] + 1)
      BY <3>1, <3>2, AtStepFacts, SettingsFacts DEF DrvInv, SettingsInv
    <3>4. ~running[t] /\ pc[t] = "idle"
      BY <2>2 DEF LeaveOut, DrvInv, HolderInv
    <3> QED BY <2>2, <3>1, <3>3, <3>4, NextInPlace
            DEF LeaveOut, vars, taskVars, DrvInv, CommandTypes
  <2>3. CASE SignStep(t)
    <3>1. AtStep(t) /\ Current(t).do = "sign" /\ endSign' = Current(t).arg
          /\ pc' = pc
      BY <2>3 DEF SignStep, SetEndSign, vars, taskVars
    <3>2. Doing(op[t], pos[t]) = "sign" /\ Current(t).arg \in BOOLEAN
      BY <3>1, AtStepFacts, FunctionFacts
    <3>3. endSign' <=> SignAt(op[t], pos[t] + 1)
      BY <3>1, <3>2, AtStepFacts, SettingsFacts
    <3>4. lineNum = LineNumAt(op[t], pos[t] + 1)
      BY <3>1, <3>2, AtStepFacts, SettingsFacts DEF DrvInv, SettingsInv
    <3>5. ~running[t] /\ pc[t] = "idle"
      BY <3>2 DEF DrvInv, HolderInv
    <3> QED BY <2>3, <3>1, <3>3, <3>4, <3>5, NextInPlace
            DEF SignStep, DrvInv, CommandTypes
  <2>4. CASE LineNumStep(t)
    <3>1. AtStep(t) /\ Current(t).do = "line_num" /\ lineNum' = Current(t).arg
          /\ pc' = pc /\ endSign' = endSign
      BY <2>4 DEF LineNumStep, vars, taskVars
    <3>2. Doing(op[t], pos[t]) = "line_num"
      BY <3>1, AtStepFacts
    <3>3. lineNum' = LineNumAt(op[t], pos[t] + 1)
      BY <3>1, <3>2, AtStepFacts, SettingsFacts
    <3>4. endSign' <=> SignAt(op[t], pos[t] + 1)
      BY <3>1, <3>2, AtStepFacts, SettingsFacts DEF DrvInv, SettingsInv
    <3>5. ~running[t] /\ pc[t] = "idle"
      BY <3>2 DEF DrvInv, HolderInv
    <3> QED BY <2>4, <3>1, <3>3, <3>4, <3>5, NextInPlace
            DEF LineNumStep, DrvInv, CommandTypes
  <2>5. CASE Start(t)
    <3>1. AtStep(t) /\ Current(t).do \in {"exec", "send", "connect"}
          /\ running' = [running EXCEPT ![t] = TRUE]
      BY <2>5 DEF Start
    <3>2. /\ pc' = [pc EXCEPT ![t] = "lock"] /\ endSign' = endSign
      BY <2>5 DEF Start, CallExec, CallSend, CallWaitConnect, Begin, Return, Goto
    <3>3. Doing(op[t], pos[t]) \in {"exec", "send", "connect"}
      BY <3>1, AtStepFacts
    <3>4. CommandTypes' /\ SettingsInv'
      BY <2>5, <3>1, <3>2 DEF Start, DrvInv, CommandTypes, SettingsInv
    <3>5. pc \in [Tasks -> PcLabels]
      BY DEF DrvInv, IInv, TypeInv, TypeOK
    <3>6. HolderInv'
      BY <2>5, <3>1, <3>2, <3>3, <3>5
         DEF Start, DrvInv, HolderInv, CommandTypes, InFunction, AtStep
    <3> QED BY <3>4, <3>6
  <2>6. CASE FinishStep(t)
    <3>1. AtStep(t) /\ running[t] /\ pc[t] = "idle"
      BY <2>6 DEF FinishStep
    <3>2. Doing(op[t], pos[t]) \in {"exec", "send", "connect"}
      BY <3>1 DEF DrvInv, HolderInv
    <3>3. /\ endSign <=> SignAt(op[t], pos[t] + 1)
          /\ lineNum = LineNumAt(op[t], pos[t] + 1)
      BY <3>1, <3>2, AtStepFacts, SettingsFacts DEF DrvInv, SettingsInv
    <3>4. failed' \in [Tasks -> BOOLEAN]
      <4>1. Succeeded(t) \in BOOLEAN
        BY DEF Succeeded
      <4>2. (failed[t] \/ ~Succeeded(t)) \in BOOLEAN
        OBVIOUS
      <4> QED BY <2>6, <4>2 DEF FinishStep, DrvInv, CommandTypes
    <3>5. /\ running' \in [Tasks -> BOOLEAN] /\ ~running'[t] /\ pc' = pc
          /\ \A u \in Tasks \ {t} : running'[u] = running[u]
          /\ endSign' = endSign /\ lineNum' = lineNum
          /\ NextStep(t) /\ UNCHANGED <<drvLock, op, ops>>
      BY <2>6 DEF FinishStep, DrvInv, CommandTypes, vars, taskVars
    <3> QED BY <3>1, <3>3, <3>4, <3>5, NextInPlace
  <2>7. CASE Release(t)
    <3>1. /\ op[t] \in OpKinds /\ pos[t] = Len(Function(op[t])) + 1
          /\ drvLock' = None /\ op' = [op EXCEPT ![t] = "none"]
          /\ UNCHANGED <<vars, lineNum, pos, running, failed, ops>>
      BY <2>7 DEF Release, DrvInv, CommandTypes
    <3>2. drvLock = t /\ t # None /\ ~running[t] /\ pc[t] = "idle"
      <4>1. /\ Len(Function(op[t])) \in Nat /\ op[t] # "none"
            /\ DOMAIN Function(op[t]) = 1 .. Len(Function(op[t]))
        BY <3>1, FunctionFacts DEF OpKinds
      <4>2. InFunction(t) /\ ~AtStep(t)
        BY <3>1, <4>1 DEF InFunction, AtStep
      <4> QED BY <4>2, ConstantsOK DEF DrvInv, HolderInv
    <3>3. CommandTypes'
      BY <3>1 DEF DrvInv, CommandTypes
    <3>4. HolderInv'
      BY <3>1, <3>2, ConstantsOK DEF DrvInv, HolderInv, CommandTypes, InFunction,
                                     AtStep, vars, taskVars, OpKinds
    <3>5. SettingsInv'
      BY <3>1, <3>2, FunctionFacts, ConstantsOK
         DEF DrvInv, SettingsInv, CommandTypes, vars
    <3> QED BY <3>3, <3>4, <3>5
  <2>8. CASE InCall(t)
    <3>1. UNCHANGED <<drvLock, lineNum, op, pos, running, failed, ops>>
      BY <2>8 DEF InCall, opVars
    <3>2. endSign' = endSign /\ pc[t] # "idle"
          /\ \A u \in Tasks \ {t} : pc'[u] = pc[u]
      <4>1. CallStep(t) /\ pc \in [Tasks -> PcLabels]
        BY <2>8 DEF InCall, DrvInv, IInv, TypeInv, TypeOK
      <4> QED BY <4>1 DEF CallStep, TakeLock, ExecPrepare, ConnectPrepare, ResetSem,
             ExecWrite, ConnectGiveUp, ConnectProbe, SendWrite, Woken, TimedOut,
             CheckStatus, DeleteResp, Finish, Goto, Return
    <3> QED BY <3>1, <3>2, InPlace
  <2> QED BY <1>2, <2>1, <2>2, <2>3, <2>4, <2>5, <2>6, <2>7, <2>8 DEF OpStep
<1>3. ASSUME NEW t \in Tasks, NEW o \in OpKinds, CallOp(t, o)
      PROVE  CommandTypes' /\ HolderInv' /\ SettingsInv'
  <2>1. /\ op[t] = "none" /\ op' = [op EXCEPT ![t] = o]
        /\ pos' = [pos EXCEPT ![t] = 0] /\ failed' = [failed EXCEPT ![t] = FALSE]
        /\ ops' = [ops EXCEPT ![t] = @ + 1]
        /\ UNCHANGED <<vars, drvLock, lineNum, running>>
    BY <1>3 DEF CallOp
  <2>2. drvLock # t /\ ~running[t] /\ pc[t] = "idle"
    BY <2>1 DEF DrvInv, HolderInv, InFunction, AtStep
  <2>3. Len(Function(o)) \in Nat
    BY FunctionFacts
  <2>4. CommandTypes'
    BY <2>1, <2>3 DEF DrvInv, CommandTypes
  <2>5. HolderInv'
    BY <2>1, <2>2 DEF DrvInv, HolderInv, CommandTypes, InFunction, AtStep, vars,
                      taskVars
  <2>6. SettingsInv'
    BY <2>1, <2>2 DEF DrvInv, SettingsInv, CommandTypes, vars
  <2> QED BY <2>4, <2>5, <2>6
<1>4. ASSUME InParser \/ InModemAnswer \/ InModemUrc \/ AllDone \/ UNCHANGED allVars
      PROVE  CommandTypes' /\ HolderInv' /\ SettingsInv'
  <2>1. UNCHANGED <<drvLock, lineNum, op, pos, running, failed, ops>>
    BY <1>4 DEF InParser, InModemAnswer, InModemUrc, AllDone, allVars, opVars
  <2>2. endSign' = endSign /\ pc' = pc
    BY <1>4 DEF InParser, InModemAnswer, InModemUrc, AllDone, allVars, vars, taskVars,
          ParserStep, ReadPartial, ReadUrc, ReadUnrecognized, ReadResponse,
          StoreLine, ClearResp, Notify, HandlerLock, HandlerSend, HandlerRecv,
          HandlerRecvTimedOut, clientVars, ModemAnswer, ModemUrc
  <2>3. \A t \in Tasks : pc'[t] # "idle" => pc[t] # "idle"
    BY <2>2
  <2> QED BY <2>1, <2>2, <2>3, InPlace
<1>5. CommandTypes' /\ HolderInv' /\ SettingsInv'
  <2>1. CASE \E t \in Tasks : OpStep(t) \/ \E o \in OpKinds : CallOp(t, o)
    BY <2>1, <1>2, <1>3
  <2> QED BY <2>1, <1>4 DEF CommandsNext
<1> QED BY <1>1, <1>5 DEF DrvInv

LEMMA DrvAlways == CommandsSpec => []DrvInv
BY DrvInit, DrvNext, PTL DEF CommandsSpec

(* Whatever failed, a function leaves the settings it shares with all the   *)
(* others as it found them: the end sign is off and line_num is 0 whenever  *)
(* nobody holds the driver's mutex (mc665.c, mc665_mqtt.c, mc665_http.c).   *)
THEOREM SettingsSafe == CommandsSpec => []SettingsRestored
<1>1. DrvInv => SettingsRestored
  BY DEF DrvInv, SettingsInv, SettingsRestored
<1> QED BY <1>1, DrvAlways, PTL

-----------------------------------------------------------------------------
(* What a function writes comes in a row *)

ItemTypes == [by : Tasks \cup {Parser}, run : Nat, op : OpKinds \cup {"none"},
              pos : Nat]

\* Item k belongs to run r of t, or to the handler of a notification.
Beside(t, r, k) == k \in Positions(t, r) \/ written[k].by = Parser

\* The items of a run have nothing of another task between them, a run in
\* progress has nothing of another task behind them, and no item is of a run
\* that has not begun.
RowInv ==
  /\ written \in Seq(ItemTypes)
  /\ \A t \in Tasks : \A i \in DOMAIN written :
       written[i].by = t => /\ written[i].run <= ops[t]
                            /\ op[t] # "none" /\ pos[t] = 0 => written[i].run < ops[t]
  /\ \A t \in Tasks : \A r \in Nat : \A i, j \in Positions(t, r) :
       \A k \in i .. j : Beside(t, r, k)
  /\ \A t \in Tasks : drvLock = t =>
       \A i \in Positions(t, ops[t]) : \A k \in i .. Len(written) :
         Beside(t, ops[t], k)

LEMMA RowInit == CommandsInit => RowInv
BY DEF CommandsInit, RowInv, Positions

\* A step that adds nothing: runs begin and end.
LEMMA RowSame ==
  ASSUME DrvInv, DrvInv', RowInv, written' = written,
         \A t \in Tasks : ops'[t] >= ops[t],
         \A t \in Tasks : op'[t] # "none" /\ pos'[t] = 0 =>
           (op[t] # "none" /\ pos[t] = 0 /\ ops'[t] = ops[t]) \/ ops'[t] > ops[t],
         \A t \in Tasks : drvLock' = t =>
           ops'[t] = ops[t] /\ (drvLock = t \/ (op[t] # "none" /\ pos[t] = 0))
  PROVE  RowInv'
<1>1. ops \in [Tasks -> Nat] /\ ops' \in [Tasks -> Nat]
  BY DEF DrvInv, CommandTypes
<1>2. \A i \in DOMAIN written : written[i].run \in Nat
  <2>1. \A i \in DOMAIN written : written[i] \in ItemTypes
    BY DEF RowInv
  <2> QED BY <2>1 DEF ItemTypes
<1>3. ASSUME NEW t \in Tasks, NEW i \in DOMAIN written, written[i].by = t
      PROVE  /\ written[i].run <= ops'[t]
             /\ op'[t] # "none" /\ pos'[t] = 0 => written[i].run < ops'[t]
  <2>1. /\ written[i].run <= ops[t]
        /\ op[t] # "none" /\ pos[t] = 0 => written[i].run < ops[t]
    BY <1>3 DEF RowInv
  <2> QED BY <1>1, <1>2, <2>1
<1>4. ASSUME NEW t \in Tasks, drvLock' = t, NEW i \in Positions(t, ops'[t]),
             NEW k \in i .. Len(written)
      PROVE  Beside(t, ops'[t], k)
  <2>1. ops'[t] = ops[t] /\ i \in DOMAIN written
        /\ written[i].by = t /\ written[i].run = ops[t]
    BY <1>4 DEF Positions
  <2>2. drvLock = t
    BY <1>1, <1>4, <2>1 DEF RowInv
  <2> QED BY <1>4, <2>1, <2>2 DEF RowInv
<1> QED BY <1>3, <1>4 DEF RowInv, Positions, Beside

\* A step of the client in the call of t, or in the parser.
LEMMA RowNoted ==
  ASSUME DrvInv, RowInv, UNCHANGED opVars, NEW who \in Tasks \cup {Parser},
         Noted(who), who # Parser => drvLock = who /\ InFunction(who)
  PROVE  RowInv'
<1>1. CASE written' = written
  BY <1>1 DEF RowInv, Positions, Beside, opVars
<1>2. CASE written' = Append(written, Item(who))
  <2>1. Item(who) \in ItemTypes /\ Item(who).by = who
        /\ (who # Parser => Item(who).run = ops[who] /\ pos[who] # 0)
    BY ConstantsOK DEF Item, ItemTypes, DrvInv, CommandTypes, InFunction
  <2>2. PICK n \in Nat : n = Len(written)
    BY DEF RowInv
  <2>3. /\ written' \in Seq(ItemTypes) /\ Len(written') = n + 1
        /\ DOMAIN written' = 1 .. n + 1 /\ DOMAIN written = 1 .. n
        /\ \A i \in 1 .. n : written'[i] = written[i]
        /\ written'[n + 1] = Item(who)
    BY <1>2, <2>1, <2>2 DEF RowInv
  <2>4. UNCHANGED <<op, pos, ops, drvLock>>
    BY DEF opVars
  <2>5. ops \in [Tasks -> Nat] /\ Parser \notin Tasks
    BY ConstantsOK DEF DrvInv, CommandTypes
  <2>6. ASSUME NEW t \in Tasks, NEW i \in DOMAIN written', written'[i].by = t
        PROVE  /\ written'[i].run <= ops'[t]
               /\ op'[t] # "none" /\ pos'[t] = 0 => written'[i].run < ops'[t]
    <3>1. CASE i \in 1 .. n
      BY <2>3, <2>4, <2>6, <3>1 DEF RowInv
    <3>2. CASE i = n + 1
      BY <2>1, <2>3, <2>4, <2>5, <2>6, <3>2
    <3> QED BY <2>3, <3>1, <3>2
  <2>7. ASSUME NEW t \in Tasks, NEW r, NEW i
        PROVE  /\ i \in Positions(t, r)' <=>
                    \/ i \in Positions(t, r)
                    \/ i = n + 1 /\ who = t /\ r = ops[t]
               /\ i \in Positions(t, r) => i \in 1 .. n
    BY <2>1, <2>3, <2>5 DEF Positions
  <2>8. ASSUME NEW t \in Tasks, NEW r, NEW i, i \in 1 .. n, Beside(t, r, i)
        PROVE  Beside(t, r, i)'
    BY <2>3, <2>7, <2>8 DEF Beside
  <2>9. ASSUME NEW t \in Tasks, NEW r \in Nat, NEW i \in Positions(t, r)',
               NEW j \in Positions(t, r)', NEW k \in i .. j
        PROVE  Beside(t, r, k)'
    <3>0. i \in 1 .. n + 1 /\ j \in 1 .. n + 1 /\ k \in 1 .. n + 1
      BY <2>7, <2>2
    <3>1. CASE k = n + 1
      <4>1. j = n + 1
        BY <3>0, <3>1, <2>2
      <4> QED BY <3>1, <4>1 DEF Beside
    <3>2. CASE k # n + 1
      <4>1. k \in 1 .. n /\ i \in 1 .. n /\ i \in Positions(t, r)
        BY <3>0, <3>2, <2>2, <2>7
      <4>2. CASE j \in Positions(t, r)
        BY <4>1, <4>2, <2>8 DEF RowInv
      <4>3. CASE j = n + 1 /\ who = t /\ r = ops[t]
        <5>1. drvLock = t /\ k \in i .. Len(written)
          BY <2>2, <2>5, <4>1, <4>3
        <5>2. Beside(t, r, k)
          BY <4>1, <4>3, <5>1 DEF RowInv
        <5> QED BY <4>1, <5>2, <2>8
      <4> QED BY <4>2, <4>3, <2>7
    <3> QED BY <3>1, <3>2
  <2>10. ASSUME NEW t \in Tasks, drvLock' = t, NEW r \in Nat, r = ops[t],
                NEW i \in Positions(t, r)', NEW k \in i .. Len(written')
         PROVE  Beside(t, r, k)'
    <3>0. drvLock = t /\ i \in 1 .. n + 1 /\ k \in 1 .. n + 1
      BY <2>2, <2>3, <2>4, <2>7, <2>10
    <3>1. CASE k = n + 1
      <4>1. written'[k].by = who /\ (who = Parser \/ who = t)
        BY <3>0, <3>1, <2>1, <2>3, ConstantsOK
      <4>2. who = t => k \in Positions(t, r)'
        BY <2>10, <3>1, <2>7
      <4> QED BY <4>1, <4>2 DEF Beside
    <3>2. CASE k # n + 1
      <4>1. k \in 1 .. n /\ i \in 1 .. n /\ i \in Positions(t, r)
        BY <3>0, <3>2, <2>2, <2>7
      <4>2. Beside(t, r, k)
        BY <2>10, <3>0, <4>1, <2>2 DEF RowInv
      <4> QED BY <4>1, <4>2, <2>8
    <3> QED BY <3>1, <3>2
  <2>11. \A t \in Tasks : drvLock' = t =>
           \A i \in Positions(t, ops[t])' : \A k \in i .. Len(written') :
             Beside(t, ops[t], k)'
    <3> SUFFICES ASSUME NEW t \in Tasks, drvLock' = t,
                        NEW i \in Positions(t, ops[t])', NEW k \in i .. Len(written')
                 PROVE  Beside(t, ops[t], k)'
      OBVIOUS
    <3>1. PICK r \in Nat : r = ops[t] /\ r = ops'[t]
      BY <2>4, <2>5
    <3>2. i \in Positions(t, r)'
      BY <3>1 DEF Positions
    <3>3. Beside(t, r, k)'
      BY <2>10, <3>1, <3>2
    <3> QED BY <3>1, <3>3 DEF Beside, Positions
  <2> QED BY <2>3, <2>4, <2>6, <2>9, <2>11 DEF RowInv
<1> QED BY <1>1, <1>2 DEF Noted

LEMMA RowNext == DrvInv /\ RowInv /\ [CommandsNext]_allVars => RowInv'
<1> SUFFICES ASSUME DrvInv, RowInv, [CommandsNext]_allVars PROVE RowInv'
  OBVIOUS
<1>0. DrvInv' /\ ops \in [Tasks -> Nat] /\ pos \in [Tasks -> Nat]
      /\ op \in [Tasks -> OpKinds \cup {"none"}] /\ ConstantsOK
  BY DrvNext, ConstantsOK DEF DrvInv, CommandTypes
<1> DEFINE Quiescent ==
      /\ written' = written
      /\ \A t \in Tasks : ops'[t] >= ops[t]
      /\ \A t \in Tasks : op'[t] # "none" /\ pos'[t] = 0 =>
           (op[t] # "none" /\ pos[t] = 0 /\ ops'[t] = ops[t]) \/ ops'[t] > ops[t]
      /\ \A t \in Tasks : drvLock' = t =>
           ops'[t] = ops[t] /\ (drvLock = t \/ (op[t] # "none" /\ pos[t] = 0))
<1>1. ASSUME Quiescent PROVE RowInv'
  BY <1>0, <1>1, RowSame
<1>2. ASSUME NEW t \in Tasks, OpStep(t) PROVE RowInv'
  <2>1. CASE InCall(t)
    <3>1. running[t]
      <4>1. CallStep(t)
        BY <2>1 DEF InCall
      <4>2. pc[t] # "idle"
        BY <4>1 DEF CallStep, TakeLock, ExecPrepare, ConnectPrepare, ResetSem,
             ExecWrite, ConnectGiveUp, ConnectProbe, SendWrite, Woken, TimedOut,
             CheckStatus, DeleteResp, Finish
      <4> QED BY <4>2 DEF DrvInv, HolderInv
    <3>2. drvLock = t /\ InFunction(t)
      BY <3>1, AtStepFacts DEF DrvInv, HolderInv
    <3> QED BY <2>1, <3>2, RowNoted DEF InCall
  <2>2. CASE \/ LeaveOut(t) \/ SignStep(t) \/ LineNumStep(t) \/ FinishStep(t)
    <3>1. AtStep(t) /\ NextStep(t) /\ UNCHANGED <<drvLock, op, ops, written>>
      BY <2>2 DEF LeaveOut, SignStep, LineNumStep, FinishStep
    <3>2. pos' = [pos EXCEPT ![t] = pos[t] + 1]
      BY <3>1 DEF NextStep
    <3>3. Quiescent
      BY <1>0, <3>1, <3>2
    <3> QED BY <1>1, <3>3
  <2>3. CASE Start(t)
    <3>1. Quiescent
      BY <1>0, <2>3 DEF Start
    <3> QED BY <1>1, <3>1
  <2>4. CASE TakeDrvLock(t)
    <3>1. Quiescent
      BY <1>0, <2>4 DEF TakeDrvLock
    <3> QED BY <1>1, <3>1
  <2>5. CASE Release(t)
    <3>1. Quiescent
      BY <1>0, <2>5 DEF Release, ConstantsOK
    <3> QED BY <1>1, <3>1
  <2> QED BY <1>2, <2>1, <2>2, <2>3, <2>4, <2>5 DEF OpStep
<1>3. ASSUME NEW t \in Tasks, NEW o \in OpKinds, CallOp(t, o) PROVE RowInv'
  <2>1. drvLock # t
    BY <1>3 DEF CallOp, DrvInv, HolderInv, InFunction
  <2>2. Quiescent
    BY <1>0, <1>3, <2>1 DEF CallOp
  <2> QED BY <1>1, <2>2
<1>4. ASSUME InParser PROVE RowInv'
  BY <1>4, RowNoted DEF InParser
<1>5. ASSUME InModemAnswer \/ InModemUrc \/ AllDone \/ UNCHANGED allVars
      PROVE  RowInv'
  <2>1. UNCHANGED <<drvLock, op, pos, ops, written>>
    BY <1>5 DEF InModemAnswer, InModemUrc, AllDone, allVars, opVars
  <2>2. Quiescent
    BY <1>0, <2>1
  <2> QED BY <1>1, <2>2
<1>6. CASE \E t \in Tasks : OpStep(t) \/ \E o \in OpKinds : CallOp(t, o)
  BY <1>2, <1>3, <1>6
<1> QED BY <1>4, <1>5, <1>6 DEF CommandsNext

\* Without a notification whose handler sends, the parser writes nothing.
NoMsgi(s) == \A i \in DOMAIN s : s[i].kind # "msgi"
HandlerInv ==
  /\ NoMsgi(rx) /\ ppc \in {"read", "store", "clear", "notify"}
  /\ \A i \in DOMAIN written : written[i].by # Parser

LEMMA HandlerInit == CommandsInit => HandlerInv
BY DEF CommandsInit, Init, HandlerInv, NoMsgi

LEMMA HandlerParser ==
  ASSUME DrvInv, HandlerInv, ParserStep
  PROVE  /\ NoMsgi(rx)' /\ ppc' \in {"read", "store", "clear", "notify"}
         /\ tx' = tx
<1>0. rx \in Seq(Lines) /\ NoMsgi(rx)
      /\ ppc \in {"read", "store", "clear", "notify"}
  BY DEF DrvInv, IInv, TypeInv, TypeOK, HandlerInv
<1>1. CASE ReadPartial \/ ReadUrc \/ ReadUnrecognized \/ ReadResponse
  <2>1. rx # <<>> /\ rx' = Tail(rx) /\ tx' = tx /\ ppc = "read"
    BY <1>1 DEF ReadPartial, ReadUrc, ReadUnrecognized, ReadResponse, Receive
  <2>2. /\ Head(rx) = rx[1] /\ 1 \in DOMAIN rx
        /\ \A i \in DOMAIN Tail(rx) : Tail(rx)[i] = rx[i + 1] /\ i + 1 \in DOMAIN rx
    BY <1>0, <2>1
  <2>3. NoMsgi(rx)'
    BY <1>0, <2>1, <2>2 DEF NoMsgi
  <2>4. Incoming.kind # "msgi"
    <3>1. Head(rx).kind # "msgi" /\ Head(rx) \in Lines
      BY <1>0, <2>2 DEF NoMsgi
    <3> QED BY <3>1 DEF Incoming, Glue, Lines
  <2> QED BY <1>1, <2>1, <2>3, <2>4
          DEF ReadPartial, ReadUrc, ReadUnrecognized, ReadResponse
<1>2. CASE StoreLine \/ ClearResp \/ Notify
  BY <1>0, <1>2 DEF StoreLine, ClearResp, Notify, NoMsgi
<1>3. CASE HandlerLock \/ HandlerSend \/ HandlerRecv \/ HandlerRecvTimedOut
  BY <1>0, <1>3 DEF HandlerLock, HandlerSend, HandlerRecv, HandlerRecvTimedOut
<1> QED BY <1>1, <1>2, <1>3 DEF ParserStep

LEMMA HandlerModem ==
  ASSUME NoHandler, DrvInv, HandlerInv, ModemStep
  PROVE  NoMsgi(rx)' /\ ppc' = ppc
<1>0. rx \in Seq(Lines) /\ tx \in Seq(Written) /\ given \in Seq(Seq(Kinds))
      /\ NoMsgi(rx)
  BY DEF DrvInv, IInv, TypeInv, TypeOK, HandlerInv
<1>1. CASE ModemAnswer
  <2>1. PICK a \in AnswersTo(Head(tx)) : rx' = rx \o Tagged(a, Len(given) + 1)
    BY <1>1 DEF ModemAnswer
  <2>2. tx # <<>> /\ ppc' = ppc
    BY <1>1 DEF ModemAnswer, parserVars
  <2>3. Head(tx) \in Written
    BY <1>0, <2>2
  <2>4. a \in Seq(Kinds) /\ ~Has(a, "msgi")
    <3>1. a \in Seq(Kinds)
      BY <2>1, <2>3, AnswersType
    <3>2. CASE Head(tx).type = "cmd"
      BY <2>1, <2>3, <3>1, <3>2 DEF AnswersTo, Written, NoHandler
    <3>3. CASE Head(tx).type = "data"
      BY <2>1, <2>3, <3>1, <3>3 DEF AnswersTo, Written, NoHandler
    <3>4. CASE Head(tx).type = "read"
      <4>1. a = <<>> \/ a = <<"payload">>
        BY <2>1, <3>4 DEF AnswersTo
      <4> QED BY <3>1, <4>1 DEF Has
    <3> QED BY <2>3, <3>1, <3>2, <3>3, <3>4 DEF Written
  <2> DEFINE b == Tagged(a, Len(given) + 1)
  <2>5. b \in Seq(Lines) /\ NoMsgi(b)
    <3>1. Len(given) + 1 \in Nat
      BY <1>0
    <3>2. b \in Seq(Lines)
      BY <2>4, <3>1, TaggedType
    <3>3. DOMAIN b = DOMAIN a /\ \A i \in DOMAIN a : b[i].kind = a[i]
      BY DEF Tagged
    <3> QED BY <2>4, <3>2, <3>3 DEF NoMsgi, Has
  <2>6. rx' = rx \o b
    BY <2>1
  <2> HIDE DEF b
  <2>7. ASSUME NEW i \in DOMAIN rx' PROVE rx'[i].kind # "msgi"
    <3>1. CASE i <= Len(rx)
      BY <1>0, <2>5, <2>6, <3>1 DEF NoMsgi
    <3>2. CASE i > Len(rx)
      <4>1. rx'[i] = b[i - Len(rx)] /\ i - Len(rx) \in DOMAIN b
        BY <1>0, <2>5, <2>6, <3>2
      <4> QED BY <2>5, <4>1 DEF NoMsgi
    <3> QED BY <1>0, <2>5, <2>6, <3>1, <3>2
  <2> QED BY <2>2, <2>7 DEF NoMsgi
<1>2. CASE ModemUrc
  <2>1. PICK k \in Urcs : rx' = Append(rx, [kind |-> k, from |-> 0])
    BY <1>2 DEF ModemUrc
  <2>2. k # "msgi" /\ k \in Kinds
    BY ConstantsOK DEF NoHandler, Kinds
  <2>3. [kind |-> k, from |-> 0] \in Lines
    BY <2>2 DEF Lines
  <2> DEFINE l == [kind |-> k, from |-> 0]
  <2>4. l \in Lines /\ l.kind # "msgi" /\ rx' = Append(rx, l)
    BY <2>1, <2>2, <2>3
  <2> HIDE DEF l
  <2>5. \A i \in DOMAIN rx' : rx'[i].kind # "msgi"
    BY <1>0, <2>4 DEF NoMsgi
  <2> QED BY <1>2, <2>5 DEF NoMsgi, ModemUrc, parserVars
<1> QED BY <1>1, <1>2 DEF ModemStep

LEMMA HandlerNext ==
  ASSUME NoHandler
  PROVE  DrvInv /\ RowInv /\ HandlerInv /\ [CommandsNext]_allVars => HandlerInv'
<1> SUFFICES ASSUME DrvInv, RowInv, HandlerInv, [CommandsNext]_allVars
             PROVE  HandlerInv'
  OBVIOUS
<1>1. ASSUME UNCHANGED <<rx, ppc, written>> PROVE HandlerInv'
  BY <1>1 DEF HandlerInv, NoMsgi
<1>2. ASSUME NEW t \in Tasks, OpStep(t) PROVE HandlerInv'
  <2>1. CASE InCall(t)
    <3>1. UNCHANGED <<rx, ppc>>
      <4>1. CallStep(t)
        BY <2>1 DEF InCall
      <4> QED BY <4>1 DEF CallStep, TakeLock, ExecPrepare, ConnectPrepare, ResetSem,
             ExecWrite, ConnectGiveUp, ConnectProbe, SendWrite, Woken, TimedOut,
             CheckStatus, DeleteResp, Finish, parserVars
    <3>2. Item(t).by # Parser
      BY ConstantsOK DEF Item
    <3>3. written \in Seq(ItemTypes)
          /\ written' \in {written, Append(written, Item(t))}
      BY <2>1 DEF InCall, Noted, RowInv
    <3>4. \A i \in DOMAIN written' : written'[i].by # Parser
      BY <3>2, <3>3 DEF HandlerInv
    <3> QED BY <3>1, <3>4 DEF HandlerInv, NoMsgi
  <2>2. CASE \/ LeaveOut(t) \/ SignStep(t) \/ LineNumStep(t) \/ FinishStep(t)
             \/ TakeDrvLock(t) \/ Release(t) \/ Start(t)
    <3>1. UNCHANGED <<rx, ppc, written>>
      BY <2>2 DEF LeaveOut, SignStep, SetEndSign, LineNumStep, FinishStep,
             TakeDrvLock, Release, Start, CallExec, CallSend, CallWaitConnect,
             Begin, vars, parserVars
    <3> QED BY <1>1, <3>1
  <2> QED BY <1>2, <2>1, <2>2 DEF OpStep
<1>3. ASSUME NEW t \in Tasks, NEW o \in OpKinds, CallOp(t, o) PROVE HandlerInv'
  BY <1>1, <1>3 DEF CallOp, vars, parserVars
<1>4. ASSUME InParser PROVE HandlerInv'
  <2>1. NoMsgi(rx)' /\ ppc' \in {"read", "store", "clear", "notify"} /\ tx' = tx
    BY <1>4, HandlerParser DEF InParser
  <2>2. tx \in Seq(Written)
    BY DEF DrvInv, IInv, TypeInv, TypeOK
  <2>3. ~(Len(tx') > Len(tx))
    BY <2>1, <2>2
  <2>4. written' = written
    BY <1>4, <2>3 DEF InParser, Noted
  <2> QED BY <2>1, <2>4 DEF HandlerInv
<1>5. ASSUME InModemAnswer \/ InModemUrc PROVE HandlerInv'
  <2>1. ModemStep /\ written' = written
    BY <1>5 DEF InModemAnswer, InModemUrc, ModemStep
  <2>2. NoMsgi(rx)' /\ ppc' = ppc
    BY <2>1, HandlerModem
  <2> QED BY <2>1, <2>2 DEF HandlerInv
<1>6. ASSUME AllDone \/ UNCHANGED allVars PROVE HandlerInv'
  BY <1>1, <1>6 DEF AllDone, allVars, vars, parserVars
<1>7. CASE \E t \in Tasks : OpStep(t) \/ \E o \in OpKinds : CallOp(t, o)
  BY <1>2, <1>3, <1>7
<1> QED BY <1>4, <1>5, <1>6, <1>7 DEF CommandsNext

(* What one function writes to the modem comes in a row, as mc665.h says of *)
(* its mutex; but for what a handler of +MQTTMSGI sends from the parser,    *)
(* and so without exception where no such notification comes.               *)
OnlyTheHandlerBetween ==
  \A t \in Tasks : \A r \in 1 .. ops[t] : \A i, j \in Positions(t, r) :
    \A k \in i .. j : Beside(t, r, k)

THEOREM NoOtherTaskBetween == CommandsSpec => []OnlyTheHandlerBetween
<1>1. DrvInv /\ RowInv => OnlyTheHandlerBetween
  BY DEF DrvInv, CommandTypes, RowInv, OnlyTheHandlerBetween
<1> QED BY <1>1, RowInit, RowNext, DrvInit, DrvNext, PTL DEF CommandsSpec

(* Where no notification starts a handler that writes, what one function    *)
(* writes to the modem comes in a row.                                      *)
THEOREM ExchangeSafe ==
  ASSUME NoHandler PROVE CommandsSpec => []ExchangeUninterrupted
<1>1. DrvInv /\ RowInv /\ HandlerInv => ExchangeUninterrupted
  <2> SUFFICES ASSUME DrvInv, RowInv, HandlerInv, NEW t \in Tasks,
                      NEW r \in 1 .. ops[t], NEW i \in Positions(t, r),
                      NEW j \in Positions(t, r), NEW k \in i .. j
               PROVE  k \in Positions(t, r)
    BY DEF ExchangeUninterrupted
  <2>1. Beside(t, r, k) /\ k \in DOMAIN written
    <3>1. r \in Nat
      BY DEF DrvInv, CommandTypes
    <3>2. written \in Seq(ItemTypes) /\ i \in DOMAIN written /\ j \in DOMAIN written
      BY DEF RowInv, Positions
    <3> QED BY <3>1, <3>2 DEF RowInv
  <2> QED BY <2>1 DEF Beside, HandlerInv
<1>2. DrvInv /\ RowInv /\ HandlerInv /\ [CommandsNext]_allVars
      => DrvInv' /\ RowInv' /\ HandlerInv'
  BY DrvNext, RowNext, HandlerNext
<1>3. CommandsInit => DrvInv /\ RowInv /\ HandlerInv
  BY DrvInit, RowInit, HandlerInit
<1> QED BY <1>1, <1>2, <1>3, PTL DEF CommandsSpec

-----------------------------------------------------------------------------
(* Whose answer is on the wire *)

LastItem == written[Len(written)]
\* The item whose answer is on its way, or was the last to come.
Source == IF written = <<>> THEN 0 ELSE Answering(Len(written))

IsReplyLine(l) == l.kind \notin UrcKinds
OfSource(l) ==
  l.from = Source /\ Source \in DOMAIN given /\ Has(given[Source], l.kind)
Both(l, m) == given[Source] = <<l.kind, m.kind>>
NoReply == \A i \in DOMAIN rx : ~IsReplyLine(rx[i])

\* Every item is a step of a function; its answer is one that the step expects.
ItemInv ==
  /\ Len(written) = Len(given) + Len(tx)
  /\ \A i \in DOMAIN given : given[i] \in Expected(written[i])
  /\ \A i \in DOMAIN written :
       /\ written[i].op \in OpKinds
       /\ written[i].pos \in DOMAIN Function(written[i].op)
       /\ Doing(written[i].op, written[i].pos) \in {"exec", "send", "connect"}
       /\ written[i].pos = 5 => i - 1 \in DOMAIN written /\ written[i - 1].pos = 4

Unserved(i) == i \in DOMAIN written /\ i \notin DOMAIN given
Calm ==
  /\ ppc = "read" /\ NoReply
  /\ \A i \in DOMAIN written : Unserved(i) => written[i].pos = 5

\* A reply line of the answer was stored, and gave the status its value.
Replied(good) ==
  /\ Source \in DOMAIN given
  /\ \E i \in DOMAIN given[Source] :
       /\ given[Source][i] \notin UrcKinds
       /\ good => given[Source][i] # "error"

\* The reply lines on the wire are of one answer and in its order; a line that
\* has ended the response was the last of them.
WireInv ==
  /\ ~partial
  /\ \A i \in DOMAIN rx : IsReplyLine(rx[i]) => OfSource(rx[i])
  /\ \A i, j \in DOMAIN rx :
       i < j /\ IsReplyLine(rx[i]) /\ IsReplyLine(rx[j]) => Both(rx[i], rx[j])
  /\ ppc = "store" =>
       /\ presp = clientResp /\ IsReplyLine(pline) /\ OfSource(pline)
       /\ \A i \in DOMAIN rx : IsReplyLine(rx[i]) => Both(pline, rx[i])
  /\ ppc \in {"clear", "notify"} => NoReply /\ Replied(respStatus = "ok")
  /\ \A i \in DOMAIN written : Unserved(i) => written[i].pos = 5 \/ i = Source

\* The item of the step that t is at is the last one.
AtItem(t) == written # <<>> /\ LastItem = Item(t)

\* The data are out, and the empty command behind them is not.
DataSent(t) ==
  /\ op[t] = "publish" /\ pos[t] \in {4, 5} /\ written # <<>>
  /\ LastItem = [by |-> t, run |-> ops[t], op |-> "publish", pos |-> 4]
Expecting(t) == pc[t] = "wait" \/ DataSent(t)

CallFor(do) == CASE do = "exec" -> "exec" [] do = "send" -> "send"
                 [] do = "connect" -> "wait_connect"

\* The step has not yet written its item.
NotYet(t) ==
  \/ ~running[t] \/ pc[t] \in {"lock", "prepare", "reset"}
  \/ pc[t] = "write" /\ call[t] # "wait_connect"

\* What the call of the step that t is at has done so far.
Place(t) ==
  /\ running[t] => call[t] = CallFor(Doing(op[t], pos[t])) /\ ~failed[t]
  /\ running[t] /\ call[t] = "exec" =>
       /\ resp[Own(t)].line_num = lineNum
       /\ pc[t] \in {"wait", "check", "finish", "idle"} => AtItem(t)
       /\ pc[t] # "delete"
  /\ running[t] /\ call[t] = "wait_connect" =>
       /\ pc[t] = "wait" => AtItem(t)
       /\ pc[t] # "check"
  /\ running[t] /\ call[t] = "send" =>
       /\ pc[t] \in {"idle", "lock", "write"}
       /\ pc[t] = "idle" => AtItem(t) /\ result[t] = "ok"
  /\ DataSent(t) => ~failed[t] /\ (pos[t] = 4 => running[t] /\ pc[t] = "idle")
  /\ op[t] = "publish" /\ pos[t] = 5 /\ ~failed[t] /\ NotYet(t) => DataSent(t)
  /\ ~Expecting(t) => Calm
  /\ pc[t] \in {"idle", "lock", "prepare"} => clientResp = None /\ ppc = "read"

\* The lines in the response are the first of that answer.
LinesOf(t) ==
  running[t] /\ call[t] = "exec" =>
    LET lines == resp[Own(t)].lines
    IN  /\ pc[t] \in {"reset", "write"} /\ ~DataSent(t) => lines = <<>>
        /\ pc[t] \in {"reset", "write", "wait", "check", "finish", "idle"} =>
             /\ \A i \in DOMAIN lines : OfSource(lines[i])
             /\ \A i, j \in DOMAIN lines : i < j => Both(lines[i], lines[j])
             /\ ppc = "store" => \A i \in DOMAIN lines : Both(lines[i], pline)
             /\ \A i \in DOMAIN lines, j \in DOMAIN rx :
                  IsReplyLine(rx[j]) => Both(lines[i], rx[j])

\* Only a line of the answer ends a wait, and gives it its result.
Heard(t) ==
  running[t] /\ call[t] \in {"exec", "wait_connect"} =>
    /\ sem = 1 /\ pc[t] \in {"write", "wait"} =>
         ppc = "read" /\ NoReply /\ Replied(respStatus = "ok")
    /\ sem = 1 /\ pc[t] = "write" => DataSent(t)
    /\ pc[t] = "check" /\ respStatus = "ok" => Replied(TRUE)
    /\ pc[t] \in {"delete", "finish", "idle"} /\ result[t] = "ok" =>
         AtItem(t) /\ Replied(TRUE)

\* The items of the function that t is in, and those that are not yet known to
\* be accepted.
Pending(t, i) ==
  \/ i = Len(written)
     /\ (LastItem.pos = pos[t] \/ (LastItem.pos = 4 /\ pos[t] = 5))
  \/ i = Len(written) - 1 /\ LastItem.pos = 5 /\ pos[t] = 5
Asked(t) ==
  /\ written # <<>> /\ Len(written) \in DOMAIN given
  /\ LastItem = [by |-> t, run |-> ops[t], op |-> "publish", pos |-> 2]
  /\ Has(given[Len(written)], "prompt")
Run(t) ==
  /\ \A i \in Positions(t, ops[t]) :
       /\ written[i].op = op[t] /\ written[i].pos <= pos[t]
       /\ NotYet(t) => written[i].pos < pos[t]
  /\ ~failed[t] =>
       /\ op[t] # "detect" =>
            \A i \in Positions(t, ops[t]) : Accepted(i) \/ Pending(t, i)
       /\ op[t] = "detect" /\ pos[t] = 2 =>
            \E i \in Positions(t, ops[t]) : Accepted(i)
       /\ op[t] = "publish" /\ pos[t] \in {3, 4} /\ NotYet(t) => Asked(t)

FreeInv == drvLock = None => Calm
PlaceInv == \A t \in Tasks : drvLock = t => Place(t)
LinesInv == \A t \in Tasks : drvLock = t => LinesOf(t)
HeardInv == \A t \in Tasks : drvLock = t => Heard(t)
RunInv == \A t \in Tasks : drvLock = t => Run(t)
DoneInv ==
  /\ outcome \in [Tasks -> {"none", "failed", "ok"}]
  /\ \A t \in Tasks : outcome[t] = "ok" => op[t] = "none"
  /\ DataWasAskedFor /\ TrueMeansAllAccepted

-----------------------------------------------------------------------------
(* The answers that the steps expect *)

PossibleAnswers ==
  {<<>>, <<"cme">>, <<"error">>, <<"ok">>, <<"prompt">>, <<"data", "ok">>,
   <<"ok", "data">>}

\* A reply that is no error comes in an answer that accepts.
Good(a) == \E i \in DOMAIN a : a[i] \notin UrcKinds /\ a[i] # "error"
Accepting(a) == (Has(a, "ok") \/ Has(a, "prompt")) /\ ~Has(a, "error")

LEMMA SequenceOfOne ==
  ASSUME NEW k
  PROVE  /\ DOMAIN <<k>> = {1} /\ Len(<<k>>) = 1
         /\ \A j : Has(<<k>>, j) <=> j = k
         /\ \A j, m : <<k>> # <<j, m>>
         /\ Good(<<k>>) <=> k \notin UrcKinds /\ k # "error"
<1>1. DOMAIN <<k>> = {1} /\ Len(<<k>>) = 1 /\ <<k>>[1] = k
  OBVIOUS
<1>2. \A j, m : Len(<<j, m>>) = 2
  OBVIOUS
<1>3. \A j, m : <<k>> # <<j, m>>
  BY <1>1, <1>2
<1> QED
  BY <1>1, <1>3, Zenon DEF Has, Good

LEMMA SequenceOfTwo ==
  ASSUME NEW k, NEW l
  PROVE  /\ DOMAIN <<k, l>> = {1, 2} /\ Len(<<k, l>>) = 2
         /\ \A j : Has(<<k, l>>, j) <=> j = k \/ j = l
         /\ \A j, m : <<k, l>> = <<j, m>> <=> k = j /\ l = m
<1>1. DOMAIN <<k, l>> = {1, 2} /\ Len(<<k, l>>) = 2
  OBVIOUS
<1>2. <<k, l>>[1] = k /\ <<k, l>>[2] = l
  OBVIOUS
<1>3. \A j, m : <<k, l>> = <<j, m>> <=> k = j /\ l = m
  OBVIOUS
<1> QED
  BY <1>1, <1>2, <1>3, Zenon DEF Has

\* What an answer may be, whatever command it answers.
LEMMA AnswerShapes ==
  ASSUME NEW a \in PossibleAnswers
  PROVE  /\ a \in Seq(Kinds) /\ Len(a) <= 2
         /\ Good(a) => Accepting(a)
         /\ Has(a, "prompt") => a = <<"prompt">>
         /\ \A k, m : a = <<k, m>> =>
              /\ k # m /\ k \notin {"error", "prompt"}
              /\ k = "ok" => a = <<"ok", "data">>
<1>1. /\ {"cme", "error", "ok", "prompt", "data"} \subseteq Kinds
      /\ "ok" \notin UrcKinds /\ "cme" \in UrcKinds /\ "prompt" \notin UrcKinds
  BY DEF Kinds, ReplyKinds, UrcKinds
<1>2. CASE a = <<>>
  <2>1. DOMAIN a = {} /\ a \in Seq(Kinds) /\ Len(a) = 0 /\ \A k, m : a # <<k, m>>
    BY <1>2
  <2> QED
    BY <2>1 DEF Has, Good
<1>3. ASSUME NEW k \in {"cme", "error", "ok", "prompt"}, a = <<k>>
      PROVE  /\ a \in Seq(Kinds) /\ Len(a) <= 2
             /\ Good(a) => Accepting(a)
             /\ Has(a, "prompt") => a = <<"prompt">>
             /\ \A j, m : a # <<j, m>>
  <2>1. <<k>> \in Seq(Kinds) /\ Len(<<k>>) <= 2
    BY <1>1, <1>3
  <2>2. Good(<<k>>) => k = "ok" \/ k = "prompt"
    BY <1>1, <1>3, SequenceOfOne
  <2> QED
    BY <1>3, <2>1, <2>2, SequenceOfOne DEF Accepting
<1>4. CASE a = <<"data", "ok">>
  <2>1. a \in Seq(Kinds) /\ Len(a) <= 2
    BY <1>1, <1>4
  <2>2. Accepting(a) /\ ~Has(a, "prompt")
    BY <1>4, SequenceOfTwo DEF Accepting
  <2> QED
    BY <1>4, <2>1, <2>2, SequenceOfTwo
<1>5. CASE a = <<"ok", "data">>
  <2>1. a \in Seq(Kinds) /\ Len(a) <= 2
    BY <1>1, <1>5
  <2>2. Accepting(a) /\ ~Has(a, "prompt")
    BY <1>5, SequenceOfTwo DEF Accepting
  <2> QED
    BY <1>5, <2>1, <2>2, SequenceOfTwo
<1> QED
  BY <1>2, <1>3, <1>4, <1>5 DEF PossibleAnswers

\* The steps that write something.
LEMMA StepsThatWrite ==
  ASSUME NEW o \in OpKinds, NEW p \in DOMAIN Function(o),
         Doing(o, p) \in {"exec", "send", "connect"}
  PROVE  /\ \/ Doing(o, p) = "exec"
               /\ \/ Function(o)[p].arg = Plain
                     /\ o \in {"simple", "open"} /\ p \in {1, 2, 3}
                  \/ Function(o)[p].arg = Asking /\ o = "publish" /\ p = 2
                  \/ Function(o)[p].arg = {<<>>} /\ o = "publish" /\ p = 5
                  \/ Function(o)[p].arg = Late /\ o = "request_ip" /\ p = 2
            \/ Doing(o, p) = "send" /\ o = "publish" /\ p = 4
            \/ Doing(o, p) = "connect" /\ o = "detect" /\ p = 1
               /\ Function(o)[p].arg = {<<>>, <<"ok">>}
<1>1. CASE o = "simple"
  BY <1>1 DEF Function, SimpleSteps, Exec, Step, Doing
<1>2. CASE o = "open"
  BY <1>2 DEF Function, OpenSteps, Exec, Step, Doing
<1>3. CASE o = "publish"
  <2>1. Function(o) = PublishSteps
    BY <1>3 DEF Function
  <2>2. p = 1 \/ p = 2 \/ p = 3 \/ p = 4 \/ p = 5
    BY <2>1 DEF PublishSteps
  <2>3. p # 1 /\ p # 3
    BY <2>1 DEF PublishSteps, Step, Doing
  <2>4. CASE p = 2
    BY <1>3, <2>1, <2>4 DEF PublishSteps, Exec, Step, Doing
  <2>5. CASE p = 4
    BY <1>3, <2>1, <2>5 DEF PublishSteps, Exec, Step, Doing
  <2>6. CASE p = 5
    BY <1>3, <2>1, <2>6 DEF PublishSteps, Exec, Step, Doing
  <2> QED
    BY <2>2, <2>3, <2>4, <2>5, <2>6
<1>4. CASE o = "request_ip"
  BY <1>4 DEF Function, RequestIpSteps, Exec, Step, Doing
<1>5. CASE o = "detect"
  BY <1>5 DEF Function, DetectSteps, Step, Doing
<1> QED
  BY <1>1, <1>2, <1>3, <1>4, <1>5 DEF OpKinds

LEMMA ExpectedAnswers ==
  ASSUME PromptModem, NEW it, it.by # Parser, it.op \in OpKinds,
         it.pos \in DOMAIN Function(it.op),
         Doing(it.op, it.pos) \in {"exec", "send", "connect"},
         NEW a \in Expected(it)
  PROVE  /\ a \in PossibleAnswers
         /\ a = <<"prompt">> => it.op = "publish" /\ it.pos = 2
         /\ a = <<"ok", "data">> => it.op = "request_ip" /\ it.pos = 2
         /\ it.op = "publish" /\ it.pos = 2 => a \in {<<"prompt">>, <<"error">>}
         /\ it.pos = 5 => a = <<>>
         /\ it.op = "detect" => a \in {<<>>, <<"ok">>}
<1> DEFINE o == it.op
           p == it.pos
<1>1. a \in IF Doing(o, p) = "send" THEN DataAnswers ELSE Function(o)[p].arg
  BY DEF Expected, Doing
<1>2. /\ \A k, j : <<k>> = <<j>> => k = j
      /\ \A k, j, m : <<k>> # <<j, m>> /\ <<>> # <<j, m>>
      /\ \A k : <<>> # <<k>>
      /\ <<"data", "ok">> # <<"ok", "data">>
  <2>1. \A k, j, m : Len(<<>>) = 0 /\ Len(<<k>>) = 1 /\ Len(<<j, m>>) = 2 /\ <<k>>[1] = k
                     /\ <<j, m>>[1] = j
    OBVIOUS
  <2> QED
    BY <2>1
<1> HIDE DEF o, p
<1>3. CASE Function(o)[p].arg = Plain /\ Doing(o, p) = "exec" /\ o \in {"simple", "open"}
           /\ p \in {1, 2, 3}
  <2>1. a = <<"cme">> \/ a = <<"data", "ok">> \/ a = <<"error">>
    BY <1>1, <1>3 DEF Plain
  <2> QED
    BY <1>2, <1>3, <2>1 DEF PossibleAnswers, o, p
<1>4. CASE Function(o)[p].arg = Asking /\ Doing(o, p) = "exec" /\ o = "publish" /\ p = 2
  <2>1. a = <<"prompt">> \/ a = <<"error">>
    BY <1>1, <1>4 DEF Asking
  <2> QED
    BY <1>2, <1>4, <2>1 DEF PossibleAnswers, o, p
<1>5. CASE Function(o)[p].arg = {<<>>} /\ Doing(o, p) = "exec" /\ o = "publish" /\ p = 5
  <2>1. a = <<>>
    BY <1>1, <1>5
  <2> QED
    BY <1>2, <1>5, <2>1 DEF PossibleAnswers, o, p
<1>6. CASE Function(o)[p].arg = Late /\ Doing(o, p) = "exec" /\ o = "request_ip" /\ p = 2
  <2>1. a = <<>> \/ a = <<"ok", "data">> \/ a = <<"error">>
    BY <1>1, <1>6 DEF Late
  <2> QED
    BY <1>2, <1>6, <2>1 DEF PossibleAnswers, o, p
<1>7. CASE Doing(o, p) = "send" /\ o = "publish" /\ p = 4
  <2>1. a = <<>> \/ a = <<"ok">> \/ a = <<"error">>
    BY <1>1, <1>7 DEF PromptModem
  <2> QED
    BY <1>2, <1>7, <2>1 DEF PossibleAnswers, o, p
<1>8. CASE Doing(o, p) = "connect" /\ o = "detect" /\ p = 1
           /\ Function(o)[p].arg = {<<>>, <<"ok">>}
  <2>1. a = <<>> \/ a = <<"ok">>
    BY <1>1, <1>8
  <2> QED
    BY <1>2, <1>8, <2>1 DEF PossibleAnswers, o, p
<1> QED
  BY StepsThatWrite, <1>3, <1>4, <1>5, <1>6, <1>7, <1>8 DEF o, p

-----------------------------------------------------------------------------
(* The items and their answers *)

Reachable == DrvInv /\ RowInv /\ HandlerInv

LEMMA Lengths ==
  ASSUME Reachable
  PROVE  /\ written \in Seq(ItemTypes) /\ Len(written) \in Nat
         /\ DOMAIN written = 1 .. Len(written)
         /\ given \in Seq(Seq(Kinds)) /\ Len(given) \in Nat
         /\ DOMAIN given = 1 .. Len(given)
         /\ tx \in Seq(Written) /\ Len(tx) \in Nat
         /\ rx \in Seq(Lines) /\ Len(rx) \in Nat /\ DOMAIN rx = 1 .. Len(rx)
         /\ written = <<>> <=> Len(written) = 0
<1>1. written \in Seq(ItemTypes)
  BY DEF Reachable, RowInv
<1>2. given \in Seq(Seq(Kinds)) /\ tx \in Seq(Written) /\ rx \in Seq(Lines)
  BY DEF Reachable, DrvInv, IInv, TypeInv, TypeOK
<1>3. \A S : \A s \in Seq(S) : Len(s) \in Nat /\ DOMAIN s = 1 .. Len(s)
                               /\ (s = <<>> <=> Len(s) = 0)
  OBVIOUS
<1> QED
  BY <1>1, <1>2, <1>3

\* An item is one the driver wrote, and its answer one that its step expects.
LEMMA AnswerOfItem ==
  ASSUME PromptModem, Reachable, ItemInv, NEW i \in DOMAIN given
  PROVE  /\ i \in DOMAIN written
         /\ given[i] \in PossibleAnswers
         /\ given[i] = <<"prompt">> => written[i].op = "publish" /\ written[i].pos = 2
         /\ given[i] = <<"ok", "data">> =>
              written[i].op = "request_ip" /\ written[i].pos = 2
         /\ written[i].op = "publish" /\ written[i].pos = 2 =>
              given[i] \in {<<"prompt">>, <<"error">>}
         /\ written[i].pos = 5 => given[i] = <<>>
         /\ written[i].op = "detect" => given[i] \in {<<>>, <<"ok">>}
<1>1. i \in DOMAIN written
  BY Lengths DEF ItemInv
<1>2. /\ written[i].by # Parser /\ written[i].op \in OpKinds
      /\ written[i].pos \in DOMAIN Function(written[i].op)
      /\ Doing(written[i].op, written[i].pos) \in {"exec", "send", "connect"}
      /\ given[i] \in Expected(written[i])
  BY <1>1 DEF ItemInv, HandlerInv, Reachable
<1> QED
  BY <1>1, <1>2, ExpectedAnswers

LEMMA SourceFacts ==
  ASSUME Reachable, ItemInv
  PROVE  /\ written = <<>> => Source = 0 /\ Source \notin DOMAIN given
         /\ written # <<>> =>
              /\ Source \in DOMAIN written /\ Source \in Nat
              /\ LastItem.pos = 5 => Source = Len(written) - 1 /\ written[Source].pos = 4
              /\ LastItem.pos # 5 => Source = Len(written) /\ written[Source] = LastItem
<1>1. CASE written = <<>>
  BY <1>1, Lengths DEF Source, ItemInv
<1>2. CASE written # <<>>
  <2>1. Source = IF LastItem.pos = 5 THEN Len(written) - 1 ELSE Len(written)
    BY <1>2 DEF Source, Answering, LastItem
  <2>2. Len(written) \in DOMAIN written
    BY <1>2, Lengths
  <2>3. LastItem.pos = 5 => Len(written) - 1 \in DOMAIN written
                            /\ written[Len(written) - 1].pos = 4
    BY <2>2 DEF ItemInv, LastItem
  <2>4. Source \in DOMAIN written
    BY <2>1, <2>2, <2>3
  <2>5. Source \in Nat
    BY <2>4, Lengths
  <2> QED
    BY <1>2, <2>1, <2>3, <2>4, <2>5 DEF LastItem
<1> QED
  BY <1>1, <1>2

\* The answer to the source.
LEMMA SourceAnswer ==
  ASSUME PromptModem, Reachable, ItemInv, Source \in DOMAIN given
  PROVE  /\ written # <<>> /\ Source \in DOMAIN written
         /\ given[Source] \in PossibleAnswers
         /\ given[Source] = <<"prompt">> =>
              written[Source].op = "publish" /\ written[Source].pos = 2
         /\ given[Source] = <<"ok", "data">> =>
              written[Source].op = "request_ip" /\ written[Source].pos = 2
         /\ written[Source].op = "publish" /\ written[Source].pos = 2 =>
              given[Source] \in {<<"prompt">>, <<"error">>}
         /\ written[Source].op = "detect" => given[Source] \in {<<>>, <<"ok">>}
<1>1. written # <<>> /\ Source \in DOMAIN written
  BY SourceFacts
<1> QED
  BY <1>1, AnswerOfItem

\* A call that is under way is one that its step makes.
LEMMA CallFacts ==
  ASSUME Reachable, PlaceInv, NEW t \in Tasks, running[t]
  PROVE  /\ drvLock = t /\ Place(t) /\ AtStep(t)
         /\ op[t] \in OpKinds /\ op[t] # "none" /\ pos[t] \in DOMAIN Function(op[t])
         /\ \/ Doing(op[t], pos[t]) = "exec" /\ call[t] = "exec"
            \/ Doing(op[t], pos[t]) = "send" /\ call[t] = "send"
               /\ op[t] = "publish" /\ pos[t] = 4
            \/ Doing(op[t], pos[t]) = "connect" /\ call[t] = "wait_connect"
               /\ op[t] = "detect" /\ pos[t] = 1
<1>1. AtStep(t) /\ Doing(op[t], pos[t]) \in {"exec", "send", "connect"}
  BY DEF Reachable, DrvInv, HolderInv
<1>2. /\ drvLock = t /\ op[t] \in OpKinds /\ pos[t] \in DOMAIN Function(op[t])
      /\ op[t] # "none"
  BY <1>1, AtStepFacts DEF Reachable, AtStep
<1>3. Place(t)
  BY <1>2 DEF PlaceInv
<1>4. call[t] = CallFor(Doing(op[t], pos[t]))
  BY <1>3 DEF Place
<1>5. CASE Doing(op[t], pos[t]) = "exec"
  BY <1>1, <1>2, <1>3, <1>4, <1>5 DEF CallFor
<1>6. CASE Doing(op[t], pos[t]) = "send"
  BY <1>1, <1>2, <1>3, <1>4, <1>6, StepsThatWrite DEF CallFor
<1>7. CASE Doing(op[t], pos[t]) = "connect"
  BY <1>1, <1>2, <1>3, <1>4, <1>7, StepsThatWrite DEF CallFor
<1> QED
  BY <1>1, <1>5, <1>6, <1>7

\* A task that waits has written its item.
LEMMA WaitFacts ==
  ASSUME Reachable, PlaceInv, NEW t \in Tasks, pc[t] = "wait"
  PROVE  running[t] /\ call[t] \in {"exec", "wait_connect"} /\ AtItem(t)
<1>1. running[t]
  BY DEF Reachable, DrvInv, HolderInv
<1>2. Place(t) /\ call[t] \in {"exec", "send", "wait_connect"}
  BY <1>1, CallFacts
<1> QED
  BY <1>1, <1>2 DEF Place

\* Who waits for the answer to a step 2 is at that step.
LEMMA SourceStep ==
  ASSUME Reachable, ItemInv, PlaceInv, NEW t \in Tasks, drvLock = t, Expecting(t),
         written # <<>>, written[Source].pos = 2
  PROVE  op[t] = written[Source].op /\ pos[t] = 2
<1>1. CASE pc[t] = "wait"
  <2>1. LastItem = Item(t)
    BY <1>1, WaitFacts DEF AtItem
  <2>2. LastItem.op = op[t] /\ LastItem.pos = pos[t]
    BY <2>1, ConstantsOK DEF Item
  <2> QED
    BY <2>2, SourceFacts
<1>2. CASE DataSent(t)
  <2>1. LastItem.pos = 4
    BY <1>2 DEF DataSent
  <2> QED
    BY <2>1, SourceFacts
<1> QED
  BY <1>1, <1>2 DEF Expecting

\* While nobody expects an answer the line is calm.
LEMMA ExpectedOrCalm ==
  ASSUME Reachable, FreeInv, PlaceInv, ~Calm
  PROVE  \E t \in Tasks : drvLock = t /\ Expecting(t) /\ Place(t)
<1>1. drvLock \in Tasks
  BY DEF FreeInv, Reachable, DrvInv, CommandTypes
<1> QED
  BY <1>1 DEF PlaceInv, Place

-----------------------------------------------------------------------------
(* Steps that leave the line alone *)

wireVars == <<written, given, tx, rx, ppc, pline, partial>>

LEMMA WireSame ==
  ASSUME UNCHANGED wireVars
  PROVE  /\ Source' = Source /\ LastItem' = LastItem
         /\ Calm' <=> Calm
         /\ NoReply' <=> NoReply
         /\ \A l : OfSource(l)' <=> OfSource(l)
         /\ \A l, m : Both(l, m)' <=> Both(l, m)
         /\ \A g : Replied(g)' <=> Replied(g)
         /\ \A i : Accepted(i)' <=> Accepted(i)
         /\ ItemInv => ItemInv'
<1>1. /\ written' = written /\ given' = given /\ tx' = tx /\ rx' = rx /\ ppc' = ppc
  BY DEF wireVars
<1>2. Source' = Source /\ LastItem' = LastItem
  BY <1>1 DEF Source, Answering, LastItem
<1>3. NoReply' <=> NoReply
  BY <1>1 DEF NoReply, IsReplyLine
<1>4. Calm' <=> Calm
  BY <1>1, <1>3 DEF Calm, Unserved
<1>5. \A i : Accepted(i)' <=> Accepted(i)
  BY <1>1 DEF Accepted, Answering, Has
<1>6. ItemInv => ItemInv'
  BY <1>1 DEF ItemInv, Expected
<1>7. \A g : Replied(g)' <=> Replied(g)
  BY <1>1, <1>2 DEF Replied
<1>8. /\ \A l : OfSource(l)' <=> OfSource(l)
      /\ \A l, m : Both(l, m)' <=> Both(l, m)
  BY <1>1, <1>2 DEF OfSource, Both, Has
<1> QED
  BY <1>2, <1>3, <1>4, <1>5, <1>6, <1>7, <1>8

LEMMA WireStays ==
  ASSUME WireInv, UNCHANGED wireVars,
         (clientResp' = clientResp /\ presp' = presp) \/ ppc # "store",
         respStatus' = respStatus \/ ppc \notin {"clear", "notify"}
  PROVE  WireInv'
<1>1. /\ written' = written /\ given' = given /\ rx' = rx /\ ppc' = ppc
      /\ pline' = pline /\ partial' = partial
  BY DEF wireVars
<1>2. ppc = "store" =>
        /\ (presp = clientResp)'
        /\ \A i \in DOMAIN rx : IsReplyLine(rx[i]) => Both(pline, rx[i])
        /\ IsReplyLine(pline) /\ OfSource(pline)
  BY DEF WireInv
<1>3. (ppc \in {"clear", "notify"} => NoReply /\ Replied(respStatus = "ok"))'
  BY <1>1, WireSame DEF WireInv
<1>4. (\A i \in DOMAIN written : Unserved(i) => written[i].pos = 5 \/ i = Source)'
  BY <1>1, WireSame DEF WireInv, Unserved
<1>5. /\ (\A i \in DOMAIN rx : IsReplyLine(rx[i]) => OfSource(rx[i]))'
      /\ (\A i, j \in DOMAIN rx :
            i < j /\ IsReplyLine(rx[i]) /\ IsReplyLine(rx[j]) => Both(rx[i], rx[j]))'
  BY <1>1, WireSame DEF WireInv, IsReplyLine
<1>6. (ppc = "store" =>
       /\ presp = clientResp /\ IsReplyLine(pline) /\ OfSource(pline)
       /\ \A i \in DOMAIN rx : IsReplyLine(rx[i]) => Both(pline, rx[i]))'
  BY <1>1, <1>2, WireSame DEF IsReplyLine
<1> QED
  BY <1>1, <1>3, <1>4, <1>5, <1>6 DEF WireInv

\* What the place of t says depends on its own variables and on the line.
taskSame(t) ==
  /\ op'[t] = op[t] /\ pos'[t] = pos[t] /\ running'[t] = running[t]
  /\ failed'[t] = failed[t] /\ ops'[t] = ops[t]
  /\ pc'[t] = pc[t] /\ call'[t] = call[t] /\ result'[t] = result[t]
  /\ resp' = resp /\ lineNum' = lineNum

LEMMA ItemSame ==
  ASSUME UNCHANGED written, NEW t \in Tasks, op'[t] = op[t], pos'[t] = pos[t],
         ops'[t] = ops[t]
  PROVE  /\ AtItem(t)' <=> AtItem(t)
         /\ DataSent(t)' <=> DataSent(t)
         /\ Positions(t, ops[t])' = Positions(t, ops[t])
<1>1. Item(t)' = Item(t) /\ LastItem' = LastItem
  BY DEF Item, LastItem
<1> QED
  BY <1>1 DEF AtItem, DataSent, Positions

LEMMA TaskStays ==
  ASSUME NEW t \in Tasks, taskSame(t), UNCHANGED wireVars,
         UNCHANGED <<clientResp, respStatus, sem>>,
         Place(t), LinesOf(t), Heard(t), Run(t)
  PROVE  Place(t)' /\ LinesOf(t)' /\ Heard(t)' /\ Run(t)'
<1>1. /\ written' = written /\ given' = given /\ rx' = rx /\ ppc' = ppc
      /\ pline' = pline
  BY DEF wireVars
<1>2. /\ op'[t] = op[t] /\ pos'[t] = pos[t] /\ running'[t] = running[t]
      /\ failed'[t] = failed[t] /\ ops'[t] = ops[t]
      /\ pc'[t] = pc[t] /\ call'[t] = call[t] /\ result'[t] = result[t]
      /\ resp' = resp /\ lineNum' = lineNum /\ (Own(t))' = Own(t)
  BY DEF taskSame, Own
<1>3. /\ AtItem(t)' <=> AtItem(t)
      /\ DataSent(t)' <=> DataSent(t)
      /\ Positions(t, ops[t])' = Positions(t, ops[t])
      /\ Expecting(t)' <=> Expecting(t)
      /\ NotYet(t)' <=> NotYet(t)
  BY <1>1, <1>2, ItemSame DEF Expecting, NotYet
<1>4. Place(t)'
  BY <1>1, <1>2, <1>3, WireSame DEF Place
<1>5. LinesOf(t)'
  BY <1>1, <1>2, <1>3, WireSame DEF LinesOf, IsReplyLine
<1>6. Heard(t)'
  BY <1>1, <1>2, <1>3, WireSame DEF Heard
<1>7. /\ Asked(t)' <=> Asked(t)
      /\ \A i : Pending(t, i)' <=> Pending(t, i)
  BY <1>1, <1>2, WireSame DEF Asked, Pending, Has
<1>8. Run(t)'
  BY <1>1, <1>2, <1>3, <1>7, WireSame DEF Run
<1> QED
  BY <1>4, <1>5, <1>6, <1>8

ExchangeInv ==
  /\ ItemInv /\ WireInv /\ FreeInv /\ PlaceInv /\ LinesInv /\ HeardInv /\ RunInv
  /\ DoneInv

\* Only the holder of the driver's mutex has a place.
LEMMA OneTask ==
  ASSUME NEW t \in Tasks, drvLock' = t, ItemInv', WireInv', DoneInv',
         Place(t)', LinesOf(t)', Heard(t)', Run(t)'
  PROVE  ExchangeInv'
<1>1. FreeInv'
  BY ConstantsOK DEF FreeInv
<1>2. ASSUME NEW u \in Tasks, drvLock' = u
      PROVE  Place(u)' /\ LinesOf(u)' /\ Heard(u)' /\ Run(u)'
  <2>1. u = t
    BY <1>2
  <2> QED
    BY <2>1
<1>3. PlaceInv' /\ LinesInv' /\ HeardInv' /\ RunInv'
  BY <1>2 DEF PlaceInv, LinesInv, HeardInv, RunInv
<1> QED
  BY <1>1, <1>3 DEF ExchangeInv

LEMMA HolderParts ==
  ASSUME ExchangeInv, NEW t \in Tasks, drvLock = t
  PROVE  Place(t) /\ LinesOf(t) /\ Heard(t) /\ Run(t)
BY DEF ExchangeInv, PlaceInv, LinesInv, HeardInv, RunInv

LEMMA DoneKeeps ==
  ASSUME DoneInv, UNCHANGED <<written, given, op, ops, outcome>>
  PROVE  DoneInv'
<1>1. \A i : Accepted(i)' <=> Accepted(i)
  BY DEF Accepted, Answering, Has
<1>2. DataWasAskedFor'
  BY DEF DoneInv, DataWasAskedFor, Has
<1>3. \A t \in Tasks : Positions(t, ops[t])' = Positions(t, ops[t])
  BY DEF Positions
<1>4. TrueMeansAllAccepted'
  BY <1>1, <1>3 DEF DoneInv, TrueMeansAllAccepted
<1> QED
  BY <1>2, <1>4 DEF DoneInv

LEMMA FreeClient ==
  ASSUME Reachable, drvLock = None
  PROVE  clientResp = None
<1> SUFFICES ASSUME clientResp # None PROVE FALSE
  OBVIOUS
<1>1. lock \in Tasks /\ pc[lock] \in Critical
  BY DEF Reachable, DrvInv, IInv, SlotInv, LockInv
<1>2. running[lock]
  BY <1>1 DEF Reachable, DrvInv, HolderInv, Critical
<1> QED
  BY <1>1, <1>2, AtStepFacts DEF Reachable, DrvInv, HolderInv

\* The mutex is taken: the function has written nothing yet.
LEMMA TakeStep ==
  ASSUME Reachable, ExchangeInv, NEW t \in Tasks, TakeDrvLock(t)
  PROVE  ExchangeInv'
<1>1. /\ op[t] \in OpKinds /\ op[t] # "none" /\ pos[t] = 0 /\ drvLock = None
      /\ drvLock' = t /\ pos'[t] = 1 /\ t # None
      /\ UNCHANGED <<vars, lineNum, op, running, failed, outcome, ops, written>>
  BY ConstantsOK DEF TakeDrvLock, Reachable, DrvInv, CommandTypes, OpKinds
<1>2. UNCHANGED wireVars /\ UNCHANGED <<clientResp, respStatus, presp, pc, given>>
  BY <1>1 DEF vars, wireVars, parserVars, taskVars
<1>3. ItemInv' /\ WireInv' /\ DoneInv'
  <2>1. ItemInv' /\ WireInv'
    BY <1>2, WireSame, WireStays DEF ExchangeInv
  <2>2. DoneInv'
    BY <1>1, <1>2, DoneKeeps DEF ExchangeInv
  <2> QED
    BY <2>1, <2>2
<1>4. Calm /\ clientResp = None
  BY <1>1, FreeClient DEF ExchangeInv, FreeInv
<1>5. ~running[t] /\ pc[t] = "idle"
  <2>1. DOMAIN Function(op[t]) = 1 .. Len(Function(op[t]))
    BY <1>1, FunctionFacts
  <2>2. ~AtStep(t)
    BY <1>1, <2>1 DEF AtStep
  <2> QED
    BY <2>2 DEF Reachable, DrvInv, HolderInv
<1>6. Positions(t, ops[t])' = {}
  <2>1. \A i \in DOMAIN written : written[i].by = t => written[i].run < ops[t]
    BY <1>1 DEF Reachable, RowInv
  <2>2. ops[t] \in Nat
    BY DEF Reachable, DrvInv, CommandTypes
  <2> QED
    BY <1>1, <2>1, <2>2 DEF Positions
<1>7. Place(t)'
  <2>1. Calm' /\ clientResp' = None /\ ppc' = "read" /\ ~running'[t] /\ pos'[t] = 1
    BY <1>1, <1>2, <1>4, <1>5, WireSame DEF Calm
  <2> QED
    BY <2>1 DEF Place, DataSent
<1>8. LinesOf(t)' /\ Heard(t)'
  BY <1>1, <1>5 DEF LinesOf, Heard
<1>9. Run(t)'
  BY <1>1, <1>6 DEF Run
<1> QED
  BY <1>1, <1>3, <1>7, <1>8, <1>9, OneTask

\* A function is called: its caller has nothing of the driver yet.
LEMMA CallOpStep ==
  ASSUME Reachable, ExchangeInv, NEW t \in Tasks, NEW o \in OpKinds, CallOp(t, o)
  PROVE  ExchangeInv'
<1>1. /\ op[t] = "none" /\ op' = [op EXCEPT ![t] = o]
      /\ pos' = [pos EXCEPT ![t] = 0] /\ failed' = [failed EXCEPT ![t] = FALSE]
      /\ outcome' = [outcome EXCEPT ![t] = "none"] /\ ops' = [ops EXCEPT ![t] = @ + 1]
      /\ UNCHANGED <<vars, drvLock, lineNum, running, written>>
  BY DEF CallOp
<1>2. UNCHANGED wireVars
      /\ UNCHANGED <<clientResp, respStatus, sem, presp, pc, call, result, resp, given>>
  BY <1>1 DEF vars, wireVars, parserVars, taskVars
<1>3. ItemInv' /\ WireInv'
  BY <1>2, WireSame, WireStays DEF ExchangeInv
<1>4. drvLock # t
  BY <1>1 DEF Reachable, DrvInv, HolderInv, InFunction
<1>5. DoneInv'
  <2>1. \A i : Accepted(i)' <=> Accepted(i)
    BY <1>2, WireSame
  <2>2. DataWasAskedFor'
    BY <1>1, <1>2 DEF ExchangeInv, DoneInv, DataWasAskedFor, Has
  <2>3. \A u \in Tasks : outcome'[u] = "ok" =>
          u # t /\ outcome[u] = "ok" /\ op'[u] = op[u] /\ ops'[u] = ops[u]
    <3>1. outcome \in [Tasks -> {"none", "failed", "ok"}]
      BY DEF ExchangeInv, DoneInv
    <3> QED
      BY <1>1, <3>1 DEF Reachable, DrvInv, CommandTypes
  <2>4. \A u \in Tasks : outcome'[u] = "ok" =>
          op'[u] = "none" /\ Positions(u, ops[u])' = Positions(u, ops[u])
    BY <1>1, <2>3 DEF ExchangeInv, DoneInv, Positions
  <2>5. outcome' \in [Tasks -> {"none", "failed", "ok"}]
    BY <1>1 DEF ExchangeInv, DoneInv
  <2>6. TrueMeansAllAccepted'
    BY <1>1, <2>1, <2>3, <2>4 DEF ExchangeInv, DoneInv, TrueMeansAllAccepted
  <2> QED
    BY <2>2, <2>4, <2>5, <2>6 DEF DoneInv
<1>6. ASSUME NEW u \in Tasks, drvLock' = u
      PROVE  Place(u)' /\ LinesOf(u)' /\ Heard(u)' /\ Run(u)'
  <2>1. u # t /\ drvLock = u
    BY <1>1, <1>4, <1>6
  <2>2. taskSame(u)
    BY <1>1, <1>2, <2>1 DEF taskSame, Reachable, DrvInv, CommandTypes
  <2> QED
    BY <1>2, <2>1, <2>2, HolderParts, TaskStays
<1>7. FreeInv'
  BY <1>1, <1>2, WireSame DEF ExchangeInv, FreeInv
<1> QED
  BY <1>3, <1>5, <1>6, <1>7
     DEF ExchangeInv, PlaceInv, LinesInv, HeardInv, RunInv

LEMMA StepsThatSet ==
  ASSUME NEW o \in OpKinds, NEW p \in DOMAIN Function(o),
         Doing(o, p) \in {"sign", "line_num"}
  PROVE  o \in {"publish", "request_ip"} /\ p \in {1, 3}
<1>1. CASE o = "simple"
  BY <1>1 DEF Function, SimpleSteps, Exec, Step, Doing
<1>2. CASE o = "open"
  BY <1>2 DEF Function, OpenSteps, Exec, Step, Doing
<1>3. CASE o = "publish"
  <2>1. Function(o) = PublishSteps
    BY <1>3 DEF Function
  <2>2. p = 1 \/ p = 2 \/ p = 3 \/ p = 4 \/ p = 5
    BY <2>1 DEF PublishSteps
  <2>3. p # 2 /\ p # 4 /\ p # 5
    BY <2>1 DEF PublishSteps, Exec, Step, Doing
  <2> QED
    BY <1>3, <2>2, <2>3
<1>4. CASE o = "request_ip"
  BY <1>4 DEF Function, RequestIpSteps, Exec, Step, Doing
<1>5. CASE o = "detect"
  BY <1>5 DEF Function, DetectSteps, Step, Doing
<1> QED
  BY <1>1, <1>2, <1>3, <1>4, <1>5 DEF OpKinds

\* The last item is in the run of t while the data of t are out.
LEMMA DataItem ==
  ASSUME Reachable, NEW t \in Tasks, written # <<>>, LastItem.by = t,
         LastItem.run = ops[t]
  PROVE  Len(written) \in Positions(t, ops[t]) /\ written[Len(written)] = LastItem
<1>1. Len(written) \in DOMAIN written
  BY Lengths
<1> QED
  BY <1>1 DEF LastItem, Positions

LEMMA PositionTypes ==
  ASSUME Reachable, NEW t, NEW r, NEW i \in Positions(t, r)
  PROVE  /\ i \in DOMAIN written /\ i \in Nat /\ i <= Len(written)
         /\ written[i].pos \in Nat /\ written[i].by = t /\ written[i].run = r
<1>1. i \in DOMAIN written /\ written[i].by = t /\ written[i].run = r
  BY DEF Positions
<1>2. written[i] \in ItemTypes /\ i \in 1 .. Len(written) /\ Len(written) \in Nat
  BY <1>1, Lengths
<1> QED
  BY <1>1, <1>2 DEF ItemTypes

\* A step that makes no call: one that changes a setting, or one left out.
LEMMA StepWithoutCall ==
  ASSUME Reachable, ExchangeInv, NEW t \in Tasks, AtStep(t), ~running[t],
         NextStep(t), UNCHANGED wireVars,
         UNCHANGED <<clientResp, respStatus, presp, drvLock, op, running, failed,
                     outcome, ops, pc>>,
         Doing(op[t], pos[t]) \in {"sign", "line_num"} \/ failed[t]
  PROVE  ExchangeInv'
<1>1. /\ op[t] \in OpKinds /\ pos[t] \in DOMAIN Function(op[t]) /\ drvLock = t
      /\ pos \in [Tasks -> Nat] /\ pos'[t] = pos[t] + 1 /\ pos[t] \in Nat
  BY AtStepFacts DEF Reachable, DrvInv, CommandTypes, NextStep
<1>2. pc[t] = "idle" /\ NotYet(t)
  BY DEF Reachable, DrvInv, HolderInv, NotYet
<1>3. Place(t) /\ LinesOf(t) /\ Heard(t) /\ Run(t)
  BY <1>1, HolderParts
<1>4. failed[t] \/ pos[t] \in {1, 3}
  BY <1>1, StepsThatSet
<1>5. ~DataSent(t)
  BY <1>3, <1>4 DEF Place, DataSent
<1>6. Calm /\ clientResp = None
  BY <1>2, <1>3, <1>5 DEF Place, Expecting
<1>7. \A i \in Positions(t, ops[t]) : written[i].pos < pos[t] /\ written[i].op = op[t]
  BY <1>2, <1>3 DEF Run
<1>8. ~DataSent(t)'
  <2>1. SUFFICES ASSUME DataSent(t)' PROVE FALSE
    OBVIOUS
  <2>2. /\ pos[t] + 1 \in {4, 5} /\ written # <<>> /\ LastItem.pos = 4
        /\ LastItem.by = t /\ LastItem.run = ops[t]
    BY <1>1, <2>1, WireSame DEF DataSent, wireVars
  <2>3. 4 < pos[t]
    BY <1>7, <2>2, DataItem
  <2> QED
    BY <1>1, <2>2, <2>3
<1>9. Calm' /\ clientResp' = None /\ ppc' = "read" /\ ~running'[t]
  BY <1>6, WireSame DEF Calm, wireVars
<1>10. Place(t)'
  <2>1. ~failed[t] => pos'[t] # 5
    BY <1>1, <1>4
  <2> QED
    BY <1>8, <1>9, <2>1 DEF Place
<1>11. LinesOf(t)' /\ Heard(t)'
  BY <1>9 DEF LinesOf, Heard
<1>12. Run(t)'
  <2>1. Positions(t, ops[t])' = Positions(t, ops[t])
    BY ItemSame DEF Positions, wireVars
  <2>2. written' = written /\ given' = given
    BY DEF wireVars
  <2>3. ASSUME NEW i \in Positions(t, ops[t])'
        PROVE  /\ written'[i].op = op'[t] /\ written'[i].pos < pos'[t]
               /\ written'[i].pos <= pos'[t]
    <3>1. written[i].pos < pos[t] /\ written[i].op = op[t] /\ written[i].pos \in Nat
      BY <1>7, <2>1, <2>3, PositionTypes
    <3> QED
      BY <1>1, <2>2, <3>1
  <2>4. ASSUME ~failed'[t]
        PROVE  /\ op'[t] # "detect" =>
                    \A i \in Positions(t, ops[t])' : Accepted(i)' \/ Pending(t, i)'
               /\ op'[t] = "detect" /\ pos'[t] = 2 =>
                    \E i \in Positions(t, ops[t])' : Accepted(i)'
               /\ op'[t] = "publish" /\ pos'[t] \in {3, 4} /\ NotYet(t)' => Asked(t)'
    <3>1. ~failed[t] /\ pos[t] \in {1, 3} /\ op[t] \in {"publish", "request_ip"}
      BY <1>1, <1>4, <2>4, StepsThatSet
    <3>2. ASSUME NEW i \in Positions(t, ops[t])'
          PROVE  Accepted(i)'
      <4>1. Accepted(i) \/ Pending(t, i)
        BY <1>3, <2>1, <3>1, <3>2 DEF Run
      <4>2. ~Pending(t, i)
        BY <1>7, <2>1, <3>1, <3>2 DEF Pending, LastItem
      <4> QED
        BY <4>1, <4>2, WireSame
    <3>3. op'[t] # "detect"
      BY <3>1
    <3>4. ASSUME op'[t] = "publish", pos'[t] \in {3, 4}
          PROVE  Asked(t)'
      <4>1. Asked(t)
        BY <1>1, <1>2, <1>3, <3>1, <3>4 DEF Run
      <4> QED
        BY <2>2, <4>1, WireSame DEF Asked, Has
    <3> QED
      BY <3>2, <3>3, <3>4
  <2> QED
    BY <2>3, <2>4 DEF Run
<1>13. ItemInv' /\ WireInv'
  BY WireSame, WireStays DEF ExchangeInv
<1>14. DoneInv'
  BY DoneKeeps DEF ExchangeInv, wireVars
<1> QED
  BY <1>1, <1>10, <1>11, <1>12, <1>13, <1>14, OneTask

LEMMA StepsWithoutCall ==
  ASSUME Reachable, ExchangeInv, NEW t \in Tasks,
         LeaveOut(t) \/ SignStep(t) \/ LineNumStep(t)
  PROVE  ExchangeInv'
<1>1. CASE LeaveOut(t)
  BY <1>1, StepWithoutCall DEF LeaveOut, LeftOut, vars, wireVars, parserVars, taskVars
<1>2. CASE SignStep(t) \/ LineNumStep(t)
  <2>1. /\ AtStep(t) /\ Current(t).do \in {"sign", "line_num"} /\ NextStep(t)
        /\ UNCHANGED <<drvLock, op, running, failed, outcome, ops, written>>
    BY <1>2 DEF SignStep, LineNumStep
  <2>2. /\ UNCHANGED <<given, tx, rx, ppc, pline, partial, clientResp, respStatus,
                       presp, pc>>
    BY <1>2 DEF SignStep, LineNumStep, SetEndSign, vars, parserVars, taskVars
  <2>3. Doing(op[t], pos[t]) \in {"sign", "line_num"}
    BY <2>1, AtStepFacts DEF Reachable
  <2>4. ~running[t]
    BY <2>3 DEF Reachable, DrvInv, HolderInv
  <2> QED
    BY <2>1, <2>2, <2>3, <2>4, StepWithoutCall DEF wireVars
<1> QED
  BY <1>1, <1>2

\* A reply that is no error accepts the last item, and the data in front of the
\* empty command.
LEMMA AcceptedLast ==
  ASSUME PromptModem, Reachable, ItemInv, Replied(TRUE)
  PROVE  /\ written # <<>> /\ Accepted(Len(written))
         /\ LastItem.pos = 5 => Accepted(Len(written) - 1)
         /\ LastItem.op = "publish" /\ LastItem.pos = 2 =>
              Len(written) \in DOMAIN given /\ Has(given[Len(written)], "prompt")
<1>1. Source \in DOMAIN given /\ Good(given[Source])
  BY DEF Replied, Good
<1>2. /\ written # <<>> /\ Accepting(given[Source])
      /\ given[Source] \in PossibleAnswers
      /\ written[Source].op = "publish" /\ written[Source].pos = 2 =>
           given[Source] \in {<<"prompt">>, <<"error">>}
  BY <1>1, SourceAnswer, AnswerShapes
<1>3. \A i : Answering(i) = Source => Accepted(i)
  BY <1>1, <1>2 DEF Accepted, Accepting
<1>4. Answering(Len(written)) = Source
  BY <1>2 DEF Source
<1>5. LastItem.pos = 5 => Answering(Len(written) - 1) = Source
  BY <1>2, SourceFacts DEF Answering
<1>6. LastItem.op = "publish" /\ LastItem.pos = 2 =>
        Source = Len(written) /\ Has(given[Source], "prompt")
  <2> SUFFICES ASSUME LastItem.op = "publish", LastItem.pos = 2
               PROVE  Source = Len(written) /\ Has(given[Source], "prompt")
    OBVIOUS
  <2>1. Source = Len(written) /\ written[Source] = LastItem
    BY <1>2, SourceFacts
  <2>2. given[Source] = <<"prompt">> \/ given[Source] = <<"error">>
    BY <1>2, <2>1
  <2>3. ~Has(given[Source], "error")
    BY <1>2 DEF Accepting
  <2> QED
    BY <2>1, <2>2, <2>3, SequenceOfOne
<1> QED
  BY <1>1, <1>2, <1>3, <1>4, <1>5, <1>6

\* The call of a step has returned.
LEMMA FinishedStep ==
  ASSUME PromptModem, Reachable, ExchangeInv, NEW t \in Tasks, FinishStep(t)
  PROVE  ExchangeInv'
<1>1. /\ AtStep(t) /\ running[t] /\ pc[t] = "idle" /\ ~running'[t]
      /\ failed'[t] <=> failed[t] \/ ~Succeeded(t)
      /\ pos'[t] = pos[t] + 1 /\ pos[t] \in Nat
      /\ UNCHANGED <<vars, drvLock, lineNum, op, outcome, ops, written>>
  <2>1. running \in [Tasks -> BOOLEAN] /\ failed \in [Tasks -> BOOLEAN]
        /\ pos \in [Tasks -> Nat]
    BY DEF Reachable, DrvInv, CommandTypes
  <2>2. failed'[t] = (failed[t] \/ ~Succeeded(t))
    BY <2>1, Zenon DEF FinishStep
  <2> QED
    BY <2>1, <2>2 DEF FinishStep, NextStep
<1>2. UNCHANGED wireVars /\ UNCHANGED <<clientResp, respStatus, presp, pc, given, rx, ppc>>
  BY <1>1 DEF vars, wireVars, parserVars, taskVars
<1>3. /\ drvLock = t /\ Place(t) /\ LinesOf(t) /\ Heard(t) /\ Run(t) /\ PlaceInv
      /\ ItemInv /\ WireInv /\ op[t] \in OpKinds
  BY <1>1, CallFacts, HolderParts DEF ExchangeInv
<1>4. /\ \/ Doing(op[t], pos[t]) = "exec" /\ call[t] = "exec"
         \/ Doing(op[t], pos[t]) = "send" /\ call[t] = "send"
            /\ op[t] = "publish" /\ pos[t] = 4
         \/ Doing(op[t], pos[t]) = "connect" /\ call[t] = "wait_connect"
            /\ op[t] = "detect" /\ pos[t] = 1
      /\ pos[t] \in DOMAIN Function(op[t]) /\ ~failed[t]
  BY <1>1, <1>3, CallFacts DEF Place
<1>5. clientResp' = None /\ ppc' = "read"
  BY <1>1, <1>2, <1>3 DEF Place
\* Every call but a probe has written its item and was heard, or failed.
<1>6. call[t] # "wait_connect" => AtItem(t)
  BY <1>1, <1>3, <1>4 DEF Place
<1>7. ASSUME ~failed'[t]
      PROVE  /\ ~failed[t] /\ AtItem(t)
             /\ call[t] # "send" => Replied(TRUE)
  BY <1>1, <1>3, <1>4, <1>6, <1>7 DEF Succeeded, Heard
<1>8. AtItem(t) => /\ written # <<>> /\ LastItem.pos = pos[t] /\ LastItem.op = op[t]
                   /\ LastItem.by = t /\ LastItem.run = ops[t]
                   /\ Len(written) \in Positions(t, ops[t])
  BY DataItem, ConstantsOK DEF AtItem, Item
<1>9. pos[t] # 4 => ~DataSent(t)
  <2>1. pos[t] = 5 => ~DataSent(t)
    <3>1. CASE call[t] = "wait_connect"
      BY <1>4, <3>1 DEF DataSent
    <3>2. CASE call[t] # "wait_connect"
      BY <1>6, <1>8, <3>2 DEF DataSent
    <3> QED
      BY <3>1, <3>2
  <2> QED
    BY <2>1 DEF DataSent
<1>10. pos[t] # 4 => Calm
  BY <1>1, <1>3, <1>9 DEF Place, Expecting
<1>11. DataSent(t)' <=> pos[t] = 4 /\ DataSent(t)
  <2>1. DataSent(t)' => pos[t] = 4 /\ DataSent(t)
    <3> SUFFICES ASSUME DataSent(t)' PROVE pos[t] = 4 /\ DataSent(t)
      OBVIOUS
    <3>1. /\ op[t] = "publish" /\ pos[t] \in {3, 4} /\ written # <<>>
          /\ LastItem = [by |-> t, run |-> ops[t], op |-> "publish", pos |-> 4]
      BY <1>1, WireSame, <1>2 DEF DataSent, wireVars
    <3>2. pos[t] # 3
      BY <1>4, <3>1, StepsThatWrite, <1>3
    <3> QED
      BY <3>1, <3>2 DEF DataSent
  <2>2. pos[t] = 4 /\ DataSent(t) => DataSent(t)'
    BY <1>1, <1>2, WireSame DEF DataSent, wireVars
  <2> QED
    BY <2>1, <2>2
<1>12. Place(t)'
  <2>1. DataSent(t)' => ~failed'[t] /\ pos'[t] # 4
    <3> SUFFICES ASSUME DataSent(t)' PROVE ~failed'[t] /\ pos'[t] # 4
      OBVIOUS
    <3>1. pos[t] = 4 /\ op[t] = "publish"
      BY <1>11 DEF DataSent
    <3>2. call[t] = "send"
      BY <1>3, <1>4, <3>1, StepsThatWrite
    <3>3. result[t] = "ok"
      BY <1>1, <1>3, <3>2 DEF Place
    <3> QED
      BY <1>1, <1>4, <3>1, <3>2, <3>3 DEF Succeeded
  <2>2. op'[t] = "publish" /\ pos'[t] = 5 /\ ~failed'[t] => DataSent(t)'
    <3> SUFFICES ASSUME op'[t] = "publish", pos'[t] = 5, ~failed'[t]
                 PROVE  DataSent(t)'
      OBVIOUS
    <3>0. pos[t] + 1 = 5 /\ op'[t] = op[t]
      BY <1>1
    <3>1. pos[t] = 4 /\ op[t] = "publish" /\ AtItem(t)
      <4>1. pos[t] = 4
        BY <1>1, <3>0
      <4>2. op[t] = "publish"
        BY <3>0
      <4> QED
        BY <1>7, <4>1, <4>2
    <3>2. LastItem = [by |-> t, run |-> ops[t], op |-> "publish", pos |-> 4]
      BY <3>1, ConstantsOK DEF AtItem, Item
    <3>3. DataSent(t)
      BY <3>1, <3>2 DEF DataSent, AtItem
    <3> QED
      BY <1>11, <3>1, <3>3
  <2>3. ~DataSent(t)' => Calm'
    <3>1. CASE pos[t] # 4
      BY <1>2, <1>10, <3>1, WireSame
    <3>2. CASE pos[t] = 4
      <4>1. ~DataSent(t)' => ~DataSent(t)
        BY <1>11, <3>2
      <4>2. ~DataSent(t) => Calm
        BY <1>1, <1>3 DEF Place, Expecting
      <4> QED
        BY <1>2, <4>1, <4>2, WireSame
    <3> QED
      BY <3>1, <3>2
  <2> QED
    BY <1>1, <1>5, <2>1, <2>2, <2>3 DEF Place, Expecting
<1>13. LinesOf(t)' /\ Heard(t)'
  BY <1>1 DEF LinesOf, Heard
<1>14. Positions(t, ops[t])' = Positions(t, ops[t])
  BY <1>1 DEF Positions
<1>15. ASSUME NEW i \in Positions(t, ops[t])'
       PROVE  /\ written'[i].op = op'[t] /\ written'[i].pos <= pos'[t]
              /\ written'[i].pos < pos'[t]
  <2>1. written[i].op = op[t] /\ written[i].pos <= pos[t] /\ written[i].pos \in Nat
    BY <1>3, <1>14, <1>15, PositionTypes DEF Run
  <2> QED
    BY <1>1, <2>1
<1>16. ASSUME ~failed'[t], call[t] # "send"
       PROVE  /\ Accepted(Len(written))
              /\ LastItem.pos = 5 => Accepted(Len(written) - 1)
              /\ LastItem.op = "publish" /\ LastItem.pos = 2 =>
                   Len(written) \in DOMAIN given /\ Has(given[Len(written)], "prompt")
  BY <1>3, <1>7, <1>16, AcceptedLast
<1>17. ASSUME ~failed'[t], op'[t] # "detect", NEW i \in Positions(t, ops[t])'
       PROVE  Accepted(i)' \/ Pending(t, i)'
  <2>1. Accepted(i) \/ Pending(t, i)
    BY <1>1, <1>3, <1>4, <1>14, <1>17 DEF Run
  <2>2. AtItem(t) /\ LastItem.pos = pos[t]
    BY <1>7, <1>8, <1>17
  <2>3. Pending(t, i) => i = Len(written)
                         \/ (i = Len(written) - 1 /\ LastItem.pos = 5)
    BY DEF Pending
  <2>4. CASE call[t] # "send"
    BY <1>2, <1>16, <1>17, <2>1, <2>3, <2>4, WireSame
  <2>5. CASE call[t] = "send"
    <3>1. pos[t] = 4 /\ pos'[t] = 5 /\ LastItem.pos = 4
      BY <1>1, <1>4, <2>2, <2>5
    <3>2. Pending(t, i) => Pending(t, i)'
      BY <1>1, <1>2, <3>1, WireSame DEF Pending
    <3> QED
      BY <1>2, <2>1, <3>2, WireSame
  <2> QED
    BY <2>4, <2>5
<1>18. ASSUME ~failed'[t], op'[t] = "detect"
       PROVE  \E i \in Positions(t, ops[t])' : Accepted(i)'
  <2>1. call[t] # "send"
    BY <1>1, <1>4, <1>18
  <2>2. Accepted(Len(written)) /\ Len(written) \in Positions(t, ops[t])
    BY <1>7, <1>8, <1>16, <1>18, <2>1
  <2> QED
    BY <1>2, <1>14, <2>2, WireSame
<1>19. ASSUME ~failed'[t], op'[t] = "publish", pos'[t] \in {3, 4}
       PROVE  Asked(t)'
  <2>1. op[t] = "publish" /\ pos[t] \in {2, 3}
    BY <1>1, <1>19
  <2>2. pos[t] = 2 /\ call[t] # "send"
    BY <1>4, <2>1, StepsThatWrite, <1>3
  <2>3. AtItem(t)
    BY <1>7, <1>19
  <2>4. LastItem = [by |-> t, run |-> ops[t], op |-> "publish", pos |-> 2]
    BY <2>1, <2>2, <2>3, ConstantsOK DEF AtItem, Item
  <2>5. Asked(t)
    BY <1>16, <1>19, <2>2, <2>3, <2>4 DEF Asked, AtItem
  <2> QED
    BY <1>1, <1>2, <2>5, WireSame DEF Asked, Has
<1>20. Run(t)'
  BY <1>15, <1>17, <1>18, <1>19 DEF Run
<1>21. ItemInv' /\ WireInv'
  BY <1>2, <1>3, WireSame, WireStays
<1>22. DoneInv'
  BY <1>1, <1>2, DoneKeeps DEF ExchangeInv
<1> QED
  BY <1>1, <1>3, <1>12, <1>13, <1>20, <1>21, <1>22, OneTask

LEMMA FunctionLengths ==
  ASSUME NEW o \in OpKinds
  PROVE  /\ Len(Function(o)) \in {1, 3, 5}
         /\ o = "publish" => Len(Function(o)) = 5
         /\ o = "detect" => Len(Function(o)) = 1
<1>1. CASE o = "simple"
  BY <1>1 DEF Function, SimpleSteps
<1>2. CASE o = "open"
  BY <1>2 DEF Function, OpenSteps
<1>3. CASE o = "publish"
  <2>1. \A a, b, c, d, e : Len(<<a, b, c, d, e>>) = 5
    OBVIOUS
  <2> QED
    BY <1>3, <2>1, Zenon DEF Function, PublishSteps
<1>4. CASE o = "request_ip"
  BY <1>4 DEF Function, RequestIpSteps
<1>5. CASE o = "detect"
  BY <1>5 DEF Function, DetectSteps
<1> QED
  BY <1>1, <1>2, <1>3, <1>4, <1>5 DEF OpKinds

\* A function returns: it returns true only if all it wrote was accepted.
LEMMA ReleaseStep ==
  ASSUME Reachable, ExchangeInv, NEW t \in Tasks, Release(t)
  PROVE  ExchangeInv'
<1>1. /\ op[t] \in OpKinds /\ op[t] # "none" /\ pos[t] = Len(Function(op[t])) + 1
      /\ drvLock' = None /\ op' = [op EXCEPT ![t] = "none"]
      /\ outcome' = [outcome EXCEPT ![t] = IF failed[t] THEN "failed" ELSE "ok"]
      /\ UNCHANGED <<vars, lineNum, pos, running, failed, ops, written>>
  BY DEF Release, Reachable, DrvInv, CommandTypes
<1>2. /\ drvLock = t /\ ~running[t] /\ pc[t] = "idle" /\ pos[t] \in {2, 4, 6}
      /\ op[t] = "publish" => pos[t] = 6
      /\ op[t] = "detect" => pos[t] = 2
  <2>1. /\ Len(Function(op[t])) \in Nat
        /\ DOMAIN Function(op[t]) = 1 .. Len(Function(op[t]))
    BY <1>1, FunctionFacts
  <2>2. InFunction(t) /\ ~AtStep(t)
    BY <1>1, <2>1 DEF InFunction, AtStep
  <2>3. PICK n : n = Len(Function(op[t]))
    OBVIOUS
  <2>4. /\ n \in {1, 3, 5} /\ pos[t] = n + 1
        /\ op[t] = "publish" => n = 5
        /\ op[t] = "detect" => n = 1
    BY <1>1, <2>3, FunctionLengths
  <2>5. pos[t] \in {2, 4, 6}
    BY <2>4
  <2>6. op[t] = "publish" => pos[t] = 6
    BY <2>4
  <2>7. op[t] = "detect" => pos[t] = 2
    BY <2>4
  <2> QED
    BY <2>2, <2>5, <2>6, <2>7 DEF Reachable, DrvInv, HolderInv
<1>3. Place(t) /\ Run(t)
  BY <1>2, HolderParts
<1>4. UNCHANGED wireVars /\ UNCHANGED <<clientResp, respStatus, presp, given>>
  BY <1>1 DEF vars, wireVars, parserVars
<1>5. FreeInv'
  <2>1. Calm
    BY <1>2, <1>3 DEF Place, Expecting, DataSent
  <2> QED
    BY <1>4, <2>1, WireSame DEF FreeInv
<1>6. ItemInv' /\ WireInv'
  BY <1>4, WireSame, WireStays DEF ExchangeInv
<1>7. ASSUME ~failed[t], NEW i \in Positions(t, ops[t])
      PROVE  \/ Accepted(i)
             \/ written[i].op = "detect" /\ \E j \in Positions(t, ops[t]) : Accepted(j)
  <2>1. NotYet(t)
    BY <1>2 DEF NotYet
  <2>2. written[i].op = op[t] /\ written[i].pos < pos[t] /\ written[i].pos \in Nat
    BY <1>3, <2>1, PositionTypes DEF Run
  <2>3. CASE op[t] = "detect"
    <3>1. \E j \in Positions(t, ops[t]) : Accepted(j)
      BY <1>2, <1>3, <1>7, <2>3 DEF Run
    <3> QED
      BY <2>2, <2>3, <3>1
  <2>4. CASE op[t] # "detect"
    <3>1. Accepted(i) \/ Pending(t, i)
      BY <1>3, <1>7, <2>4 DEF Run
    <3>2. ~Pending(t, i)
      BY <1>2, <2>2 DEF Pending, LastItem
    <3> QED
      BY <3>1, <3>2
  <2> QED
    BY <2>3, <2>4
<1>8. DoneInv'
  <2>0. DoneInv /\ outcome \in [Tasks -> {"none", "failed", "ok"}]
    BY DEF ExchangeInv, DoneInv
  <2>1. outcome' \in [Tasks -> {"none", "failed", "ok"}]
    BY <1>1, <2>0
  <2>2. DataWasAskedFor'
    BY <1>1, <1>4, <2>0 DEF DoneInv, DataWasAskedFor, Has
  <2>3. \A i : Accepted(i)' <=> Accepted(i)
    BY <1>4, WireSame
  <2>4. \A u \in Tasks : Positions(u, ops[u])' = Positions(u, ops[u])
    BY <1>1 DEF Positions
  <2>5. ASSUME NEW u \in Tasks, outcome'[u] = "ok"
        PROVE  /\ op'[u] = "none"
               /\ \A i \in Positions(u, ops[u])' :
                    \/ Accepted(i)'
                    \/ written'[i].op = "detect"
                       /\ \E j \in Positions(u, ops[u])' : Accepted(j)'
    <3>1. CASE u = t
      <4>1. ~failed[t]
        BY <1>1, <2>0, <2>5, <3>1
      <4>2. op'[u] = "none"
        BY <1>1, <3>1 DEF Reachable, DrvInv, CommandTypes
      <4> QED
        BY <1>1, <1>7, <2>3, <2>4, <3>1, <4>1, <4>2
    <3>2. CASE u # t
      <4>1. outcome[u] = "ok" /\ op'[u] = op[u]
        BY <1>1, <2>0, <2>5, <3>2 DEF Reachable, DrvInv, CommandTypes
      <4> QED
        BY <1>1, <2>0, <2>3, <2>4, <4>1 DEF DoneInv, TrueMeansAllAccepted
    <3> QED
      BY <3>1, <3>2
  <2>6. TrueMeansAllAccepted'
    BY <2>5 DEF TrueMeansAllAccepted
  <2> QED
    BY <2>1, <2>2, <2>5, <2>6 DEF DoneInv
<1>9. PlaceInv' /\ LinesInv' /\ HeardInv' /\ RunInv'
  <2>1. \A u \in Tasks : drvLock' # u
    BY <1>1, ConstantsOK
  <2> QED
    BY <2>1 DEF PlaceInv, LinesInv, HeardInv, RunInv
<1> QED
  BY <1>5, <1>6, <1>8, <1>9 DEF ExchangeInv

\* Only steps that set something are taken after a failure.
LEMMA WritersStop ==
  ASSUME NEW o \in OpKinds, NEW p \in DOMAIN Function(o),
         Doing(o, p) \in {"exec", "send", "connect"}
  PROVE  ~Function(o)[p].always
<1>0. \A d, a : Step(d, a, FALSE).always = FALSE /\ Exec(a).always = FALSE
  BY Zenon DEF Exec, Step
<1>1. CASE o = "simple"
  <2>1. Function(o)[p] = Exec(Plain)
    BY <1>1 DEF Function, SimpleSteps
  <2> QED
    BY <1>0, <2>1
<1>2. CASE o = "open"
  <2>1. Function(o)[p] = Exec(Plain)
    BY <1>2 DEF Function, OpenSteps
  <2> QED
    BY <1>0, <2>1
<1>3. CASE o = "publish"
  <2>1. Function(o) = PublishSteps
    BY <1>3 DEF Function
  <2>2. p = 1 \/ p = 2 \/ p = 3 \/ p = 4 \/ p = 5
    BY <2>1 DEF PublishSteps
  <2>3. p # 1 /\ p # 3
    BY <2>1 DEF PublishSteps, Step, Doing
  <2>4. CASE p = 2
    <3>1. Function(o)[p] = Exec(Asking)
      BY <2>1, <2>4 DEF PublishSteps
    <3> QED
      BY <1>0, <3>1
  <2>5. CASE p = 4
    <3>1. Function(o)[p] = Step("send", {}, FALSE)
      BY <2>1, <2>5 DEF PublishSteps
    <3> QED
      BY <1>0, <3>1
  <2>6. CASE p = 5
    <3>1. Function(o)[p] = Exec({<<>>})
      BY <2>1, <2>6 DEF PublishSteps
    <3> QED
      BY <1>0, <3>1
  <2> QED
    BY <2>2, <2>3, <2>4, <2>5, <2>6
<1>4. CASE o = "request_ip"
  <2>1. Function(o) = RequestIpSteps
    BY <1>4 DEF Function
  <2>2. p = 1 \/ p = 2 \/ p = 3
    BY <2>1 DEF RequestIpSteps
  <2>3. p # 1 /\ p # 3
    BY <2>1 DEF RequestIpSteps, Step, Doing
  <2>4. Function(o)[p] = Exec(Late)
    BY <2>1, <2>2, <2>3 DEF RequestIpSteps
  <2> QED
    BY <1>0, <2>4
<1>5. CASE o = "detect"
  <2>1. Function(o) = DetectSteps
    BY <1>5 DEF Function
  <2>2. p = 1
    BY <2>1 DEF DetectSteps
  <2>3. Function(o)[p] = Step("connect", {<<>>, <<"ok">>}, FALSE)
    BY <2>1, <2>2 DEF DetectSteps
  <2> QED
    BY <1>0, <2>3
<1> QED
  BY <1>1, <1>2, <1>3, <1>4, <1>5 DEF OpKinds

\* The call of a step begins.
LEMMA StartStep ==
  ASSUME Reachable, ExchangeInv, NEW t \in Tasks, Start(t)
  PROVE  ExchangeInv'
<1>1. /\ AtStep(t) /\ ~running[t] /\ ~LeftOut(t)
      /\ running' = [running EXCEPT ![t] = TRUE]
      /\ UNCHANGED <<drvLock, lineNum, op, pos, failed, outcome, ops, written>>
  BY DEF Start
<1>2. /\ op[t] \in OpKinds /\ pos[t] \in DOMAIN Function(op[t]) /\ drvLock = t
      /\ Current(t) = Function(op[t])[pos[t]] /\ Current(t).do = Doing(op[t], pos[t])
  BY <1>1, AtStepFacts DEF Reachable
<1>3. /\ Doing(op[t], pos[t]) \in {"exec", "send", "connect"}
      /\ pc' = [pc EXCEPT ![t] = "lock"] /\ UNCHANGED wireVars
      /\ UNCHANGED <<clientResp, respStatus, sem, presp>>
  BY <1>2 DEF Start, CallExec, CallSend, CallWaitConnect, Begin, Return, Goto,
              parserVars, wireVars
<1>4. ~failed[t]
  BY <1>1, <1>2, <1>3, WritersStop DEF LeftOut
<1>5. /\ pc \in [Tasks -> PcLabels] /\ running \in [Tasks -> BOOLEAN]
      /\ call \in [Tasks -> CallKinds \cup {"none"}] /\ resp \in [Objects -> Responses]
  BY DEF Reachable, DrvInv, CommandTypes, IInv, TypeInv, TypeOK
<1>6. pc'[t] = "lock" /\ running'[t]
  BY <1>1, <1>3, <1>5
<1>7. call'[t] = CallFor(Doing(op[t], pos[t]))
  <2>1. CASE Current(t).do = "exec" /\ CallExec(t, lineNum)
    BY <1>2, <1>5, <2>1 DEF CallExec, Begin, CallFor
  <2>2. CASE Current(t).do = "send" /\ CallSend(t)
    BY <1>2, <1>5, <2>2 DEF CallSend, Begin, CallFor
  <2>3. CASE Current(t).do = "connect" /\ CallWaitConnect(t)
    BY <1>2, <1>5, <2>3 DEF CallWaitConnect, Begin, CallFor
  <2> QED
    BY <2>1, <2>2, <2>3 DEF Start
<1>8. call'[t] = "exec" => resp'[Own(t)].line_num = lineNum
  <2>1. CASE Current(t).do = "exec" /\ CallExec(t, lineNum)
    <3>1. resp' = [resp EXCEPT ![Own(t)].line_num = lineNum] /\ Own(t) \in Objects
      BY <2>1, ObjectsOfTask DEF CallExec
    <3>2. resp[Own(t)] \in Responses
      BY <1>5, <3>1
    <3>3. [resp[Own(t)] EXCEPT !.line_num = lineNum].line_num = lineNum
      BY <3>2 DEF Responses
    <3> QED
      BY <1>5, <3>1, <3>3
  <2>2. CASE Current(t).do # "exec"
    BY <1>2, <1>3, <1>7, <2>2 DEF CallFor
  <2> QED
    BY <2>1, <2>2 DEF Start
<1>9. pc[t] = "idle" /\ NotYet(t) /\ NotYet(t)'
  BY <1>1, <1>6 DEF Reachable, DrvInv, HolderInv, NotYet
<1>10. Place(t) /\ Run(t)
  BY <1>2, HolderParts
<1>11. /\ AtItem(t)' <=> AtItem(t)
       /\ DataSent(t)' <=> DataSent(t)
       /\ Positions(t, ops[t])' = Positions(t, ops[t])
  BY <1>1, ItemSame
<1>12. Place(t)'
  <2>1. DataSent(t) => pos[t] # 4
    BY <1>1, <1>10 DEF Place
  <2>2. op[t] = "publish" /\ pos[t] = 5 => DataSent(t)
    BY <1>4, <1>9, <1>10 DEF Place
  <2>3. ~DataSent(t) => Calm'
    BY <1>3, <1>9, <1>10, WireSame DEF Place, Expecting
  <2>4. clientResp' = None /\ ppc' = "read"
    BY <1>3, <1>9, <1>10 DEF Place, wireVars
  <2>5. lineNum' = lineNum /\ op' = op /\ pos' = pos /\ failed' = failed
    BY <1>1
  <2>6. resp'[Own(t)'] = resp'[Own(t)]
    BY DEF Own
  <2> QED
    BY <1>4, <1>6, <1>7, <1>8, <1>11, <2>1, <2>2, <2>3, <2>4, <2>5, <2>6
       DEF Place, Expecting
<1>13. LinesOf(t)' /\ Heard(t)'
  BY <1>6 DEF LinesOf, Heard
<1>14. Run(t)'
  <2>1. /\ written' = written /\ given' = given /\ op' = op /\ pos' = pos
        /\ failed' = failed /\ ops' = ops
    BY <1>1, <1>3 DEF wireVars
  <2>2. Asked(t)' <=> Asked(t)
    BY <1>3, <2>1, WireSame DEF Asked, Has
  <2>3. \A i : (Pending(t, i)' <=> Pending(t, i)) /\ (Accepted(i)' <=> Accepted(i))
    BY <1>3, <2>1, WireSame DEF Pending
  <2> QED
    BY <1>9, <1>10, <1>11, <2>1, <2>2, <2>3 DEF Run
<1>15. ItemInv' /\ WireInv'
  BY <1>3, WireSame, WireStays DEF ExchangeInv
<1>16. DoneInv'
  BY <1>1, <1>3, DoneKeeps DEF ExchangeInv, wireVars
<1> QED
  BY <1>1, <1>2, <1>12, <1>13, <1>14, <1>15, <1>16, OneTask

LEMMA StutterStep ==
  ASSUME ExchangeInv, UNCHANGED allVars
  PROVE  ExchangeInv'
<1>1. /\ UNCHANGED wireVars /\ UNCHANGED <<clientResp, respStatus, sem, presp>>
      /\ drvLock' = drvLock /\ UNCHANGED <<written, given, op, ops, outcome>>
      /\ UNCHANGED <<pos, running, failed, pc, call, result, resp, lineNum>>
  BY DEF allVars, vars, opVars, wireVars, parserVars, taskVars
<1>2. ItemInv' /\ WireInv' /\ DoneInv' /\ FreeInv'
  BY <1>1, WireSame, WireStays, DoneKeeps DEF ExchangeInv, FreeInv
<1>3. ASSUME NEW u \in Tasks, drvLock' = u
      PROVE  Place(u)' /\ LinesOf(u)' /\ Heard(u)' /\ Run(u)'
  <2>1. taskSame(u) /\ drvLock = u
    BY <1>1, <1>3 DEF taskSame
  <2> QED
    BY <1>1, <2>1, HolderParts, TaskStays
<1> QED
  BY <1>2, <1>3 DEF ExchangeInv, PlaceInv, LinesInv, HeardInv, RunInv

-----------------------------------------------------------------------------
(* The steps of a call *)

LEMMA CallFrame ==
  ASSUME Reachable, ExchangeInv, NEW t \in Tasks, InCall(t)
  PROVE  /\ CallStep(t) /\ running[t] /\ drvLock = t /\ ~failed[t]
         /\ Place(t) /\ LinesOf(t) /\ Heard(t) /\ Run(t)
         /\ op[t] \in OpKinds /\ pos[t] \in DOMAIN Function(op[t])
         /\ \/ Doing(op[t], pos[t]) = "exec" /\ call[t] = "exec"
            \/ Doing(op[t], pos[t]) = "send" /\ call[t] = "send"
               /\ op[t] = "publish" /\ pos[t] = 4
            \/ Doing(op[t], pos[t]) = "connect" /\ call[t] = "wait_connect"
               /\ op[t] = "detect" /\ pos[t] = 1
         /\ UNCHANGED <<drvLock, lineNum, op, pos, running, failed, outcome, ops>>
         /\ UNCHANGED <<call, presp, given, rx, ppc, pline, partial>>
         /\ tx' = tx => UNCHANGED wireVars
         /\ pc \in [Tasks -> PcLabels] /\ result \in [Tasks -> Results]
         /\ resp \in [Objects -> Responses] /\ Own(t) \in Objects
         /\ ppc \in {"read", "store", "clear", "notify"}
<1>1. CallStep(t) /\ Noted(t)
      /\ UNCHANGED <<drvLock, lineNum, op, pos, running, failed, outcome, ops>>
  BY DEF InCall, opVars
<1>2. pc[t] # "idle" /\ UNCHANGED <<call, presp, given, rx, ppc, pline, partial>>
  BY <1>1 DEF CallStep, TakeLock, ExecPrepare, ConnectPrepare, ResetSem, ExecWrite,
       ConnectGiveUp, ConnectProbe, SendWrite, Woken, TimedOut, CheckStatus,
       DeleteResp, Finish, parserVars
<1>3. running[t]
  BY <1>2 DEF Reachable, DrvInv, HolderInv
<1>4. tx' = tx => UNCHANGED wireVars
  <2>1. tx' = tx => ~(Len(tx') > Len(tx))
    BY Lengths
  <2>2. tx' = tx => written' = written
    BY <1>1, <2>1 DEF Noted
  <2> QED
    BY <1>2, <2>2 DEF wireVars
<1>5. drvLock = t /\ Place(t) /\ LinesOf(t) /\ Heard(t) /\ Run(t) /\ PlaceInv
  BY <1>3, CallFacts, HolderParts DEF ExchangeInv
<1>6. ~failed[t]
  BY <1>3, <1>5 DEF Place
<1>7. /\ pc \in [Tasks -> PcLabels] /\ result \in [Tasks -> Results]
      /\ resp \in [Objects -> Responses]
      /\ ppc \in {"read", "store", "clear", "notify"}
  BY DEF Reachable, DrvInv, IInv, TypeInv, TypeOK, HandlerInv
<1>8. /\ op[t] \in OpKinds /\ pos[t] \in DOMAIN Function(op[t])
      /\ \/ Doing(op[t], pos[t]) = "exec" /\ call[t] = "exec"
         \/ Doing(op[t], pos[t]) = "send" /\ call[t] = "send"
            /\ op[t] = "publish" /\ pos[t] = 4
         \/ Doing(op[t], pos[t]) = "connect" /\ call[t] = "wait_connect"
            /\ op[t] = "detect" /\ pos[t] = 1
  BY <1>3, <1>5, CallFacts
<1> QED
  BY <1>1, <1>2, <1>3, <1>4, <1>5, <1>6, <1>7, <1>8, ObjectsOfTask

\* A step that writes nothing.
LEMMA QuietCall ==
  ASSUME Reachable, ExchangeInv, NEW t \in Tasks, InCall(t), tx' = tx,
         clientResp' = clientResp \/ ppc # "store",
         respStatus' = respStatus \/ ppc \notin {"clear", "notify"},
         NotYet(t)' => NotYet(t), Place(t)', LinesOf(t)', Heard(t)'
  PROVE  ExchangeInv'
<1>1. /\ UNCHANGED <<drvLock, lineNum, op, pos, running, failed, outcome, ops>>
      /\ UNCHANGED wireVars /\ presp' = presp /\ drvLock = t /\ Run(t)
  BY CallFrame
<1>2. written' = written /\ given' = given
  BY <1>1 DEF wireVars
<1>3. ItemInv' /\ WireInv'
  BY <1>1, WireSame, WireStays DEF ExchangeInv
<1>4. DoneInv'
  BY <1>1, <1>2, DoneKeeps DEF ExchangeInv
<1>5. Run(t)'
  <2>1. Positions(t, ops[t])' = Positions(t, ops[t])
    BY <1>1, <1>2 DEF Positions
  <2>2. Asked(t)' <=> Asked(t)
    BY <1>1, <1>2, WireSame DEF Asked, Has
  <2>3. \A i : (Pending(t, i)' <=> Pending(t, i)) /\ (Accepted(i)' <=> Accepted(i))
    BY <1>1, <1>2, WireSame DEF Pending
  <2> QED
    BY <1>1, <1>2, <2>1, <2>2, <2>3 DEF Run
<1> QED
  BY <1>1, <1>3, <1>4, <1>5, OneTask

\* A call that has written is not the one that sends the data.
LEMMA WroteItsOwn ==
  ASSUME Reachable, PlaceInv, NEW t \in Tasks, running[t], call[t] # "send",
         AtItem(t) \/ call[t] = "wait_connect"
  PROVE  ~DataSent(t)
<1>1. /\ op[t] \in OpKinds /\ pos[t] \in DOMAIN Function(op[t])
      /\ \/ Doing(op[t], pos[t]) = "exec" /\ call[t] = "exec"
         \/ op[t] = "detect" /\ call[t] = "wait_connect"
  BY CallFacts
<1>2. CASE op[t] = "detect"
  BY <1>2 DEF DataSent
<1>3. CASE Doing(op[t], pos[t]) = "exec" /\ AtItem(t)
  <2>1. ~(op[t] = "publish" /\ pos[t] = 4)
    BY <1>1, <1>3, StepsThatWrite
  <2>2. LastItem.pos = pos[t]
    BY <1>3, ConstantsOK DEF AtItem, Item
  <2> QED
    BY <2>1, <2>2 DEF DataSent
<1> QED
  BY <1>1, <1>2, <1>3

\* The mutex of the client is taken.
LEMMA TakeLockStep ==
  ASSUME Reachable, ExchangeInv, NEW t \in Tasks, InCall(t), TakeLock(t)
  PROVE  ExchangeInv'
<1>1. /\ pc[t] = "lock" /\ pc'[t] = IF call[t] = "send" THEN "write" ELSE "prepare"
      /\ UNCHANGED <<tx, clientResp, respStatus, sem, resp, call, result>>
  BY CallFrame DEF TakeLock, Goto
<1>2. /\ running[t] /\ ~failed[t] /\ Place(t)
      /\ UNCHANGED <<lineNum, op, pos, running, failed, ops, written, ppc>>
      /\ UNCHANGED wireVars
      /\ call[t] \in {"exec", "send", "wait_connect"}
  BY <1>1, CallFrame DEF wireVars
<1>3. /\ AtItem(t)' <=> AtItem(t)
      /\ DataSent(t)' <=> DataSent(t)
      /\ Calm' <=> Calm
  BY <1>2, ItemSame, WireSame
<1>4. NotYet(t) /\ NotYet(t)'
  BY <1>1, <1>2 DEF NotYet
<1>5. Place(t)'
  <2>1. DataSent(t) => pos[t] # 4
    BY <1>1, <1>2 DEF Place
  <2>2. op[t] = "publish" /\ pos[t] = 5 => DataSent(t)
    BY <1>2, <1>4 DEF Place
  <2>3. ~DataSent(t) => Calm
    BY <1>1, <1>2 DEF Place, Expecting
  <2>4. clientResp = None /\ ppc = "read"
    BY <1>1, <1>2 DEF Place
  <2>5. call[t] = "exec" => resp'[Own(t)'].line_num = lineNum'
    BY <1>1, <1>2 DEF Place, Own
  <2>6. call[t] = CallFor(Doing(op[t], pos[t]))
    BY <1>2 DEF Place
  <2> QED
    BY <1>1, <1>2, <1>3, <2>1, <2>2, <2>3, <2>4, <2>5, <2>6 DEF Place, Expecting
<1>6. LinesOf(t)' /\ Heard(t)'
  BY <1>1 DEF LinesOf, Heard
<1> QED
  BY <1>1, <1>4, <1>5, <1>6, QuietCall

\* The response is cleared and handed to the parser.
LEMMA PrepareStep ==
  ASSUME Reachable, ExchangeInv, NEW t \in Tasks, InCall(t),
         ExecPrepare(t) \/ ConnectPrepare(t)
  PROVE  ExchangeInv'
<1>1. /\ pc[t] = "prepare" /\ pc'[t] = "reset" /\ UNCHANGED <<tx, call, result>>
  BY CallFrame DEF ExecPrepare, ConnectPrepare, Goto
<1>2. /\ running[t] /\ ~failed[t] /\ Place(t)
      /\ UNCHANGED <<lineNum, op, pos, running, failed, ops, written, ppc>>
      /\ UNCHANGED wireVars
      /\ call[t] \in {"exec", "send", "wait_connect"}
      /\ resp \in [Objects -> Responses] /\ Own(t) \in Objects
  BY <1>1, CallFrame DEF wireVars
<1>3. /\ AtItem(t)' <=> AtItem(t)
      /\ DataSent(t)' <=> DataSent(t)
      /\ Calm' <=> Calm
  BY <1>2, ItemSame, WireSame
<1>4. NotYet(t) /\ ppc = "read"
  BY <1>1, <1>2 DEF NotYet, Place
<1>5. call[t] # "send"
  BY <1>1 DEF ExecPrepare, ConnectPrepare
<1>6. call[t] = "exec" => /\ resp'[Own(t)'].line_num = lineNum'
                          /\ resp'[Own(t)'].lines = <<>>
  <2> SUFFICES ASSUME call[t] = "exec"
               PROVE  /\ resp'[Own(t)'].line_num = lineNum'
                      /\ resp'[Own(t)'].lines = <<>>
    OBVIOUS
  <2>1. resp' = [resp EXCEPT ![Own(t)] = Cleared(resp[Own(t)])] /\ (Own(t))' = Own(t)
    BY DEF ExecPrepare, ConnectPrepare, Own
  <2>2. resp'[Own(t)] = Cleared(resp[Own(t)])
    BY <1>2, <2>1
  <2>3. resp[Own(t)].line_num = lineNum
    BY <1>2 DEF Place
  <2>4. /\ Cleared(resp[Own(t)]).line_num = resp[Own(t)].line_num
        /\ Cleared(resp[Own(t)]).lines = <<>>
    BY DEF Cleared, EmptyResp
  <2> QED
    BY <1>2, <2>1, <2>2, <2>3, <2>4
<1>7. Place(t)'
  <2>1. DataSent(t) => pos[t] # 4
    BY <1>1, <1>2 DEF Place
  <2>2. op[t] = "publish" /\ pos[t] = 5 => DataSent(t)
    BY <1>2, <1>4 DEF Place
  <2>3. ~DataSent(t) => Calm
    BY <1>1, <1>2 DEF Place, Expecting
  <2>4. call[t] = CallFor(Doing(op[t], pos[t]))
    BY <1>2 DEF Place
  <2> QED
    BY <1>1, <1>2, <1>3, <1>5, <1>6, <2>1, <2>2, <2>3, <2>4 DEF Place, Expecting
<1>8. LinesOf(t)'
  <2>1. CASE call[t] = "exec"
    <3>1. DOMAIN resp'[Own(t)'].lines = {}
      BY <1>6, <2>1
    <3> QED
      BY <1>6, <2>1, <3>1 DEF LinesOf
  <2>2. CASE call[t] # "exec"
    BY <1>1, <2>2 DEF LinesOf
  <2> QED
    BY <2>1, <2>2
<1>9. Heard(t)'
  BY <1>1 DEF Heard
<1> QED
  BY <1>1, <1>4, <1>7, <1>8, <1>9, QuietCall

\* The steps that change nothing that the parser looks at.
LEMMA InnerStep ==
  ASSUME Reachable, ExchangeInv, NEW t \in Tasks, InCall(t),
         ResetSem(t) \/ ConnectGiveUp(t) \/ CheckStatus(t) \/ DeleteResp(t)
  PROVE  ExchangeInv'
<1>1. /\ UNCHANGED <<tx, clientResp, respStatus, resp, call>>
      /\ \/ pc[t] = "reset" /\ pc'[t] = "write" /\ sem' = 0 /\ result' = result
         \/ pc[t] = "write" /\ call[t] = "wait_connect" /\ pc'[t] = "delete"
            /\ result'[t] = "timeout" /\ sem' = sem
         \/ pc[t] = "check" /\ pc'[t] = "finish" /\ sem' = sem
            /\ (result'[t] = "ok" => respStatus = "ok")
         \/ pc[t] = "delete" /\ pc'[t] = "finish" /\ sem' = sem /\ result' = result
  <2>1. pc \in [Tasks -> PcLabels] /\ result \in [Tasks -> Results] /\ "timeout" # "ok"
        /\ "error" # "ok"
    BY CallFrame
  <2>2. CASE ResetSem(t)
    BY <2>1, <2>2 DEF ResetSem, Goto
  <2>3. CASE ConnectGiveUp(t)
    BY <2>1, <2>3 DEF ConnectGiveUp, Goto, Return
  <2>4. CASE CheckStatus(t)
    BY <2>1, <2>4 DEF CheckStatus, Goto, Return
  <2>5. CASE DeleteResp(t)
    BY <2>1, <2>5 DEF DeleteResp, Goto
  <2> QED
    BY <2>2, <2>3, <2>4, <2>5
<1>2. /\ running[t] /\ ~failed[t] /\ Place(t) /\ LinesOf(t) /\ Heard(t)
      /\ UNCHANGED <<lineNum, op, pos, running, failed, ops, written, ppc, rx, pline>>
      /\ UNCHANGED wireVars
      /\ call[t] \in {"exec", "send", "wait_connect"}
      /\ call[t] = "wait_connect" => op[t] = "detect"
  BY <1>1, CallFrame DEF wireVars
<1>3. /\ AtItem(t)' <=> AtItem(t)
      /\ DataSent(t)' <=> DataSent(t)
      /\ Calm' <=> Calm
  BY <1>2, ItemSame, WireSame
<1>4. call[t] # "send"
  BY <1>1, <1>2 DEF Place
<1>5. NotYet(t)' => NotYet(t)
  BY <1>1, <1>2 DEF NotYet
<1>6. Place(t)'
  <2>1. DataSent(t) => pos[t] # 4
    BY <1>1, <1>2 DEF Place
  <2>2. op[t] = "publish" /\ pos[t] = 5 /\ NotYet(t)' => DataSent(t)
    BY <1>2, <1>5 DEF Place
  <2>3. ~DataSent(t) => Calm
    BY <1>1, <1>2 DEF Place, Expecting
  <2>4. call[t] = CallFor(Doing(op[t], pos[t]))
    BY <1>2 DEF Place
  <2>5. call[t] = "exec" => /\ resp'[Own(t)'].line_num = lineNum'
                            /\ pc[t] = "reset" \/ (pc[t] = "check" /\ AtItem(t))
    BY <1>1, <1>2 DEF Place, Own
  <2>6. call[t] = "wait_connect" => pc[t] # "check"
    BY <1>2 DEF Place
  <2> QED
    BY <1>1, <1>2, <1>3, <1>4, <2>1, <2>2, <2>3, <2>4, <2>5, <2>6 DEF Place, Expecting
<1>7. LinesOf(t)'
  <2>1. CASE call[t] = "exec"
    <3>1. pc[t] \in {"reset", "check"} /\ pc'[t] \in {"write", "finish"}
      BY <1>1, <1>2, <2>1 DEF Place
    <3>2. resp'[Own(t)'] = resp[Own(t)]
      BY <1>1 DEF Own
    <3>3. pc'[t] = "write" => pc[t] = "reset"
      BY <1>1
    <3> QED
      BY <1>1, <1>2, <1>3, <2>1, <3>1, <3>2, <3>3, WireSame DEF LinesOf, IsReplyLine
  <2>2. CASE call[t] # "exec"
    BY <1>1, <2>2 DEF LinesOf
  <2> QED
    BY <2>1, <2>2
<1>8. Heard(t)'
  <2>1. pc'[t] = "write" => sem' = 0
    BY <1>1
  <2>2. pc'[t] \in {"delete", "finish"} /\ result'[t] = "ok" => AtItem(t) /\ Replied(TRUE)
    <3>1. CASE pc[t] = "check"
      <4>1. call[t] = "exec" /\ AtItem(t)
        BY <1>2, <1>4, <3>1 DEF Place
      <4> QED
        BY <1>1, <1>2, <3>1, <4>1 DEF Heard
    <3>2. CASE pc[t] = "delete"
      BY <1>1, <1>2, <1>4, <3>2 DEF Heard
    <3> QED
      BY <1>1, <3>1, <3>2
  <2>3. pc'[t] \in {"write", "delete", "finish"}
    BY <1>1
  <2>4. Replied(TRUE)' <=> Replied(TRUE)
    BY <1>2, WireSame
  <2>5. ~(sem' = 1 /\ pc'[t] \in {"write", "wait"}) /\ pc'[t] # "check"
    BY <2>1, <2>3
  <2> HIDE DEF Replied, AtItem
  <2> QED
    BY <1>3, <2>1, <2>2, <2>3, <2>4, <2>5 DEF Heard
<1> QED
  BY <1>1, <1>5, <1>6, <1>7, <1>8, QuietCall

\* The answer has come: the line is calm again.
LEMMA WokenStep ==
  ASSUME PromptModem, Reachable, ExchangeInv, NEW t \in Tasks, InCall(t), Woken(t)
  PROVE  ExchangeInv'
<1>1. /\ pc[t] = "wait" /\ sem = 1 /\ sem' = 0
      /\ pc'[t] = IF call[t] = "exec" THEN "check" ELSE "delete"
      /\ call[t] = "exec" => result' = result
      /\ UNCHANGED <<tx, clientResp, respStatus, resp, call>>
  BY CallFrame DEF Woken, Goto, Return
<1>2. /\ running[t] /\ ~failed[t] /\ Place(t) /\ LinesOf(t) /\ Heard(t)
      /\ UNCHANGED <<lineNum, op, pos, running, failed, ops, written, ppc, rx, pline>>
      /\ UNCHANGED wireVars
      /\ call[t] \in {"exec", "send", "wait_connect"}
      /\ call[t] = "wait_connect" => op[t] = "detect"
      /\ ItemInv /\ WireInv /\ PlaceInv
  BY <1>1, CallFrame DEF wireVars, ExchangeInv
<1>3. /\ AtItem(t)' <=> AtItem(t)
      /\ DataSent(t)' <=> DataSent(t)
      /\ Calm' <=> Calm
  BY <1>2, ItemSame, WireSame
<1>4. call[t] \in {"exec", "wait_connect"} /\ AtItem(t)
  BY <1>1, <1>2, WaitFacts
<1>5. ~DataSent(t)
  BY <1>2, <1>4, WroteItsOwn
<1>6. /\ ppc = "read" /\ NoReply /\ Replied(respStatus = "ok")
  BY <1>1, <1>2, <1>4 DEF Heard
<1>7. Calm
  <2>1. Source \in DOMAIN given
    BY <1>6 DEF Replied
  <2>2. \A i \in DOMAIN written : Unserved(i) => written[i].pos = 5
    BY <1>2, <2>1 DEF WireInv, Unserved
  <2> QED
    BY <1>6, <2>2 DEF Calm
<1>8. respStatus = "ok" => Replied(TRUE)
  BY <1>6 DEF Replied
<1>9. call[t] = "wait_connect" => Replied(TRUE)
  <2> SUFFICES ASSUME call[t] = "wait_connect" PROVE Replied(TRUE)
    OBVIOUS
  <2>1. PICK i \in DOMAIN given[Source] : given[Source][i] \notin UrcKinds
    BY <1>6 DEF Replied
  <2>2. Source \in DOMAIN given /\ written[Source].op = "detect"
    <3>1. LastItem.op = "detect" /\ LastItem.pos = 1 /\ written # <<>>
      <4>1. LastItem.op = op[t] /\ LastItem.pos = pos[t] /\ written # <<>>
        BY <1>4, ConstantsOK DEF AtItem, Item
      <4> QED
        BY <1>2, <4>1, CallFacts
    <3>2. written[Source] = LastItem
      BY <1>2, <3>1, SourceFacts
    <3> QED
      BY <1>6, <3>1, <3>2 DEF Replied
  <2>3. given[Source] = <<>> \/ given[Source] = <<"ok">>
    BY <1>2, <2>2, SourceAnswer
  <2>4. given[Source][i] # "error"
    <3>1. given[Source] # <<>>
      BY <2>1
    <3>2. given[Source] = <<"ok">> /\ i = 1
      BY <2>1, <2>3, <3>1
    <3> QED
      BY <3>2
  <2> QED
    BY <2>1, <2>2, <2>4 DEF Replied
<1>10. ~NotYet(t)'
  BY <1>1, <1>2 DEF NotYet
<1>11. Place(t)'
  <2>1. call[t] = CallFor(Doing(op[t], pos[t]))
    BY <1>2 DEF Place
  <2>2. call[t] = "exec" => resp'[Own(t)'].line_num = lineNum'
    BY <1>1, <1>2 DEF Place, Own
  <2> QED
    BY <1>1, <1>2, <1>3, <1>4, <1>5, <1>7, <1>10, <2>1, <2>2 DEF Place
<1>12. LinesOf(t)'
  <2>1. CASE call[t] = "exec"
    <3>1. resp'[Own(t)'] = resp[Own(t)]
      BY <1>1 DEF Own
    <3>2. pc'[t] = "check"
      BY <1>1, <2>1
    <3> QED
      BY <1>1, <1>2, <2>1, <3>1, <3>2, WireSame DEF LinesOf, IsReplyLine
  <2>2. CASE call[t] # "exec"
    BY <1>1, <2>2 DEF LinesOf
  <2> QED
    BY <2>1, <2>2
<1>13. Heard(t)'
  <2>1. Replied(TRUE)' <=> Replied(TRUE)
    BY <1>2, WireSame
  <2>2. pc'[t] = "check" \/ (pc'[t] = "delete" /\ call[t] = "wait_connect")
    BY <1>1, <1>4
  <2> HIDE DEF Replied, AtItem
  <2> QED
    BY <1>1, <1>3, <1>4, <1>8, <1>9, <2>1, <2>2 DEF Heard
<1> QED
  BY <1>1, <1>6, <1>10, <1>11, <1>12, <1>13, QuietCall

\* No answer comes any more.
LEMMA TimedOutStep ==
  ASSUME PromptModem, Reachable, ExchangeInv, NEW t \in Tasks, InCall(t), TimedOut(t)
  PROVE  ExchangeInv'
<1>1. /\ pc[t] = "wait" /\ sem = 0 /\ sem' = 0 /\ Quiet
      /\ pc'[t] = IF call[t] = "exec" THEN "finish" ELSE "write"
      /\ call[t] = "exec" => result'[t] = "timeout"
      /\ UNCHANGED <<tx, clientResp, resp, call>>
  BY CallFrame DEF TimedOut, Goto, Return, MayTimeOut, PromptModem
<1>2. /\ running[t] /\ ~failed[t] /\ Place(t) /\ LinesOf(t) /\ Heard(t)
      /\ UNCHANGED <<lineNum, op, pos, running, failed, ops, written, ppc, rx, pline>>
      /\ UNCHANGED wireVars
      /\ call[t] \in {"exec", "send", "wait_connect"}
      /\ ItemInv /\ WireInv /\ PlaceInv
      /\ ppc \in {"read", "store", "clear", "notify"}
  BY <1>1, CallFrame DEF wireVars, ExchangeInv
<1>3. /\ AtItem(t)' <=> AtItem(t)
      /\ DataSent(t)' <=> DataSent(t)
      /\ Calm' <=> Calm
  BY <1>2, ItemSame, WireSame
<1>4. call[t] \in {"exec", "wait_connect"} /\ AtItem(t)
  BY <1>1, <1>2, WaitFacts
<1>5. ~DataSent(t)
  BY <1>2, <1>4, WroteItsOwn
<1>6. Calm
  <2>1. tx = <<>> /\ ppc = "read" /\ rx = <<>>
    BY <1>1, <1>2 DEF Quiet
  <2>2. Len(written) = Len(given)
    BY <1>2, <2>1, Lengths DEF ItemInv
  <2>3. \A i \in DOMAIN written : ~Unserved(i)
    BY <2>2, Lengths DEF Unserved
  <2>4. NoReply
    BY <2>1 DEF NoReply
  <2> QED
    BY <2>1, <2>3, <2>4 DEF Calm
<1>7. ~NotYet(t)'
  BY <1>1, <1>2, <1>4 DEF NotYet
<1>8. Place(t)'
  <2>1. call[t] = CallFor(Doing(op[t], pos[t]))
    BY <1>2 DEF Place
  <2>2. call[t] = "exec" => resp'[Own(t)'].line_num = lineNum'
    BY <1>1, <1>2 DEF Place, Own
  <2> QED
    BY <1>1, <1>2, <1>3, <1>4, <1>5, <1>6, <1>7, <2>1, <2>2 DEF Place
<1>9. LinesOf(t)'
  <2>1. CASE call[t] = "exec"
    <3>1. resp'[Own(t)'] = resp[Own(t)]
      BY <1>1 DEF Own
    <3>2. pc'[t] = "finish"
      BY <1>1, <2>1
    <3> QED
      BY <1>1, <1>2, <2>1, <3>1, <3>2, WireSame DEF LinesOf, IsReplyLine
  <2>2. CASE call[t] # "exec"
    BY <1>1, <2>2 DEF LinesOf
  <2> QED
    BY <2>1, <2>2
<1>10. Heard(t)'
  <2>1. ~(sem' = 1 /\ pc'[t] \in {"write", "wait"}) /\ ~(sem' = 1 /\ pc'[t] = "write")
    BY <1>1
  <2>2. pc'[t] # "check"
    BY <1>1
  <2>3. ~(pc'[t] \in {"delete", "finish", "idle"} /\ result'[t] = "ok")
    BY <1>1
  <2> QED
    BY <2>1, <2>2, <2>3 DEF Heard
<1> QED
  BY <1>1, <1>6, <1>7, <1>8, <1>9, <1>10, QuietCall DEF Calm

\* The call returns, and nothing of it is on its way.
LEMMA FinishCallStep ==
  ASSUME Reachable, ExchangeInv, NEW t \in Tasks, InCall(t), Finish(t)
  PROVE  ExchangeInv'
<1>1. /\ pc[t] = "finish" /\ pc'[t] = "idle" /\ clientResp' = None
      /\ UNCHANGED <<tx, respStatus, sem, resp, call, result>>
  BY CallFrame DEF Finish, Goto
<1>2. /\ running[t] /\ ~failed[t] /\ Place(t) /\ LinesOf(t) /\ Heard(t)
      /\ UNCHANGED <<lineNum, op, pos, running, failed, ops, written, ppc, rx, pline>>
      /\ UNCHANGED wireVars
      /\ call[t] \in {"exec", "send", "wait_connect"}
      /\ PlaceInv
  BY <1>1, CallFrame DEF wireVars, ExchangeInv
<1>3. /\ AtItem(t)' <=> AtItem(t)
      /\ DataSent(t)' <=> DataSent(t)
      /\ Calm' <=> Calm
  BY <1>2, ItemSame, WireSame
<1>4. call[t] # "send" /\ (call[t] = "exec" => AtItem(t))
  BY <1>1, <1>2 DEF Place
<1>5. ~DataSent(t)
  BY <1>2, <1>4, WroteItsOwn
<1>6. Calm
  BY <1>1, <1>2, <1>5 DEF Place, Expecting
<1>7. ~NotYet(t)'
  BY <1>1, <1>2 DEF NotYet
<1>8. Place(t)'
  <2>1. call[t] = CallFor(Doing(op[t], pos[t]))
    BY <1>2 DEF Place
  <2>2. call[t] = "exec" => resp'[Own(t)'].line_num = lineNum'
    BY <1>1, <1>2 DEF Place, Own
  <2>3. ppc' = "read"
    BY <1>2, <1>6 DEF Calm
  <2> QED
    BY <1>1, <1>2, <1>3, <1>4, <1>5, <1>6, <1>7, <2>1, <2>2, <2>3 DEF Place
<1>9. LinesOf(t)'
  <2>1. CASE call[t] = "exec"
    <3>1. resp'[Own(t)'] = resp[Own(t)]
      BY <1>1 DEF Own
    <3> QED
      BY <1>1, <1>2, <2>1, <3>1, WireSame DEF LinesOf, IsReplyLine
  <2>2. CASE call[t] # "exec"
    BY <1>1, <2>2 DEF LinesOf
  <2> QED
    BY <2>1, <2>2
<1>10. Heard(t)'
  <2>1. Replied(TRUE)' <=> Replied(TRUE)
    BY <1>2, WireSame
  <2>2. call[t] \in {"exec", "wait_connect"} /\ result[t] = "ok" => AtItem(t) /\ Replied(TRUE)
    BY <1>1, <1>2 DEF Heard
  <2> HIDE DEF Replied, AtItem
  <2> QED
    BY <1>1, <1>2, <1>3, <2>1, <2>2 DEF Heard
<1> QED
  BY <1>1, <1>6, <1>7, <1>8, <1>9, <1>10, QuietCall DEF Calm

\* Something is written: the empty command behind the data, or a new question to
\* a modem that owes no answer.
LEMMA WrittenFacts ==
  ASSUME Reachable, ExchangeInv, NEW t \in Tasks, drvLock = t, running[t],
         pc[t] = "write", written' = Append(written, Item(t)), given' = given
  PROVE  LET n == Len(written)
         IN  /\ n \in Nat /\ Len(written') = n + 1 /\ DOMAIN written = 1 .. n
             /\ DOMAIN written' = 1 .. n + 1
             /\ \A i \in 1 .. n : written'[i] = written[i]
             /\ written'[n + 1] = Item(t) /\ LastItem' = Item(t)
             /\ Item(t) = [by |-> t, run |-> ops[t], op |-> op[t], pos |-> pos[t]]
             /\ \/ /\ DataSent(t) /\ pos[t] = 5 /\ op[t] = "publish"
                   /\ Source = n /\ Source' = n /\ LastItem.pos = 4 /\ n \in 1 .. n
                   /\ written[n].pos = 4
                \/ ~DataSent(t) /\ Calm /\ pos[t] # 5 /\ Source' = n + 1
             /\ \A i \in 1 .. n : Accepted(i)' <=> Accepted(i)
<1>1. PICK n \in Nat : n = Len(written)
  BY Lengths
<1>2. /\ Len(written') = n + 1 /\ DOMAIN written = 1 .. n
      /\ DOMAIN written' = 1 .. n + 1
      /\ \A i \in 1 .. n : written'[i] = written[i]
      /\ written'[n + 1] = Item(t)
  BY <1>1, Lengths
<1>3. /\ LastItem' = Item(t) /\ written' # <<>>
  BY <1>1, <1>2 DEF LastItem
<1>4. Item(t) = [by |-> t, run |-> ops[t], op |-> op[t], pos |-> pos[t]]
  BY ConstantsOK DEF Item
<1>5. Source' = IF pos[t] = 5 THEN n ELSE n + 1
  <2>1. Source' = IF written'[n + 1].pos = 5 THEN n + 1 - 1 ELSE n + 1
    BY <1>2, <1>3 DEF Source, Answering
  <2>2. written'[n + 1].pos = pos[t] /\ n + 1 - 1 = n
    BY <1>2, <1>4
  <2> QED
    BY <2>1, <2>2
<1>6. Place(t) /\ ~failed[t] /\ ItemInv /\ PlaceInv
  BY HolderParts DEF Place, ExchangeInv
<1>7. CASE DataSent(t)
  <2>1. /\ op[t] = "publish" /\ pos[t] \in {4, 5} /\ written # <<>> /\ LastItem.pos = 4
        /\ pos[t] # 4
    BY <1>6, <1>7 DEF Place, DataSent
  <2>2. n \in 1 .. n /\ written[n].pos = 4
    BY <1>1, <2>1, Lengths DEF LastItem
  <2>3. Source = n
    BY <1>1, <1>6, <2>1, SourceFacts
  <2> QED
    BY <1>1, <1>2, <1>3, <1>4, <1>5, <1>7, <2>1, <2>2, <2>3 DEF Accepted, Answering
<1>8. CASE ~DataSent(t)
  <2>1. Calm
    BY <1>6, <1>8 DEF Place, Expecting
  <2>2. pos[t] # 5
    <3>1. SUFFICES ASSUME pos[t] = 5 PROVE FALSE
      OBVIOUS
    <3>2. op[t] = "publish" /\ call[t] = "exec"
      BY <1>6, <3>1, CallFacts, StepsThatWrite
    <3>3. NotYet(t)
      BY <3>2 DEF NotYet
    <3> QED
      BY <1>6, <1>8, <3>1, <3>2, <3>3 DEF Place
  <2> QED
    BY <1>1, <1>2, <1>3, <1>4, <1>5, <1>8, <2>1, <2>2 DEF Accepted, Answering
<1> QED
  BY <1>7, <1>8

\* What a step that writes does, whatever it writes.
LEMMA WriteStep ==
  ASSUME Reachable, ExchangeInv, NEW t \in Tasks, InCall(t), pc[t] = "write",
         NEW x, tx' = Append(tx, x), UNCHANGED <<clientResp, respStatus>>,
         ~NotYet(t)'
  PROVE  /\ ItemInv' /\ WireInv' /\ DoneInv' /\ Run(t)' /\ AtItem(t)' /\ drvLock' = t
         /\ written' = Append(written, Item(t))
         /\ DataSent(t)' <=> op[t] = "publish" /\ pos[t] = 4
<1>1. /\ running[t] /\ drvLock = t /\ ~failed[t] /\ Run(t) /\ Place(t)
      /\ op[t] \in OpKinds /\ pos[t] \in DOMAIN Function(op[t])
      /\ UNCHANGED <<drvLock, lineNum, op, pos, running, failed, outcome, ops>>
      /\ UNCHANGED <<call, presp, given, rx, ppc, pline, partial>>
  BY CallFrame
<1>2. Doing(op[t], pos[t]) \in {"exec", "send", "connect"} /\ pos[t] \in Nat
  BY CallFrame DEF Reachable, DrvInv, CommandTypes
<1>3. Len(tx') = Len(tx) + 1 /\ Len(tx) \in Nat
  BY Lengths
<1>4. written' = Append(written, Item(t))
  BY <1>3 DEF InCall, Noted
<1> DEFINE n == Len(written)
<1>5. /\ n \in Nat /\ Len(written') = n + 1 /\ DOMAIN written = 1 .. n
      /\ DOMAIN written' = 1 .. n + 1
      /\ \A i \in 1 .. n : written'[i] = written[i]
      /\ written'[n + 1] = Item(t) /\ LastItem' = Item(t)
      /\ Item(t) = [by |-> t, run |-> ops[t], op |-> op[t], pos |-> pos[t]]
      /\ \A i \in 1 .. n : Accepted(i)' <=> Accepted(i)
  BY <1>1, <1>4, WrittenFacts
<1>6. \/ /\ DataSent(t) /\ pos[t] = 5 /\ op[t] = "publish"
         /\ Source = n /\ Source' = n /\ LastItem.pos = 4 /\ n \in 1 .. n
         /\ written[n].pos = 4
      \/ ~DataSent(t) /\ Calm /\ pos[t] # 5 /\ Source' = n + 1
  BY <1>1, <1>4, WrittenFacts
<1>7. PICK m \in Nat : m = n
  BY <1>5
<1> HIDE DEF n
<1>8. /\ Item(t).by = t /\ Item(t).run = ops[t] /\ Item(t).op = op[t]
      /\ Item(t).pos = pos[t]
  BY <1>5
<1>9. AtItem(t)'
  <2>1. (Item(t))' = Item(t)
    BY <1>1 DEF Item
  <2>2. written' # <<>>
    BY <1>5
  <2> QED
    BY <1>5, <2>1, <2>2 DEF AtItem
<1>10. DataSent(t)' <=> op[t] = "publish" /\ pos[t] = 4
  <2>1. written' # <<>> /\ op'[t] = op[t] /\ pos'[t] = pos[t] /\ ops'[t] = ops[t]
    BY <1>1, <1>5
  <2>2. DataSent(t)' => op[t] = "publish" /\ Item(t).pos = 4
    BY <1>5, <2>1 DEF DataSent
  <2>3. op[t] = "publish" /\ pos[t] = 4 => DataSent(t)'
    BY <1>5, <2>1 DEF DataSent
  <2> QED
    BY <1>8, <2>2, <2>3
<1>11. ItemInv'
  <2>0. ItemInv /\ Len(given) \in Nat /\ DOMAIN given = 1 .. Len(given)
        /\ Len(written) = Len(given) + Len(tx) /\ given' = given
    BY <1>1, Lengths DEF ExchangeInv, ItemInv
  <2>1. Len(written') = Len(given') + Len(tx')
    BY <1>3, <1>5, <2>0 DEF n
  <2>2. \A i \in DOMAIN given' : given'[i] \in Expected(written[i]) /\ written'[i] = written[i]
    BY <1>3, <1>5, <2>0 DEF ItemInv, n
  <2>3. \A i \in DOMAIN given' : given'[i] \in Expected(written'[i])
    BY <2>2
  <2>4. \A i \in 1 .. m : 
          /\ written[i].op \in OpKinds
          /\ written[i].pos \in DOMAIN Function(written[i].op)
          /\ Doing(written[i].op, written[i].pos) \in {"exec", "send", "connect"}
          /\ written[i].pos = 5 => i - 1 \in DOMAIN written /\ written[i - 1].pos = 4
    BY <1>5, <1>7, <2>0 DEF ItemInv
  <2>5. ASSUME NEW i \in DOMAIN written'
        PROVE  /\ written'[i].op \in OpKinds
               /\ written'[i].pos \in DOMAIN Function(written'[i].op)
               /\ Doing(written'[i].op, written'[i].pos) \in {"exec", "send", "connect"}
               /\ written'[i].pos = 5 =>
                    i - 1 \in DOMAIN written' /\ written'[i - 1].pos = 4
    <3>1. CASE i = m + 1
      <4>1. written'[i] = Item(t)
        BY <1>5, <1>7, <3>1
      <4>2. written'[i].pos = 5 => m \in 1 .. m /\ written[m].pos = 4
        BY <1>6, <1>7, <1>8, <4>1
      <4>3. i - 1 = m /\ (m \in 1 .. m => m \in DOMAIN written' /\ written'[m] = written[m])
        BY <1>5, <1>7, <3>1
      <4> QED
        BY <1>1, <1>2, <1>8, <4>1, <4>2, <4>3
    <3>2. CASE i # m + 1
      <4>1. i \in 1 .. m /\ written'[i] = written[i]
        BY <1>5, <1>7, <3>2
      <4>2. \A j \in DOMAIN written : j \in DOMAIN written' /\ written'[j] = written[j]
        BY <1>5, <1>7
      <4> QED
        BY <2>4, <4>1, <4>2
    <3> QED
      BY <3>1, <3>2
  <2>6. \A i \in DOMAIN written' :
          /\ written'[i].op \in OpKinds
          /\ written'[i].pos \in DOMAIN Function(written'[i].op)
          /\ Doing(written'[i].op, written'[i].pos) \in {"exec", "send", "connect"}
          /\ written'[i].pos = 5 =>
               i - 1 \in DOMAIN written' /\ written'[i - 1].pos = 4
    BY <2>5
  <2> QED
    BY <2>1, <2>3, <2>6 DEF ItemInv
<1>12. WireInv'
  <2>1. WireInv /\ ppc' = ppc /\ rx' = rx /\ given' = given /\ pline' = pline
        /\ presp' = presp /\ clientResp' = clientResp /\ ~partial'
        /\ respStatus' = respStatus
    BY <1>1 DEF ExchangeInv, WireInv
  <2>2. (\A i \in DOMAIN written : Unserved(i) => written[i].pos = 5 \/ i = Source)'
    <3> SUFFICES ASSUME NEW i \in DOMAIN written', i \notin DOMAIN given
                 PROVE  written'[i].pos = 5 \/ i = Source'
      BY <2>1 DEF Unserved
    <3>1. CASE i = m + 1
      <4>1. written'[i].pos = pos[t]
        BY <1>5, <1>7, <1>8, <3>1
      <4> QED
        BY <1>6, <1>7, <3>1, <4>1
    <3>2. CASE i # m + 1
      <4>1. i \in DOMAIN written /\ written'[i] = written[i]
        BY <1>5, <1>7, <3>2
      <4>2. Unserved(i)
        BY <4>1 DEF Unserved
      <4>3. Calm => written[i].pos = 5
        BY <4>1, <4>2 DEF Calm
      <4>4. written[i].pos = 5 \/ i = Source
        BY <2>1, <4>1, <4>2 DEF WireInv
      <4> QED
        BY <1>6, <4>1, <4>3, <4>4
    <3> QED
      BY <3>1, <3>2
  <2>3. CASE Source' = Source
    <3>1. /\ \A l : OfSource(l)' <=> OfSource(l)
          /\ \A l, k : Both(l, k)' <=> Both(l, k)
          /\ \A g : Replied(g)' <=> Replied(g)
          /\ NoReply' <=> NoReply
      BY <2>1, <2>3 DEF OfSource, Both, Replied, NoReply, Has, IsReplyLine
    <3> QED
      BY <2>1, <2>2, <3>1 DEF WireInv, IsReplyLine
  <2>4. CASE Calm
    <3>1. ppc' = "read" /\ \A i \in DOMAIN rx' : ~IsReplyLine(rx'[i])
      BY <2>1, <2>4 DEF Calm, NoReply
    <3> QED
      BY <2>1, <2>2, <3>1 DEF WireInv, IsReplyLine
  <2> QED
    BY <1>6, <2>3, <2>4
<1>13. Positions(t, ops[t])' = Positions(t, ops[t]) \cup {n + 1}
       /\ Positions(t, ops[t]) \subseteq 1 .. n
  <2>1. ASSUME NEW i
        PROVE  i \in Positions(t, ops[t])' <=> i \in Positions(t, ops[t]) \/ i = n + 1
    <3>1. ops'[t] = ops[t]
      BY <1>1
    <3>2. CASE i = m + 1
      <4>1. i \in DOMAIN written' /\ written'[i] = Item(t)
        BY <1>5, <1>7, <3>2
      <4> QED
        BY <1>7, <1>8, <3>1, <3>2, <4>1 DEF Positions
    <3>3. CASE i # m + 1
      <4>1. i \in DOMAIN written' <=> i \in DOMAIN written
        BY <1>5, <1>7, <3>3
      <4>2. i \in DOMAIN written => written'[i] = written[i]
        BY <1>5
      <4> QED
        BY <1>7, <3>1, <3>3, <4>1, <4>2 DEF Positions
    <3> QED
      BY <3>2, <3>3
  <2>2. Positions(t, ops[t]) \subseteq 1 .. n
    BY <1>5 DEF Positions
  <2> QED
    BY <2>1, <2>2
<1>14. \A i \in Positions(t, ops[t]) :
         /\ written[i].op = op[t] /\ written[i].pos <= pos[t]
         /\ NotYet(t) => written[i].pos < pos[t]
         /\ written[i].pos \in Nat
  BY <1>1, PositionTypes DEF Run
<1>15. Run(t)'
  <2>1. \A i \in Positions(t, ops[t])' :
          /\ written'[i].op = op'[t] /\ written'[i].pos <= pos'[t]
    <3> SUFFICES ASSUME NEW i \in Positions(t, ops[t])'
                 PROVE  written'[i].op = op'[t] /\ written'[i].pos <= pos'[t]
      OBVIOUS
    <3>0. op'[t] = op[t] /\ pos'[t] = pos[t]
      BY <1>1
    <3>1. CASE i = n + 1
      <4>1. written'[i].op = op[t] /\ written'[i].pos = pos[t]
        BY <1>5, <1>8, <3>1
      <4> QED
        BY <1>2, <3>0, <4>1
    <3>2. CASE i # n + 1
      <4>1. i \in Positions(t, ops[t]) /\ written'[i] = written[i]
        BY <1>5, <1>13, <3>2
      <4> QED
        BY <1>14, <3>0, <4>1
    <3> QED
      BY <3>1, <3>2
  <2>2. ~(op'[t] = "detect" /\ pos'[t] = 2)
    BY <1>1, <1>2, StepsThatWrite
  <2>3. ASSUME op'[t] # "detect", NEW i \in Positions(t, ops[t])'
        PROVE  Accepted(i)' \/ Pending(t, i)'
    <3>1. CASE i = n + 1
      <4>1. LastItem'.pos = pos'[t] /\ i = Len(written')
        BY <1>1, <1>5, <1>8, <3>1
      <4> QED
        BY <4>1 DEF Pending
    <3>2. CASE i # n + 1
      <4>1. i \in Positions(t, ops[t]) /\ i \in 1 .. n /\ written'[i] = written[i]
        BY <1>5, <1>13, <3>2
      <4>2. Accepted(i) \/ Pending(t, i)
        BY <1>1, <2>3, <4>1 DEF Run
      <4>3. ASSUME Pending(t, i) PROVE Pending(t, i)'
        <5>1. NotYet(t)
          BY <1>1, <1>2, <2>3, StepsThatWrite, CallFrame DEF NotYet
        <5>2. written[i].pos < pos[t] /\ written[i].pos \in Nat
          BY <1>14, <4>1, <5>1
        <5>3. pos[t] = 5
          BY <4>3, <5>2 DEF Pending, LastItem
        <5>4. i = n /\ LastItem'.pos = 5
          BY <1>5, <1>6, <1>8, <4>3, <5>3 DEF Pending, n
        <5>5. i = Len(written') - 1 /\ pos'[t] = 5
          BY <1>1, <1>5, <1>7, <5>3, <5>4
        <5> QED
          BY <5>4, <5>5 DEF Pending
      <4> QED
        BY <1>5, <4>1, <4>2, <4>3
    <3> QED
      BY <3>1, <3>2
  <2> QED
    BY <1>1, <2>1, <2>2, <2>3 DEF Run
<1>16. DoneInv'
  <2>1. DataWasAskedFor'
    <3> SUFFICES ASSUME NEW i \in DOMAIN written', written'[i].op = "publish",
                        written'[i].pos = 4
                 PROVE  i - 1 \in DOMAIN given /\ Has(given[i - 1], "prompt")
      BY <1>1 DEF DataWasAskedFor, Has
    <3>1. CASE i = m + 1
      <4>1. op[t] = "publish" /\ pos[t] = 4
        BY <1>5, <1>7, <1>8, <3>1
      <4>2. call[t] = "send" /\ NotYet(t)
        BY <1>1, <4>1, CallFrame, StepsThatWrite DEF NotYet
      <4>3. Asked(t)
        BY <1>1, <4>1, <4>2 DEF Run
      <4>4. m \in DOMAIN given /\ Has(given[m], "prompt") /\ i - 1 = m
        BY <1>7, <3>1, <4>3 DEF Asked, n
      <4> QED
        BY <4>4
    <3>2. CASE i # m + 1
      <4>1. i \in DOMAIN written /\ written'[i] = written[i]
        BY <1>5, <1>7, <3>2
      <4> QED
        BY <4>1 DEF ExchangeInv, DoneInv, DataWasAskedFor
    <3> QED
      BY <3>1, <3>2
  <2>2. ASSUME NEW u \in Tasks, outcome'[u] = "ok"
        PROVE  \A i \in Positions(u, ops[u])' :
                 \/ Accepted(i)'
                 \/ written'[i].op = "detect"
                    /\ \E j \in Positions(u, ops[u])' : Accepted(j)'
    <3>1. outcome[u] = "ok" /\ op[u] = "none" /\ u # t /\ ops'[u] = ops[u]
      BY <1>1, <2>2 DEF ExchangeInv, DoneInv, OpKinds
    <3>2. \A i : i \in Positions(u, ops[u])' <=> i \in Positions(u, ops[u])
      <4> SUFFICES ASSUME NEW i
                   PROVE  i \in Positions(u, ops[u])' <=> i \in Positions(u, ops[u])
        OBVIOUS
      <4>1. CASE i = m + 1
        <5>1. i \notin DOMAIN written /\ written'[i].by = t
          BY <1>5, <1>7, <1>8, <4>1
        <5> QED
          BY <3>1, <5>1 DEF Positions
      <4>2. CASE i # m + 1
        <5>1. i \in DOMAIN written' <=> i \in DOMAIN written
          BY <1>5, <1>7, <4>2
        <5>2. i \in DOMAIN written => written'[i] = written[i]
          BY <1>5
        <5> QED
          BY <3>1, <5>1, <5>2 DEF Positions
      <4> QED
        BY <4>1, <4>2
    <3>3. \A i \in Positions(u, ops[u]) :
            written'[i] = written[i] /\ (Accepted(i)' <=> Accepted(i))
      BY <1>5 DEF Positions
    <3> QED
      BY <3>1, <3>2, <3>3 DEF ExchangeInv, DoneInv, TrueMeansAllAccepted
  <2>3. TrueMeansAllAccepted'
    BY <2>2 DEF TrueMeansAllAccepted
  <2> QED
    BY <1>1, <2>1, <2>3 DEF ExchangeInv, DoneInv
<1> QED
  BY <1>1, <1>4, <1>9, <1>10, <1>11, <1>12, <1>15, <1>16

\* A command: one that waits for its answer, or a probe.
LEMMA CommandStep ==
  ASSUME Reachable, ExchangeInv, NEW t \in Tasks, InCall(t),
         ExecWrite(t) \/ ConnectProbe(t)
  PROVE  ExchangeInv'
<1>1. /\ running[t] /\ drvLock = t /\ ~failed[t] /\ Place(t) /\ LinesOf(t) /\ Heard(t)
      /\ op[t] \in OpKinds /\ pos[t] \in DOMAIN Function(op[t])
      /\ \/ Doing(op[t], pos[t]) = "exec" /\ call[t] = "exec"
         \/ Doing(op[t], pos[t]) = "send" /\ call[t] = "send"
         \/ Doing(op[t], pos[t]) = "connect" /\ call[t] = "wait_connect"
            /\ op[t] = "detect" /\ pos[t] = 1
      /\ UNCHANGED <<lineNum, op, pos, running, failed, ops>>
      /\ UNCHANGED <<call, given, rx, ppc, pline>>
      /\ pc \in [Tasks -> PcLabels]
  BY CallFrame
<1>2. /\ pc[t] = "write" /\ pc'[t] = "wait" /\ call[t] # "send"
      /\ UNCHANGED <<clientResp, respStatus, sem>>
      /\ call[t] = "exec" => resp' = resp
      /\ \E x : tx' = Append(tx, x)
  <2>1. CASE ExecWrite(t)
    BY <1>1, <2>1 DEF ExecWrite, Goto, Put
  <2>2. CASE ConnectProbe(t)
    BY <1>1, <2>2 DEF ConnectProbe, Goto, Put
  <2> QED
    BY <2>1, <2>2
<1>3. ~NotYet(t)'
  BY <1>1, <1>2 DEF NotYet
<1>4. /\ ItemInv' /\ WireInv' /\ DoneInv' /\ Run(t)' /\ AtItem(t)' /\ drvLock' = t
      /\ written' = Append(written, Item(t))
      /\ DataSent(t)' <=> op[t] = "publish" /\ pos[t] = 4
  BY <1>2, <1>3, WriteStep
<1>5. ~DataSent(t)'
  BY <1>1, <1>2, <1>4, StepsThatWrite
<1>6. ~DataSent(t) \/ Source' = Source
  BY <1>1, <1>2, <1>4, WrittenFacts
<1>7. Source' = Source =>
        /\ \A l : OfSource(l)' <=> OfSource(l)
        /\ \A l, k : Both(l, k)' <=> Both(l, k)
        /\ \A g : Replied(g)' <=> Replied(g)
        /\ NoReply' <=> NoReply
  BY <1>1 DEF OfSource, Both, Replied, NoReply, Has, IsReplyLine
<1>8. Place(t)'
  <2>1. call[t] = CallFor(Doing(op[t], pos[t]))
    BY <1>1 DEF Place
  <2>2. call[t] = "exec" => resp'[Own(t)'].line_num = lineNum'
    BY <1>1, <1>2 DEF Place, Own
  <2> QED
    BY <1>1, <1>2, <1>3, <1>4, <1>5, <2>1, <2>2 DEF Place, Expecting
<1>9. LinesOf(t)'
  <2>1. CASE call[t] = "exec" /\ DataSent(t)
    <3>1. resp'[Own(t)'] = resp[Own(t)]
      BY <1>2, <2>1 DEF Own
    <3>2. Source' = Source
      BY <1>6, <2>1
    <3> QED
      BY <1>1, <1>2, <1>7, <2>1, <3>1, <3>2 DEF LinesOf, IsReplyLine
  <2>2. CASE call[t] = "exec" /\ ~DataSent(t)
    <3>1. resp'[Own(t)'].lines = <<>>
      BY <1>1, <1>2, <2>2 DEF LinesOf, Own
    <3>2. DOMAIN resp'[Own(t)'].lines = {}
      BY <3>1
    <3> QED
      BY <3>1, <3>2 DEF LinesOf
  <2>3. CASE call[t] # "exec"
    BY <1>1, <2>3 DEF LinesOf
  <2> QED
    BY <2>1, <2>2, <2>3
<1>10. Heard(t)'
  <2>1. sem' = 1 => DataSent(t) /\ ppc = "read" /\ NoReply /\ Replied(respStatus = "ok")
    BY <1>1, <1>2 DEF Heard
  <2>2. sem' = 1 => ppc' = "read" /\ NoReply' /\ Replied(respStatus = "ok")'
    <3> SUFFICES ASSUME sem' = 1
                 PROVE  ppc' = "read" /\ NoReply' /\ Replied(respStatus = "ok")'
      OBVIOUS
    <3>1. Source' = Source
      BY <1>6, <2>1
    <3> QED
      BY <1>1, <1>2, <2>1, <3>1 DEF Replied, NoReply, IsReplyLine
  <2> HIDE DEF Replied, NoReply
  <2> QED
    BY <1>2, <2>2 DEF Heard
<1> QED
  BY <1>4, <1>8, <1>9, <1>10, OneTask

\* The data go out: the modem has asked for them.
LEMMA SendStep ==
  ASSUME Reachable, ExchangeInv, NEW t \in Tasks, InCall(t), SendWrite(t)
  PROVE  ExchangeInv'
<1>1. /\ running[t] /\ drvLock = t /\ ~failed[t] /\ Place(t)
      /\ \/ Doing(op[t], pos[t]) = "exec" /\ call[t] = "exec"
         \/ Doing(op[t], pos[t]) = "send" /\ call[t] = "send"
            /\ op[t] = "publish" /\ pos[t] = 4
         \/ Doing(op[t], pos[t]) = "connect" /\ call[t] = "wait_connect"
      /\ UNCHANGED <<lineNum, op, pos, running, failed, ops>>
      /\ UNCHANGED <<call, given, rx, ppc, pline>>
      /\ pc \in [Tasks -> PcLabels] /\ result \in [Tasks -> Results]
  BY CallFrame
<1>2. /\ pc[t] = "write" /\ pc'[t] = "idle" /\ call[t] = "send"
      /\ UNCHANGED <<clientResp, respStatus>> /\ result'[t] = "ok"
      /\ \E x : tx' = Append(tx, x)
  BY <1>1 DEF SendWrite, Goto, Return, Put
<1>3. ~NotYet(t)'
  BY <1>1, <1>2 DEF NotYet
<1>4. /\ ItemInv' /\ WireInv' /\ DoneInv' /\ Run(t)' /\ AtItem(t)' /\ drvLock' = t
      /\ DataSent(t)' <=> op[t] = "publish" /\ pos[t] = 4
  BY <1>2, <1>3, WriteStep
<1>5. DataSent(t)' /\ op[t] = "publish" /\ pos[t] = 4
  BY <1>1, <1>2, <1>4
<1>6. ppc = "read"
  <2>1. ~DataSent(t)
    BY <1>1, <1>2, <1>5 DEF Place
  <2> QED
    BY <1>1, <1>2, <2>1 DEF Place, Expecting, Calm
<1>7. clientResp = None
  <2>1. lock = t
    BY <1>2 DEF Reachable, DrvInv, IInv, LockInv, Critical
  <2>2. RespOf(t) = None
    BY <1>2 DEF RespOf
  <2> QED
    BY <2>1, <2>2 DEF Reachable, DrvInv, IInv, SlotInv
<1>8. Place(t)'
  <2>1. call[t] = CallFor(Doing(op[t], pos[t]))
    BY <1>1 DEF Place
  <2> QED
    BY <1>1, <1>2, <1>3, <1>4, <1>5, <1>6, <1>7, <2>1 DEF Place, Expecting
<1>9. LinesOf(t)' /\ Heard(t)'
  BY <1>1, <1>2 DEF LinesOf, Heard
<1> QED
  BY <1>4, <1>8, <1>9, OneTask

LEMMA CallStepKeeps ==
  ASSUME PromptModem, Reachable, ExchangeInv, NEW t \in Tasks, InCall(t)
  PROVE  ExchangeInv'
<1>1. CallStep(t)
  BY DEF InCall
<1> QED
  BY <1>1, TakeLockStep, PrepareStep, InnerStep, WokenStep, TimedOutStep,
     FinishCallStep, CommandStep, SendStep DEF CallStep

\* A step of a task.
LEMMA TaskKeeps ==
  ASSUME PromptModem, Reachable, ExchangeInv, NEW t \in Tasks, OpStep(t)
  PROVE  ExchangeInv'
BY TakeStep, StepsWithoutCall, StartStep, FinishedStep, ReleaseStep, CallStepKeeps
   DEF OpStep

-----------------------------------------------------------------------------
(* The steps of the parser *)

LEMMA HistorySame ==
  ASSUME UNCHANGED <<written, given>>
  PROVE  /\ Source' = Source /\ LastItem' = LastItem
         /\ \A l : OfSource(l)' <=> OfSource(l)
         /\ \A l, m : Both(l, m)' <=> Both(l, m)
         /\ \A g : Replied(g)' <=> Replied(g)
         /\ \A i : Accepted(i)' <=> Accepted(i)
         /\ \A i : Unserved(i)' <=> Unserved(i)
<1>1. Source' = Source /\ LastItem' = LastItem
  BY DEF Source, Answering, LastItem
<1>2. \A i : Accepted(i)' <=> Accepted(i)
  BY DEF Accepted, Answering, Has
<1>3. \A g : Replied(g)' <=> Replied(g)
  BY <1>1 DEF Replied
<1>4. /\ \A l : OfSource(l)' <=> OfSource(l)
      /\ \A l, m : Both(l, m)' <=> Both(l, m)
  BY <1>1 DEF OfSource, Both, Has
<1>5. \A i : Unserved(i)' <=> Unserved(i)
  BY DEF Unserved
<1> QED
  BY <1>1, <1>2, <1>3, <1>4, <1>5

LEMMA ParserFrame ==
  ASSUME Reachable, ExchangeInv, InParser
  PROVE  /\ \/ ReadPartial \/ ReadUrc \/ ReadUnrecognized \/ ReadResponse
            \/ StoreLine \/ ClearResp \/ Notify
         /\ ppc' \in {"read", "store", "clear", "notify"}
         /\ UNCHANGED <<written, given, tx, pc, call, result>>
         /\ UNCHANGED <<drvLock, lineNum, op, pos, running, failed, outcome, ops>>
         /\ \A t \in Tasks : /\ AtItem(t)' <=> AtItem(t)
                             /\ DataSent(t)' <=> DataSent(t)
                             /\ Expecting(t)' <=> Expecting(t)
                             /\ NotYet(t)' <=> NotYet(t)
<1>1. ParserStep /\ Noted(Parser)
      /\ UNCHANGED <<drvLock, lineNum, op, pos, running, failed, outcome, ops>>
  BY DEF InParser, opVars
<1>2. tx' = tx /\ ppc' \in {"read", "store", "clear", "notify"}
      /\ ppc \in {"read", "store", "clear", "notify"}
  BY <1>1, HandlerParser DEF Reachable, HandlerInv
<1>3. \/ ReadPartial \/ ReadUrc \/ ReadUnrecognized \/ ReadResponse
      \/ StoreLine \/ ClearResp \/ Notify
  BY <1>1, <1>2 DEF ParserStep, HandlerLock, HandlerSend, HandlerRecv,
                    HandlerRecvTimedOut
<1>4. UNCHANGED <<given, pc, call, result>>
  BY <1>3 DEF ReadPartial, ReadUrc, ReadUnrecognized, ReadResponse, StoreLine,
              ClearResp, Notify, taskVars
<1>5. written' = written
  <2>1. ~(Len(tx') > Len(tx))
    BY <1>2, Lengths
  <2> QED
    BY <1>1, <2>1 DEF Noted
<1>6. ASSUME NEW t \in Tasks
      PROVE  /\ AtItem(t)' <=> AtItem(t)
             /\ DataSent(t)' <=> DataSent(t)
             /\ Expecting(t)' <=> Expecting(t)
             /\ NotYet(t)' <=> NotYet(t)
  BY <1>1, <1>4, <1>5, ItemSame DEF Expecting, NotYet
<1> QED
  BY <1>1, <1>2, <1>3, <1>4, <1>5, <1>6

\* What the items say is not the parser's business.
LEMMA ParserRest ==
  ASSUME Reachable, ExchangeInv, InParser, WireInv', FreeInv',
         \A t \in Tasks : drvLock = t => Place(t)' /\ LinesOf(t)' /\ Heard(t)'
  PROVE  ExchangeInv'
<1>1. /\ UNCHANGED <<written, given, tx, pc, call, result>>
      /\ UNCHANGED <<drvLock, lineNum, op, pos, running, failed, outcome, ops>>
  BY ParserFrame
<1>2. DoneInv'
  BY <1>1, DoneKeeps DEF ExchangeInv
<1>3. ItemInv'
  BY <1>1 DEF ExchangeInv, ItemInv, Expected
<1>4. ASSUME NEW t \in Tasks, drvLock' = t PROVE Run(t)'
  <2>1. Run(t) /\ (NotYet(t)' <=> NotYet(t))
    BY <1>1, <1>4, HolderParts, ParserFrame
  <2>2. Positions(t, ops[t])' = Positions(t, ops[t])
    BY <1>1 DEF Positions
  <2>3. Asked(t)' <=> Asked(t)
    BY <1>1, HistorySame DEF Asked, Has
  <2>4. \A i : (Pending(t, i)' <=> Pending(t, i)) /\ (Accepted(i)' <=> Accepted(i))
    BY <1>1, HistorySame DEF Pending
  <2> QED
    BY <1>1, <2>1, <2>2, <2>3, <2>4 DEF Run
<1> QED
  BY <1>1, <1>2, <1>3, <1>4 DEF ExchangeInv, PlaceInv, LinesInv, HeardInv, RunInv

\* The place of a task, whatever the parser does to the line.
LEMMA ParserPlace ==
  ASSUME Reachable, ExchangeInv, InParser, NEW t \in Tasks, drvLock = t,
         resp'[Own(t)].line_num = resp[Own(t)].line_num,
         ~Expecting(t) => Calm',
         pc[t] \in {"idle", "lock", "prepare"} => clientResp' = None /\ ppc' = "read"
  PROVE  Place(t)'
<1>1. /\ UNCHANGED <<pc, call, result, lineNum, op, pos, running, failed>>
      /\ AtItem(t)' <=> AtItem(t)
      /\ DataSent(t)' <=> DataSent(t)
      /\ Expecting(t)' <=> Expecting(t)
      /\ NotYet(t)' <=> NotYet(t)
  BY ParserFrame
<1>2. Place(t)
  BY HolderParts
<1>3. resp'[(Own(t))'].line_num = resp[Own(t)].line_num
  BY DEF Own
<1> QED
  BY <1>1, <1>2, <1>3 DEF Place

\* Removing the first line.
LEMMA TailLines ==
  ASSUME Reachable, rx # <<>>, rx' = Tail(rx)
  PROVE  /\ 1 \in DOMAIN rx /\ Head(rx) = rx[1]
         /\ \A i \in DOMAIN rx' : rx'[i] = rx[i + 1] /\ i + 1 \in DOMAIN rx /\ i \in Nat
                                  /\ 1 < i + 1
BY Lengths

LEMMA LineGone ==
  ASSUME Reachable, ExchangeInv, InParser, rx # <<>>, rx' = Tail(rx), ppc = "read",
         ppc' = "read", ~partial', UNCHANGED <<clientResp, respStatus, sem, resp>>
  PROVE  ExchangeInv'
<1>1. /\ UNCHANGED <<written, given, tx, pc, call, result>>
      /\ UNCHANGED <<drvLock, lineNum, op, pos, running, failed, outcome, ops>>
  BY ParserFrame
<1>2. \A i \in DOMAIN rx' : rx'[i] = rx[i + 1] /\ i + 1 \in DOMAIN rx /\ i \in Nat
  BY TailLines
<1>3. NoReply => NoReply'
  BY <1>2 DEF NoReply, IsReplyLine
<1>4. Calm => Calm'
  BY <1>1, <1>3, HistorySame DEF Calm
<1>5. WireInv'
  <2>1. WireInv
    BY DEF ExchangeInv
  <2>2. \A i, j \in DOMAIN rx' : i < j => i + 1 < j + 1
    BY <1>2
  <2>3. (\A i, j \in DOMAIN rx :
          i < j /\ IsReplyLine(rx[i]) /\ IsReplyLine(rx[j]) => Both(rx[i], rx[j]))'
    BY <1>1, <1>2, <2>1, <2>2, HistorySame DEF WireInv, IsReplyLine
  <2>4. (\A i \in DOMAIN rx : IsReplyLine(rx[i]) => OfSource(rx[i]))'
    BY <1>1, <1>2, <2>1, HistorySame DEF WireInv, IsReplyLine
  <2>5. (\A i \in DOMAIN written : Unserved(i) => written[i].pos = 5 \/ i = Source)'
    BY <1>1, <2>1, HistorySame DEF WireInv
  <2> QED
    BY <2>3, <2>4, <2>5 DEF WireInv
<1>6. FreeInv'
  BY <1>1, <1>4 DEF ExchangeInv, FreeInv
<1>7. ASSUME NEW t \in Tasks, drvLock = t
      PROVE  Place(t)' /\ LinesOf(t)' /\ Heard(t)'
  <2>1. Place(t) /\ LinesOf(t) /\ Heard(t)
    BY <1>7, HolderParts
  <2>2. Place(t)'
    BY <1>4, <1>7, <2>1, ParserPlace DEF Place
  <2>3. LinesOf(t)'
    <3>1. resp'[(Own(t))'] = resp[Own(t)]
      BY DEF Own
    <3>2. DataSent(t)' <=> DataSent(t)
      BY ParserFrame
    <3> QED
      BY <1>1, <1>2, <2>1, <3>1, <3>2, HistorySame DEF LinesOf, IsReplyLine
  <2>4. Heard(t)'
    <3>1. /\ Replied(TRUE)' <=> Replied(TRUE)
          /\ AtItem(t)' <=> AtItem(t)
          /\ DataSent(t)' <=> DataSent(t)
      BY <1>1, HistorySame, ParserFrame
    <3>2. Replied(respStatus = "ok") => Replied(respStatus = "ok")'
      BY <1>1, HistorySame DEF Replied
    <3> HIDE DEF Replied, AtItem, DataSent, NoReply
    <3> QED
      BY <1>1, <1>3, <2>1, <3>1, <3>2 DEF Heard
  <2> QED
    BY <2>2, <2>3, <2>4
<1> QED
  BY <1>5, <1>6, <1>7, ParserRest

\* A '>' comes only while it is the end sign.
LEMMA PromptIsSign ==
  ASSUME PromptModem, Reachable, ExchangeInv, ppc = "read", NEW i \in DOMAIN rx,
         rx[i].kind = "prompt"
  PROVE  endSign
<1>1. IsReplyLine(rx[i]) /\ ItemInv /\ WireInv /\ FreeInv /\ PlaceInv
  BY DEF IsReplyLine, UrcKinds, ExchangeInv
<1>2. Source \in DOMAIN given /\ Has(given[Source], "prompt")
  BY <1>1 DEF WireInv, OfSource
<1>3. /\ written # <<>> /\ given[Source] \in PossibleAnswers
      /\ given[Source] = <<"prompt">> =>
           written[Source].op = "publish" /\ written[Source].pos = 2
  BY <1>1, <1>2, SourceAnswer
<1>4. given[Source] = <<"prompt">>
  BY <1>2, <1>3, AnswerShapes
<1>5. ~Calm
  BY <1>1 DEF Calm, NoReply
<1>6. PICK t \in Tasks : drvLock = t /\ Expecting(t)
  BY <1>1, <1>5, ExpectedOrCalm
<1>7. op[t] = "publish" /\ pos[t] = 2
  BY <1>1, <1>3, <1>4, <1>6, SourceStep
<1> QED
  BY <1>6, <1>7 DEF Reachable, DrvInv, SettingsInv, SignAt

LEMMA ReadingStep ==
  ASSUME PromptModem, Reachable, ExchangeInv, InParser,
         ReadPartial \/ ReadUrc \/ ReadUnrecognized
  PROVE  ExchangeInv'
<1>1. rx # <<>> /\ rx' = Tail(rx) /\ ppc = "read"
      /\ UNCHANGED <<clientResp, respStatus, sem, resp>>
  BY DEF ReadPartial, ReadUrc, ReadUnrecognized, Receive, clientVars
<1>2. 1 \in DOMAIN rx /\ Head(rx) = rx[1]
  BY <1>1, TailLines
<1>3. ~ReadPartial
  BY <1>1, <1>2, PromptIsSign DEF ReadPartial, EndsLine
<1>4. ~partial' /\ ppc' = "read"
  <2>1. ppc' \in {"read", "store", "clear", "notify"}
    BY ParserFrame
  <2> QED
    BY <1>1, <1>3, <2>1 DEF ReadUrc, ReadUnrecognized
<1> QED
  BY <1>1, <1>4, LineGone

\* A line of the answer, and somebody's response to store it in.
LEMMA ResponseStep ==
  ASSUME Reachable, ExchangeInv, InParser, ReadResponse
  PROVE  ExchangeInv'
<1>1. /\ rx # <<>> /\ rx' = Tail(rx) /\ ppc = "read" /\ ppc' = "store" /\ ~partial'
      /\ Incoming.kind \notin UrcKinds /\ clientResp # None
      /\ pline' = Incoming /\ presp' = clientResp
      /\ UNCHANGED <<clientResp, respStatus, sem, resp>>
  BY DEF ReadResponse, Receive, clientVars
<1>2. /\ UNCHANGED <<written, given, tx, pc, call, result>>
      /\ UNCHANGED <<drvLock, lineNum, op, pos, running, failed, outcome, ops>>
  BY ParserFrame
<1>3. /\ 1 \in DOMAIN rx /\ Head(rx) = rx[1]
      /\ \A i \in DOMAIN rx' : rx'[i] = rx[i + 1] /\ i + 1 \in DOMAIN rx /\ i \in Nat
                               /\ 1 < i + 1
  BY <1>1, TailLines
<1>4. WireInv /\ FreeInv /\ PlaceInv
  BY DEF ExchangeInv
<1>5. pline' = rx[1] /\ IsReplyLine(rx[1])
  <2>1. Incoming = Head(rx)
    BY <1>4 DEF WireInv, Incoming, Glue
  <2> QED
    BY <1>1, <1>3, <2>1 DEF IsReplyLine
<1>6. PICK t \in Tasks : drvLock = t /\ Expecting(t) /\ Place(t)
  <2>1. ~Calm
    BY <1>3, <1>5 DEF Calm, NoReply
  <2> QED
    BY <1>4, <2>1, ExpectedOrCalm
<1>7. WireInv'
  <2>1. OfSource(rx[1])
    BY <1>3, <1>4, <1>5 DEF WireInv
  <2>2. \A i \in DOMAIN rx' : IsReplyLine(rx'[i]) => Both(rx[1], rx'[i])
    BY <1>3, <1>4, <1>5 DEF WireInv
  <2>3. \A i, j \in DOMAIN rx' : i < j => i + 1 < j + 1
    BY <1>3
  <2>4. (\A i, j \in DOMAIN rx :
          i < j /\ IsReplyLine(rx[i]) /\ IsReplyLine(rx[j]) => Both(rx[i], rx[j]))'
    BY <1>2, <1>3, <1>4, <2>3, HistorySame DEF WireInv, IsReplyLine
  <2>5. (\A i \in DOMAIN rx : IsReplyLine(rx[i]) => OfSource(rx[i]))'
    BY <1>2, <1>3, <1>4, HistorySame DEF WireInv, IsReplyLine
  <2>6. (\A i \in DOMAIN written : Unserved(i) => written[i].pos = 5 \/ i = Source)'
    BY <1>2, <1>4, HistorySame DEF WireInv
  <2>7. (presp = clientResp /\ IsReplyLine(pline) /\ OfSource(pline)
         /\ \A i \in DOMAIN rx : IsReplyLine(rx[i]) => Both(pline, rx[i]))'
    BY <1>1, <1>2, <1>5, <2>1, <2>2, HistorySame DEF IsReplyLine
  <2> QED
    BY <1>1, <2>4, <2>5, <2>6, <2>7 DEF WireInv
<1>8. FreeInv'
  BY <1>2, <1>6, ConstantsOK DEF FreeInv
<1>9. ASSUME NEW u \in Tasks, drvLock = u
      PROVE  Place(u)' /\ LinesOf(u)' /\ Heard(u)'
  <2>1. u = t /\ LinesOf(t) /\ Heard(t)
    BY <1>6, <1>9, HolderParts
  <2>2. Place(t)'
    BY <1>1, <1>6, ParserPlace DEF Place
  <2>3. LinesOf(t)'
    <3>1. resp'[(Own(t))'] = resp[Own(t)]
      BY <1>1 DEF Own
    <3>2. DataSent(t)' <=> DataSent(t)
      BY ParserFrame
    <3> QED
      BY <1>1, <1>2, <1>3, <1>5, <2>1, <3>1, <3>2, HistorySame DEF LinesOf, IsReplyLine
  <2>4. Heard(t)'
    <3>1. /\ Replied(TRUE)' <=> Replied(TRUE)
          /\ AtItem(t)' <=> AtItem(t)
      BY <1>2, HistorySame, ParserFrame
    <3>2. ~NoReply
      BY <1>3, <1>5 DEF NoReply
    <3>3. running[t] /\ call[t] \in {"exec", "wait_connect"} =>
            ~(sem = 1 /\ pc[t] \in {"write", "wait"})
      BY <2>1, <3>2 DEF Heard
    <3> HIDE DEF Replied, AtItem
    <3> QED
      BY <1>1, <1>2, <2>1, <3>1, <3>3 DEF Heard
  <2> QED
    BY <2>1, <2>2, <2>3, <2>4
<1> QED
  BY <1>7, <1>8, <1>9, ParserRest

\* While the parser has a line or a result for a call, that call waits, or has
\* sent the data in the step before.
LEMMA BusyHolder ==
  ASSUME Reachable, ExchangeInv, ppc # "read"
  PROVE  \E t \in Tasks :
           /\ drvLock = t /\ Expecting(t) /\ Place(t) /\ LinesOf(t) /\ Heard(t)
           /\ pc[t] \notin {"idle", "lock", "prepare"}
           /\ running[t] /\ call[t] \in {"exec", "wait_connect"} =>
                pc[t] \in {"reset", "write", "wait"} /\ ~(sem = 1 /\ pc[t] # "reset")
<1>1. FreeInv /\ PlaceInv /\ ~Calm
  BY DEF ExchangeInv, Calm
<1>2. PICK t \in Tasks : drvLock = t /\ Expecting(t) /\ Place(t)
  BY <1>1, ExpectedOrCalm
<1>3. LinesOf(t) /\ Heard(t)
  BY <1>2, HolderParts
<1>4. pc[t] \notin {"idle", "lock", "prepare"}
  BY <1>2 DEF Place
<1>5. ASSUME running[t], call[t] \in {"exec", "wait_connect"}
      PROVE  pc[t] \in {"reset", "write", "wait"}
  <2>1. pc[t] \in PcLabels
    BY DEF Reachable, DrvInv, IInv, TypeInv, TypeOK
  <2>2. pc[t] \notin {"reset", "write", "wait"} => AtItem(t) \/ call[t] = "wait_connect"
    BY <1>2, <1>4, <1>5, <2>1 DEF Place, PcLabels
  <2>3. pc[t] \notin {"reset", "write", "wait"} => ~DataSent(t)
    BY <1>1, <1>5, <2>2, WroteItsOwn
  <2> QED
    BY <1>2, <2>3 DEF Expecting
<1>6. running[t] /\ call[t] \in {"exec", "wait_connect"} =>
        ~(sem = 1 /\ pc[t] \in {"write", "wait"})
  BY <1>3 DEF Heard
<1> QED
  BY <1>2, <1>3, <1>4, <1>5, <1>6

\* The result of the response is passed on.
LEMMA ResultStep ==
  ASSUME Reachable, ExchangeInv, InParser, ClearResp \/ Notify
  PROVE  ExchangeInv'
<1>1. /\ \/ ppc = "clear" /\ ppc' = "notify" /\ clientResp' = None /\ sem' = sem
         \/ ppc = "notify" /\ ppc' = "read" /\ clientResp' = clientResp /\ sem' = 1
      /\ UNCHANGED <<respStatus, resp, rx, partial, pline, presp>>
  BY DEF ClearResp, Notify
<1>2. /\ UNCHANGED <<written, given, tx, pc, call, result>>
      /\ UNCHANGED <<drvLock, lineNum, op, pos, running, failed, outcome, ops>>
  BY ParserFrame
<1>3. WireInv
  BY DEF ExchangeInv
<1>4. PICK t \in Tasks :
        /\ drvLock = t /\ Expecting(t) /\ Place(t) /\ LinesOf(t) /\ Heard(t)
        /\ pc[t] \notin {"idle", "lock", "prepare"}
        /\ running[t] /\ call[t] \in {"exec", "wait_connect"} =>
             pc[t] \in {"reset", "write", "wait"} /\ ~(sem = 1 /\ pc[t] # "reset")
  BY <1>1, BusyHolder
<1>5. NoReply /\ Replied(respStatus = "ok")
  BY <1>1, <1>3 DEF WireInv
<1>6. NoReply' /\ Replied(respStatus = "ok")'
  BY <1>1, <1>2, <1>5, HistorySame DEF NoReply, IsReplyLine, Replied
<1>7. WireInv'
  <2>1. (\A i \in DOMAIN written : Unserved(i) => written[i].pos = 5 \/ i = Source)'
    BY <1>2, <1>3, HistorySame DEF WireInv
  <2>2. ~partial' /\ ppc' # "store" /\ \A i \in DOMAIN rx' : ~IsReplyLine(rx'[i])
    BY <1>1, <1>3, <1>6 DEF WireInv, NoReply
  <2>3. (\A i \in DOMAIN rx : IsReplyLine(rx[i]) => OfSource(rx[i]))'
        /\ (\A i, j \in DOMAIN rx :
              i < j /\ IsReplyLine(rx[i]) /\ IsReplyLine(rx[j]) => Both(rx[i], rx[j]))'
    BY <2>2 DEF IsReplyLine
  <2> HIDE DEF Replied
  <2> QED
    BY <1>6, <2>1, <2>2, <2>3 DEF WireInv
<1>8. FreeInv'
  BY <1>2, <1>4, ConstantsOK DEF FreeInv
<1>9. ASSUME NEW u \in Tasks, drvLock = u
      PROVE  Place(u)' /\ LinesOf(u)' /\ Heard(u)'
  <2>1. u = t
    BY <1>4, <1>9
  <2>2. Place(t)'
    BY <1>1, <1>4, ParserPlace
  <2>3. LinesOf(t)'
    <3>1. resp'[(Own(t))'] = resp[Own(t)]
      BY <1>1 DEF Own
    <3>2. DataSent(t)' <=> DataSent(t)
      BY ParserFrame
    <3>3. ppc' # "store"
      BY <1>1
    <3> QED
      BY <1>1, <1>2, <1>4, <3>1, <3>2, <3>3, HistorySame DEF LinesOf, IsReplyLine
  <2>4. Heard(t)'
    <3>1. sem' = 1 /\ pc'[t] \in {"write", "wait"} /\ running[t]
          /\ call[t] \in {"exec", "wait_connect"} => ppc' = "read"
      BY <1>1, <1>2, <1>4
    <3>2. pc'[t] = "write" => DataSent(t)'
      BY <1>2, <1>4, ParserFrame DEF Expecting
    <3>3. running[t] /\ call[t] \in {"exec", "wait_connect"} =>
            pc'[t] \in {"reset", "write", "wait"}
      BY <1>2, <1>4
    <3> HIDE DEF Replied, AtItem, DataSent, NoReply
    <3> QED
      BY <1>2, <1>6, <3>1, <3>2, <3>3 DEF Heard
  <2> QED
    BY <2>1, <2>2, <2>3, <2>4
<1> QED
  BY <1>7, <1>8, <1>9, ParserRest

LEMMA StoredLines ==
  ASSUME NEW r \in Responses, NEW l \in Lines
  PROVE  /\ Stored(r, l).line_num = r.line_num
         /\ Stored(r, l).lines = r.lines \/ Stored(r, l).lines = Append(r.lines, l)
<1>1. CASE Fits(r, l)
  <2>1. Stored(r, l) = [r EXCEPT !.lines = Append(r.lines, l), !.len = r.len + Size(l.kind)]
    BY <1>1 DEF Stored
  <2> QED
    BY <2>1 DEF Responses
<1>2. CASE ~Fits(r, l)
  BY <1>2 DEF Stored, Responses
<1> QED
  BY <1>1, <1>2

\* The response that the parser fills is the one of the task that waits.
LEMMA StoringFor ==
  ASSUME Reachable, ExchangeInv, NEW t \in Tasks, drvLock = t, ppc = "store"
  PROVE  /\ running[t] /\ presp = RespOf(t) /\ presp \in Objects
         /\ \/ call[t] = "exec" /\ presp = Own(t)
            \/ call[t] = "wait_connect" /\ presp = Tmp(t)
<1>1. presp = clientResp /\ presp \in Objects
  BY DEF ExchangeInv, WireInv, Reachable, DrvInv, IInv, TypeInv
<1>2. lock \in Tasks /\ presp = RespOf(lock)
  BY <1>1, ObjectsOK DEF Reachable, DrvInv, IInv, SlotInv
<1>3. running[lock]
  BY <1>2 DEF Reachable, DrvInv, IInv, LockInv, HolderInv, Critical
<1>4. lock = t
  BY <1>2, <1>3, AtStepFacts DEF Reachable, DrvInv, HolderInv
<1>5. call[t] \in {"exec", "send", "wait_connect"}
  BY <1>3, <1>4, CallFacts DEF ExchangeInv
<1>6. presp = RespOf(t) /\ presp # None
  BY <1>1, <1>2, <1>4, ObjectsOK
<1>7. /\ call[t] = "exec" => RespOf(t) = Own(t)
      /\ call[t] = "wait_connect" => RespOf(t) = Tmp(t)
      /\ call[t] = "send" => RespOf(t) = None
  BY DEF RespOf
<1> QED
  BY <1>1, <1>3, <1>4, <1>5, <1>6, <1>7

\* An answer of two lines is the late address of request_ip, or has its OK last.
LEMMA TwoReplies ==
  ASSUME PromptModem, Reachable, ExchangeInv, NEW t \in Tasks, drvLock = t,
         Expecting(t), NEW l, NEW m, OfSource(l), Both(l, m)
  PROVE  /\ l.kind # m.kind /\ l.kind \notin {"error", "prompt"}
         /\ op[t] # "detect"
         /\ l.kind = "ok" => op[t] = "request_ip" /\ pos[t] = 2
<1>1. ItemInv /\ PlaceInv /\ Source \in DOMAIN given
  BY DEF ExchangeInv, OfSource
<1>2. /\ written # <<>> /\ Source \in DOMAIN written
      /\ given[Source] \in PossibleAnswers
      /\ given[Source] = <<"ok", "data">> =>
           written[Source].op = "request_ip" /\ written[Source].pos = 2
      /\ written[Source].op = "detect" => given[Source] \in {<<>>, <<"ok">>}
  BY <1>1, SourceAnswer
<1>3. /\ l.kind # m.kind /\ l.kind \notin {"error", "prompt"}
      /\ l.kind = "ok" => given[Source] = <<"ok", "data">>
  BY <1>2, AnswerShapes DEF Both
<1>4. given[Source] = <<"ok", "data">> => op[t] = "request_ip" /\ pos[t] = 2
  BY <1>1, <1>2, SourceStep
<1>5. op[t] # "detect"
  <2> SUFFICES ASSUME op[t] = "detect" PROVE FALSE
    OBVIOUS
  <2>1. pc[t] = "wait"
    BY DEF Expecting, DataSent
  <2>2. AtItem(t)
    BY <1>1, <2>1, WaitFacts
  <2>3. LastItem.op = "detect" /\ LastItem.pos = pos[t]
    BY <2>2, ConstantsOK DEF AtItem, Item
  <2>4. pos[t] # 5
    BY <1>1, <2>1, WaitFacts, CallFacts, StepsThatWrite
  <2>5. written[Source] = LastItem
    BY <1>1, <1>2, <2>3, <2>4, SourceFacts
  <2>6. given[Source] = <<>> \/ given[Source] = <<"ok">>
    BY <1>2, <2>3, <2>5
  <2>7. \A k, j, i : <<k, j>> # <<>> /\ <<k, j>> # <<i>>
    <3>1. \A k, j, i : Len(<<k, j>>) = 2 /\ Len(<<>>) = 0 /\ Len(<<i>>) = 1
      OBVIOUS
    <3> QED
      BY <3>1
  <2> QED
    BY <2>6, <2>7 DEF Both
<1> QED
  BY <1>3, <1>4, <1>5

\* The line that ends a response is the last of the answer.
LEMMA LastReply ==
  ASSUME PromptModem, Reachable, ExchangeInv, StoreLine, ppc' = "clear"
  PROVE  NoReply /\ Replied(respStatus' = "ok")
<1>1. ppc = "store"
  BY DEF StoreLine
<1>2. PICK t \in Tasks :
        /\ drvLock = t /\ Expecting(t) /\ Place(t) /\ LinesOf(t)
        /\ running[t] /\ call[t] \in {"exec", "wait_connect"} =>
             pc[t] \in {"reset", "write", "wait"}
  BY <1>1, BusyHolder
<1>3. /\ running[t] /\ presp \in Objects
      /\ \/ call[t] = "exec" /\ presp = Own(t)
         \/ call[t] = "wait_connect" /\ presp = Tmp(t)
  BY <1>1, <1>2, StoringFor
<1>4. /\ IsReplyLine(pline) /\ OfSource(pline)
      /\ \A i \in DOMAIN rx : IsReplyLine(rx[i]) => Both(pline, rx[i])
  BY <1>1 DEF ExchangeInv, WireInv
<1> DEFINE old == resp[presp]
           r == Stored(old, pline)
           k == pline.kind
<1>5. /\ old \in Responses /\ pline \in Lines
      /\ r.line_num = old.line_num
      /\ r.lines = old.lines \/ r.lines = Append(old.lines, pline)
      /\ old.lines \in Seq(Lines) /\ Len(old.lines) \in Nat
  <2>1. old \in Responses /\ pline \in Lines
    BY <1>3 DEF Reachable, DrvInv, IInv, TypeInv, TypeOK
  <2>2. old.lines \in Seq(Lines)
    BY <2>1 DEF Responses
  <2> QED
    BY <2>1, <2>2, StoredLines
<1>6. \/ EndsError(k) /\ respStatus' = "error"
      \/ EndsOk(k, r) /\ respStatus' = "ok"
  <2>1. \/ EndsError(k) /\ respStatus' = "error"
        \/ EndsOk(k, r) /\ respStatus' = "ok"
        \/ ppc' = "read"
    BY Zenon DEF StoreLine
  <2> HIDE DEF k, r
  <2> QED
    BY <2>1
<1>7. Replied(respStatus' = "ok")
  <2>1. PICK i \in DOMAIN given[Source] : given[Source][i] = pline.kind
    BY <1>4 DEF OfSource, Has
  <2>2. pline.kind \notin UrcKinds /\ Source \in DOMAIN given
    BY <1>4 DEF IsReplyLine, OfSource
  <2>3. respStatus' = "ok" => pline.kind # "error"
    BY <1>6 DEF EndsOk, EndsError
  <2> QED
    BY <2>1, <2>2, <2>3 DEF Replied
<1>8. ASSUME NEW j \in DOMAIN rx, IsReplyLine(rx[j]) PROVE FALSE
  <2>1. /\ Both(pline, rx[j]) /\ k \notin {"error", "prompt"} /\ op[t] # "detect"
        /\ k = "ok" => op[t] = "request_ip" /\ pos[t] = 2
    BY <1>2, <1>4, <1>8, TwoReplies
  <2>2. call[t] = "exec" /\ presp = Own(t)
    BY <1>2, <1>3, <2>1, CallFacts DEF ExchangeInv
  <2>3. old.line_num = LineNumAt(op[t], pos[t])
    BY <1>2, <1>3, <2>2 DEF Place, Reachable, DrvInv, SettingsInv
  <2>4. EndsOk(k, r)
    BY <1>6, <2>1 DEF EndsError
  <2>5. k # "ok" \/ r.line_num = 2
    BY <1>5, <2>1, <2>3 DEF LineNumAt
  <2>6. r.line_num = 2 /\ Len(r.lines) = 2
    <3>1. r.line_num \in {0, 2}
      BY <1>5, <2>3 DEF LineNumAt
    <3> HIDE DEF r, k
    <3>2. r.line_num # 0 /\ Len(r.lines) = r.line_num
      <4>1. k # "ok" \/ r.line_num # 0
        BY <2>5
      <4> QED
        BY <2>1, <2>4, <4>1 DEF EndsOk
    <3> QED
      BY <3>1, <3>2
  <2>7. /\ \A i \in DOMAIN old.lines : OfSource(old.lines[i])
        /\ \A i, m \in DOMAIN old.lines : i < m => Both(old.lines[i], old.lines[m])
        /\ \A i \in DOMAIN old.lines : Both(old.lines[i], pline)
    BY <1>1, <1>2, <1>3, <2>2 DEF LinesOf
  <2>8. \A a, b, c : Both(a, b) /\ Both(b, c) => a.kind = b.kind
    <3>1. \A p, q, s : <<p, q>> = <<q, s>> => p = q
      <4>1. \A p, q : <<p, q>>[1] = p
        OBVIOUS
      <4> QED
        BY <4>1
    <3> QED
      BY <3>1 DEF Both
  <2>9. CASE r.lines = Append(old.lines, pline)
    <3>1. Len(old.lines) = 1
      <4>1. \A s \in Seq(Lines), l \in Lines : Len(Append(s, l)) = Len(s) + 1
        OBVIOUS
      <4>2. Len(r.lines) = Len(old.lines) + 1
        BY <1>5, <2>9, <4>1
      <4>3. PICK n \in Nat : n = Len(old.lines)
        BY <1>5
      <4>4. n + 1 = 2
        BY <2>6, <4>2, <4>3
      <4>5. n = 1
        BY <4>4
      <4> HIDE DEF old
      <4> QED
        BY <4>3, <4>5
    <3>2. 1 \in DOMAIN old.lines
      BY <1>5, <3>1
    <3>3. Both(old.lines[1], pline) /\ OfSource(old.lines[1])
      BY <2>7, <3>2
    <3>4. old.lines[1].kind # pline.kind
      BY <1>2, <3>3, TwoReplies
    <3> QED
      BY <2>1, <2>8, <3>3, <3>4
  <2>10. CASE r.lines = old.lines
    <3>1. Len(old.lines) = 2
      BY <2>6, <2>10
    <3>2. 1 \in DOMAIN old.lines /\ 2 \in DOMAIN old.lines
      BY <1>5, <3>1
    <3>3. Both(old.lines[1], old.lines[2]) /\ OfSource(old.lines[1])
          /\ Both(old.lines[2], pline)
      BY <2>7, <3>2
    <3>4. old.lines[1].kind # old.lines[2].kind
      BY <1>2, <3>3, TwoReplies
    <3> QED
      BY <2>8, <3>3, <3>4
  <2> QED
    BY <1>5, <2>9, <2>10
<1> QED
  BY <1>7, <1>8 DEF NoReply

\* A line is copied into the response.
LEMMA StoreStep ==
  ASSUME PromptModem, Reachable, ExchangeInv, InParser, StoreLine
  PROVE  ExchangeInv'
<1>1. /\ ppc = "store" /\ ppc' \in {"clear", "read"}
      /\ resp' = [resp EXCEPT ![presp] = Stored(resp[presp], pline)]
      /\ UNCHANGED <<clientResp, sem, rx, partial>>
  BY DEF StoreLine
<1>2. /\ UNCHANGED <<written, given, tx, pc, call, result>>
      /\ UNCHANGED <<drvLock, lineNum, op, pos, running, failed, outcome, ops>>
  BY ParserFrame
<1>3. WireInv
  BY DEF ExchangeInv
<1>4. PICK t \in Tasks :
        /\ drvLock = t /\ Expecting(t) /\ Place(t) /\ LinesOf(t) /\ Heard(t)
        /\ pc[t] \notin {"idle", "lock", "prepare"}
        /\ running[t] /\ call[t] \in {"exec", "wait_connect"} =>
             pc[t] \in {"reset", "write", "wait"} /\ ~(sem = 1 /\ pc[t] # "reset")
  BY <1>1, BusyHolder
<1>5. /\ running[t] /\ presp \in Objects
      /\ \/ call[t] = "exec" /\ presp = Own(t)
         \/ call[t] = "wait_connect" /\ presp = Tmp(t)
  BY <1>1, <1>4, StoringFor
<1>6. /\ resp \in [Objects -> Responses] /\ pline \in Lines
      /\ Own(t) \in Objects /\ resp[Own(t)] \in Responses
      /\ resp[Own(t)].lines \in Seq(Lines)
  <2>1. resp \in [Objects -> Responses] /\ pline \in Lines
    BY DEF Reachable, DrvInv, IInv, TypeInv, TypeOK
  <2>2. resp[Own(t)] \in Responses
    BY <2>1, ObjectsOfTask
  <2>3. resp[Own(t)].lines \in Seq(Lines)
    BY <2>2 DEF Responses
  <2> QED
    BY <2>1, <2>2, <2>3, ObjectsOfTask
<1>7. /\ resp'[Own(t)].line_num = resp[Own(t)].line_num
      /\ \/ resp'[Own(t)].lines = resp[Own(t)].lines
         \/ resp'[Own(t)].lines = Append(resp[Own(t)].lines, pline)
  BY <1>1, <1>5, <1>6, StoredLines
<1>8. ppc' = "clear" => NoReply /\ Replied(respStatus' = "ok")
  BY LastReply
<1>9. WireInv'
  <2>1. (\A i \in DOMAIN written : Unserved(i) => written[i].pos = 5 \/ i = Source)'
    BY <1>2, <1>3, HistorySame DEF WireInv
  <2>2. (\A i \in DOMAIN rx : IsReplyLine(rx[i]) => OfSource(rx[i]))'
        /\ (\A i, j \in DOMAIN rx :
              i < j /\ IsReplyLine(rx[i]) /\ IsReplyLine(rx[j]) => Both(rx[i], rx[j]))'
    BY <1>1, <1>2, <1>3, HistorySame DEF WireInv, IsReplyLine
  <2>3. ~partial' /\ ppc' # "store" /\ ppc' # "notify"
    BY <1>1, <1>3 DEF WireInv
  <2>4. ppc' = "clear" => NoReply' /\ Replied(respStatus = "ok")'
    BY <1>1, <1>2, <1>8, HistorySame DEF NoReply, IsReplyLine, Replied
  <2> HIDE DEF Replied, NoReply
  <2> QED
    BY <2>1, <2>2, <2>3, <2>4 DEF WireInv
<1>10. FreeInv'
  BY <1>2, <1>4, ConstantsOK DEF FreeInv
<1>11. ASSUME NEW u \in Tasks, drvLock = u
       PROVE  Place(u)' /\ LinesOf(u)' /\ Heard(u)'
  <2>1. u = t
    BY <1>4, <1>11
  <2>2. Place(t)'
    BY <1>4, <1>7, ParserPlace
  <2>3. LinesOf(t)'
    <3> SUFFICES ASSUME call[t] = "exec" PROVE LinesOf(t)'
      BY <1>2 DEF LinesOf
    <3> DEFINE old == resp[Own(t)].lines
               new == resp'[Own(t)].lines
    <3>1. /\ \A i \in DOMAIN old : OfSource(old[i])
          /\ \A i, j \in DOMAIN old : i < j => Both(old[i], old[j])
          /\ \A i \in DOMAIN old : Both(old[i], pline)
          /\ \A i \in DOMAIN old, j \in DOMAIN rx :
               IsReplyLine(rx[j]) => Both(old[i], rx[j])
      BY <1>1, <1>4, <1>5 DEF LinesOf
    <3>2. /\ OfSource(pline)
          /\ \A j \in DOMAIN rx : IsReplyLine(rx[j]) => Both(pline, rx[j])
      BY <1>1, <1>3 DEF WireInv
    <3>3. old \in Seq(Lines) /\ (new = old \/ new = Append(old, pline))
      BY <1>6, <1>7
    <3> HIDE DEF old, new
    <3>4. /\ \A i \in DOMAIN new : OfSource(new[i])
          /\ \A i, j \in DOMAIN new : i < j => Both(new[i], new[j])
          /\ \A i \in DOMAIN new, j \in DOMAIN rx :
               IsReplyLine(rx[j]) => Both(new[i], rx[j])
      <4>1. CASE new = old
        BY <3>1, <4>1
      <4>2. CASE new = Append(old, pline)
        <5>1. PICK n \in Nat : n = Len(old)
          BY <3>3
        <5>2. /\ DOMAIN new = 1 .. n + 1 /\ DOMAIN old = 1 .. n /\ new[n + 1] = pline
              /\ \A i \in 1 .. n : new[i] = old[i]
          BY <3>3, <4>2, <5>1
        <5>3. \A i \in DOMAIN new : i = n + 1 \/ (i \in DOMAIN old /\ new[i] = old[i])
          BY <5>2
        <5>4. \A i, j \in DOMAIN new : i < j => i \in DOMAIN old
          BY <5>2
        <5>5. \A i, j \in DOMAIN new : i < j => Both(new[i], new[j])
          <6> SUFFICES ASSUME NEW i \in DOMAIN new, NEW j \in DOMAIN new, i < j
                       PROVE  Both(new[i], new[j])
            OBVIOUS
          <6>1. i \in DOMAIN old /\ new[i] = old[i]
            BY <5>2, <5>4
          <6>2. CASE j = n + 1
            BY <3>1, <5>2, <6>1, <6>2
          <6>3. CASE j # n + 1
            <7>1. j \in DOMAIN old /\ new[j] = old[j]
              BY <5>3, <6>3
            <7> QED
              BY <3>1, <6>1, <7>1
          <6> QED
            BY <6>2, <6>3
        <5> QED
          BY <3>1, <3>2, <5>2, <5>3, <5>5
      <4> QED
        BY <3>3, <4>1, <4>2
    <3>5. resp'[(Own(t))'].lines = new
      BY DEF Own, new
    <3>6. pc'[t] = pc[t] /\ (DataSent(t)' <=> DataSent(t)) /\ ppc' # "store" /\ rx' = rx
      BY <1>1, <1>2, ParserFrame
    <3>7. pc[t] \in {"reset", "write"} => DataSent(t)
      BY <1>4 DEF Expecting
    <3> QED
      BY <1>2, <3>4, <3>5, <3>6, <3>7, HistorySame DEF LinesOf, IsReplyLine
  <2>4. Heard(t)'
    <3>1. running[t] /\ call[t] \in {"exec", "wait_connect"}
          => pc'[t] \in {"reset", "write", "wait"} /\ ~(sem' = 1 /\ pc'[t] # "reset")
      BY <1>1, <1>2, <1>4
    <3> QED
      BY <1>2, <3>1 DEF Heard
  <2> QED
    BY <2>1, <2>2, <2>3, <2>4
<1> QED
  BY <1>9, <1>10, <1>11, ParserRest

LEMMA ParserKeeps ==
  ASSUME PromptModem, Reachable, ExchangeInv, InParser
  PROVE  ExchangeInv'
BY ParserFrame, ReadingStep, ResponseStep, StoreStep, ResultStep

-----------------------------------------------------------------------------
(* The steps of the modem *)

modemSame == UNCHANGED <<opVars, written, clientVars, taskVars, parserVars>>

LEMMA ModemFrame ==
  ASSUME Reachable, ExchangeInv, modemSame, NEW t \in Tasks, drvLock = t,
         \A i \in DOMAIN given : i \in DOMAIN given' /\ given'[i] = given[i]
  PROVE  /\ (Calm => Calm') \/ Expecting(t) => Place(t)'
         /\ Run(t)'
         /\ AtItem(t)' <=> AtItem(t)
         /\ DataSent(t)' <=> DataSent(t)
<1>1. /\ UNCHANGED <<written, clientResp, respStatus, sem, resp, pc, call, result>>
      /\ UNCHANGED <<drvLock, lineNum, op, pos, running, failed, outcome, ops>>
      /\ UNCHANGED <<ppc, pline, presp, partial>>
  BY DEF modemSame, opVars, clientVars, taskVars, parserVars
<1>2. Place(t) /\ Run(t)
  BY HolderParts
<1>3. /\ AtItem(t)' <=> AtItem(t)
      /\ DataSent(t)' <=> DataSent(t)
      /\ Expecting(t)' <=> Expecting(t)
      /\ NotYet(t)' <=> NotYet(t)
      /\ Positions(t, ops[t])' = Positions(t, ops[t])
  BY <1>1, ItemSame DEF Expecting, NotYet
<1>4. ASSUME (Calm => Calm') \/ Expecting(t) PROVE Place(t)'
  <2>1. (Own(t))' = Own(t)
    BY DEF Own
  <2>2. ~Expecting(t) => Calm'
    BY <1>2, <1>4 DEF Place
  <2> QED
    BY <1>1, <1>2, <1>3, <2>1, <2>2 DEF Place
<1>5. /\ LastItem' = LastItem
      /\ \A i : Pending(t, i)' <=> Pending(t, i)
      /\ \A i : Accepted(i) => Accepted(i)'
      /\ Asked(t) => Asked(t)'
  <2>1. LastItem' = LastItem
    BY <1>1 DEF LastItem
  <2>2. \A i : Accepted(i) => Accepted(i)'
    BY <1>1 DEF Accepted, Answering, Has
  <2>3. Asked(t) => Asked(t)'
    BY <1>1, <2>1 DEF Asked, Has
  <2> QED
    BY <1>1, <2>1, <2>2, <2>3 DEF Pending
<1>6. Run(t)'
  BY <1>1, <1>2, <1>3, <1>5 DEF Run
<1> QED
  BY <1>3, <1>4, <1>6

LEMMA ModemDone ==
  ASSUME ExchangeInv, modemSame,
         \A i \in DOMAIN given : i \in DOMAIN given' /\ given'[i] = given[i]
  PROVE  DoneInv'
<1>1. UNCHANGED <<written, op, outcome, ops>>
  BY DEF modemSame, opVars
<1>2. \A i : Accepted(i) => Accepted(i)'
  BY <1>1 DEF Accepted, Answering, Has
<1>3. DataWasAskedFor'
  BY <1>1 DEF ExchangeInv, DoneInv, DataWasAskedFor, Has
<1>4. \A u \in Tasks : Positions(u, ops[u])' = Positions(u, ops[u])
  BY <1>1 DEF Positions
<1>5. TrueMeansAllAccepted'
  BY <1>1, <1>2, <1>4 DEF ExchangeInv, DoneInv, TrueMeansAllAccepted
<1> QED
  BY <1>1, <1>3, <1>5 DEF ExchangeInv, DoneInv

\* The modem adds no reply to the line, and nothing to the source's answer.
LEMMA NoNewReply ==
  ASSUME Reachable, ExchangeInv, modemSame, ItemInv',
         \A i \in DOMAIN given : i \in DOMAIN given' /\ given'[i] = given[i],
         Source \in DOMAIN given' => Source \in DOMAIN given,
         \A i \in DOMAIN rx' : IsReplyLine(rx'[i]) => i \in DOMAIN rx /\ rx'[i] = rx[i]
  PROVE  ExchangeInv'
<1>1. /\ UNCHANGED <<written, clientResp, respStatus, sem, resp, pc, call, result>>
      /\ UNCHANGED <<drvLock, running, lineNum>> /\ UNCHANGED <<ppc, pline, presp, partial>>
  BY DEF modemSame, opVars, clientVars, taskVars, parserVars
<1>2. Source' = Source
  BY <1>1 DEF Source, Answering
<1>3. NoReply => NoReply'
  BY DEF NoReply, IsReplyLine
<1>4. Calm => Calm'
  BY <1>1, <1>3 DEF Calm, Unserved
<1>5. /\ \A l : OfSource(l) => OfSource(l)'
      /\ \A l, m : OfSource(l) /\ Both(l, m) => Both(l, m)'
      /\ \A g : Replied(g)' <=> Replied(g)
  BY <1>2 DEF OfSource, Both, Replied, Has
<1>6. WireInv'
  <2>1. WireInv
    BY DEF ExchangeInv
  <2>2. (\A i \in DOMAIN rx : IsReplyLine(rx[i]) => OfSource(rx[i]))'
    BY <1>5, <2>1 DEF WireInv, IsReplyLine
  <2>3. (\A i, j \in DOMAIN rx :
           i < j /\ IsReplyLine(rx[i]) /\ IsReplyLine(rx[j]) => Both(rx[i], rx[j]))'
    BY <1>5, <2>1 DEF WireInv, IsReplyLine
  <2>4. (ppc = "store" =>
           /\ presp = clientResp /\ IsReplyLine(pline) /\ OfSource(pline)
           /\ \A i \in DOMAIN rx : IsReplyLine(rx[i]) => Both(pline, rx[i]))'
    BY <1>1, <1>5, <2>1 DEF WireInv, IsReplyLine
  <2>5. (ppc \in {"clear", "notify"} => NoReply /\ Replied(respStatus = "ok"))'
    <3>1. Replied(respStatus = "ok") => Replied(respStatus = "ok")'
      BY <1>1, <1>5 DEF Replied
    <3> HIDE DEF Replied, NoReply
    <3> QED
      BY <1>1, <1>3, <2>1, <3>1 DEF WireInv
  <2>6. (\A i \in DOMAIN written : Unserved(i) => written[i].pos = 5 \/ i = Source)'
    BY <1>1, <1>2, <2>1 DEF WireInv, Unserved
  <2> QED
    BY <1>1, <2>1, <2>2, <2>3, <2>4, <2>5, <2>6 DEF WireInv
<1>7. FreeInv'
  BY <1>1, <1>4 DEF ExchangeInv, FreeInv
<1>8. ASSUME NEW t \in Tasks, drvLock' = t
      PROVE  Place(t)' /\ LinesOf(t)' /\ Heard(t)' /\ Run(t)'
  <2>1. drvLock = t /\ LinesOf(t) /\ Heard(t)
    BY <1>1, <1>8, HolderParts
  <2>2. /\ Place(t)' /\ Run(t)'
        /\ AtItem(t)' <=> AtItem(t)
        /\ DataSent(t)' <=> DataSent(t)
    BY <1>4, <2>1, ModemFrame
  <2>3. LinesOf(t)'
    <3>1. resp'[(Own(t))'] = resp[Own(t)]
      BY <1>1 DEF Own
    <3> QED
      BY <1>1, <1>5, <2>1, <2>2, <3>1 DEF LinesOf, IsReplyLine
  <2>4. Heard(t)'
    <3>1. Replied(respStatus = "ok") => Replied(respStatus = "ok")'
      BY <1>1, <1>5 DEF Replied
    <3>2. Replied(TRUE)' <=> Replied(TRUE)
      BY <1>5
    <3> HIDE DEF Replied, NoReply, AtItem, DataSent
    <3> QED
      BY <1>1, <1>3, <2>1, <2>2, <3>1, <3>2 DEF Heard
  <2> QED
    BY <2>2, <2>3, <2>4
<1>9. DoneInv'
  BY ModemDone
<1> QED
  BY <1>6, <1>7, <1>8, <1>9 DEF ExchangeInv, PlaceInv, LinesInv, HeardInv, RunInv

\* A notification.
LEMMA ModemUrcStep ==
  ASSUME Reachable, ExchangeInv, InModemUrc
  PROVE  ExchangeInv'
<1>1. modemSame /\ given' = given /\ tx' = tx
  BY DEF InModemUrc, ModemUrc, modemSame
<1>2. PICK k \in Urcs : rx' = Append(rx, [kind |-> k, from |-> 0])
  BY DEF InModemUrc, ModemUrc
<1> DEFINE l == [kind |-> k, from |-> 0]
<1>3. l.kind \in UrcKinds /\ rx' = Append(rx, l)
  BY <1>2, ConstantsOK
<1> HIDE DEF l
<1>4. \A i \in DOMAIN rx' : rx'[i] = l \/ (i \in DOMAIN rx /\ rx'[i] = rx[i])
  BY <1>3, Lengths
<1>5. \A i \in DOMAIN rx' : IsReplyLine(rx'[i]) => i \in DOMAIN rx /\ rx'[i] = rx[i]
  BY <1>3, <1>4 DEF IsReplyLine
<1>6. ItemInv'
  <2>1. written' = written
    BY <1>1 DEF modemSame
  <2> QED
    BY <1>1, <2>1 DEF ExchangeInv, ItemInv, Expected
<1> QED
  BY <1>1, <1>5, <1>6, NoNewReply

LEMMA PairOfTwo ==
  ASSUME NEW n \in Nat, n <= 2, NEW i \in 1 .. n, NEW j \in 1 .. n, i < j
  PROVE  i = 1 /\ j = 2 /\ n = 2
<1>1. i \in Nat /\ j \in Nat /\ 1 <= i /\ j <= n
  OBVIOUS
<1> QED
  BY <1>1

\* An answer is given to the source, whose reply nobody has seen yet.
LEMMA SourceAnswered ==
  ASSUME PromptModem, Reachable, ExchangeInv, modemSame, ItemInv',
         NEW a, a \in PossibleAnswers,
         Source = Len(given) + 1, given' = Append(given, a),
         rx' = rx \o Tagged(a, Source), Source \in DOMAIN written,
         written[Source].pos # 5
  PROVE  ExchangeInv'
<1>1. /\ UNCHANGED <<written, clientResp, respStatus, sem, resp, pc, call, result>>
      /\ UNCHANGED <<drvLock, running, lineNum>> /\ UNCHANGED <<ppc, pline, presp, partial>>
  BY DEF modemSame, opVars, clientVars, taskVars, parserVars
<1>2. /\ ItemInv /\ WireInv /\ FreeInv /\ PlaceInv
  BY DEF ExchangeInv
<1>3. Source' = Source
  BY <1>1 DEF Source, Answering
<1>4. a \in Seq(Kinds) /\ Len(a) \in Nat /\ Len(a) <= 2 /\ DOMAIN a = 1 .. Len(a)
  BY AnswerShapes
<1>5. /\ Source \notin DOMAIN given /\ Source \in DOMAIN given' /\ given'[Source] = a
      /\ \A i \in DOMAIN given : i \in DOMAIN given' /\ given'[i] = given[i]
  <2> DEFINE n == Source
  <2>1. n = Len(given) + 1 /\ given' = Append(given, a)
    OBVIOUS
  <2> HIDE DEF n
  <2>2. /\ n \notin DOMAIN given /\ n \in DOMAIN given' /\ given'[n] = a
        /\ \A i \in DOMAIN given : i \in DOMAIN given' /\ given'[i] = given[i]
    BY <2>1, Lengths
  <2> QED
    BY <2>2 DEF n
\* Before: no line of the answer anywhere.
<1>6. NoReply /\ ppc = "read" /\ \A l : ~OfSource(l)
  <2>1. \A l : ~OfSource(l)
    BY <1>5 DEF OfSource
  <2>2. NoReply
    BY <1>2, <2>1 DEF WireInv, NoReply
  <2>3. \A g : ~Replied(g)
    BY <1>5 DEF Replied
  <2>4. ppc \in {"read", "store", "clear", "notify"}
    BY DEF Reachable, HandlerInv
  <2> QED
    BY <1>2, <2>1, <2>2, <2>3, <2>4 DEF WireInv
<1>7. PICK t \in Tasks : drvLock = t /\ Expecting(t)
  <2>1. Unserved(Source)
    BY <1>5 DEF Unserved
  <2>2. ~Calm
    BY <2>1 DEF Calm, Unserved
  <2> QED
    BY <1>2, <2>2, ExpectedOrCalm
<1>8. Place(t) /\ LinesOf(t) /\ Heard(t)
  BY <1>7, HolderParts
<1>9. /\ Place(t)' /\ Run(t)'
      /\ AtItem(t)' <=> AtItem(t)
      /\ DataSent(t)' <=> DataSent(t)
  BY <1>5, <1>7, ModemFrame
\* After: what came is the answer.
<1>10. \A i \in DOMAIN rx' :
         IsReplyLine(rx'[i]) =>
           /\ i - Len(rx) \in DOMAIN a /\ i \in Nat
           /\ rx'[i].kind = a[i - Len(rx)] /\ rx'[i].from = Source
  <2> DEFINE b == Tagged(a, Source)
  <2>1. DOMAIN b = DOMAIN a /\ Len(b) = Len(a)
        /\ \A i \in DOMAIN a : b[i].kind = a[i] /\ b[i].from = Source
    <3>1. DOMAIN b = DOMAIN a /\ \A i \in DOMAIN a : b[i] = [kind |-> a[i], from |-> Source]
      BY DEF Tagged
    <3>2. Len(b) = Len(a)
      BY <1>4 DEF Tagged
    <3> HIDE DEF b
    <3>3. \A i \in DOMAIN a : b[i].kind = a[i] /\ b[i].from = Source
      BY <3>1
    <3> QED
      BY <3>1, <3>2, <3>3
  <2>2. rx' = rx \o b /\ b \in Seq(Lines)
    BY <1>2, <1>4, SourceFacts, TaggedType
  <2> HIDE DEF b
  <2>3. ASSUME NEW i \in DOMAIN rx', IsReplyLine(rx'[i])
        PROVE  /\ i - Len(rx) \in DOMAIN a /\ i \in Nat
               /\ rx'[i] = b[i - Len(rx)]
    <3>1. i \in Nat /\ Len(rx) \in Nat
          /\ IF i \in DOMAIN rx THEN rx'[i] = rx[i]
             ELSE i - Len(rx) \in DOMAIN b /\ rx'[i] = b[i - Len(rx)]
      <4>1. \A s, q \in Seq(Lines) : \A k \in DOMAIN (s \o q) :
              /\ k \in Nat /\ Len(s) \in Nat
              /\ IF k \in DOMAIN s THEN (s \o q)[k] = s[k]
                 ELSE k - Len(s) \in DOMAIN q /\ (s \o q)[k] = q[k - Len(s)]
        OBVIOUS
      <4>2. rx \in Seq(Lines)
        BY Lengths
      <4> QED
        BY <2>2, <4>1, <4>2
    <3>2. i \notin DOMAIN rx
      BY <1>6, <2>3, <3>1 DEF NoReply
    <3> QED
      BY <2>1, <3>1, <3>2
  <2> QED
    BY <2>1, <2>3
<1>11. WireInv'
  <2>1. (\A i \in DOMAIN rx : IsReplyLine(rx[i]) => OfSource(rx[i]))'
    <3>1. ASSUME NEW i \in DOMAIN rx', IsReplyLine(rx'[i])
          PROVE  /\ rx'[i].from = Source' /\ Source' \in DOMAIN given'
                 /\ Has(given'[Source'], rx'[i].kind)
      BY <1>3, <1>5, <1>10, <3>1 DEF Has
    <3> QED
      BY <3>1 DEF IsReplyLine, OfSource, Has
  <2>2. (\A i, j \in DOMAIN rx :
           i < j /\ IsReplyLine(rx[i]) /\ IsReplyLine(rx[j]) => Both(rx[i], rx[j]))'
    <3>0. ASSUME NEW i \in DOMAIN rx', NEW j \in DOMAIN rx', i < j,
                 IsReplyLine(rx'[i]), IsReplyLine(rx'[j])
          PROVE  given'[Source'] = <<rx'[i].kind, rx'[j].kind>>
      <4>1. /\ i - Len(rx) \in DOMAIN a /\ i \in Nat /\ rx'[i].kind = a[i - Len(rx)]
            /\ j - Len(rx) \in DOMAIN a /\ j \in Nat /\ rx'[j].kind = a[j - Len(rx)]
        BY <1>10, <3>0
      <4>2. Len(rx) \in Nat
        BY Lengths
      <4>3. i - Len(rx) = 1 /\ j - Len(rx) = 2 /\ Len(a) = 2
        <5>1. PICK r, p, q : r = Len(rx) /\ p = i - Len(rx) /\ q = j - Len(rx)
          OBVIOUS
        <5>2. p \in 1 .. Len(a) /\ q \in 1 .. Len(a) /\ p = i - r /\ q = j - r /\ i < j
          BY <1>4, <3>0, <4>1, <5>1
        <5>3. Len(a) \in Nat /\ Len(a) <= 2 /\ r \in Nat /\ i \in Nat /\ j \in Nat
          BY <1>4, <4>1, <4>2, <5>1
        <5>4. p = 1 /\ q = 2 /\ Len(a) = 2
          <6>1. p < q
            BY <5>2, <5>3
          <6> QED
            BY <5>2, <5>3, <6>1, PairOfTwo
        <5> QED
          BY <5>1, <5>4
      <4>4. rx'[i].kind = a[1] /\ rx'[j].kind = a[2]
        BY <4>1, <4>3
      <4>5. a = <<a[1], a[2]>>
        BY <1>4, <4>3
      <4> QED
        BY <1>3, <1>5, <4>4, <4>5
    <3> HIDE DEF IsReplyLine
    <3>1. \A i, j \in DOMAIN rx' :
            i < j /\ IsReplyLine(rx'[i]) /\ IsReplyLine(rx'[j])
              => given'[Source'] = <<rx'[i].kind, rx'[j].kind>>
      BY <3>0
    <3> QED
      BY <3>1 DEF Both, IsReplyLine
  <2>3. (\A i \in DOMAIN written : Unserved(i) => written[i].pos = 5 \/ i = Source)'
    BY <1>1, <1>2, <1>3, <1>5 DEF WireInv, Unserved
  <2>4. ppc' = "read" /\ ~partial'
    BY <1>1, <1>2, <1>6 DEF WireInv
  <2> QED
    BY <2>1, <2>2, <2>3, <2>4 DEF WireInv
<1>12. LinesOf(t)'
  <2> SUFFICES ASSUME running[t], call[t] = "exec"
               PROVE  LinesOf(t)'
    BY <1>1 DEF LinesOf
  <2>1. resp'[(Own(t))'] = resp[Own(t)]
    BY <1>1 DEF Own
  <2>2. pc[t] \in {"reset", "write", "wait", "check", "finish", "idle"} =>
          DOMAIN resp[Own(t)].lines = {}
    BY <1>6, <1>8 DEF LinesOf
  <2> QED
    BY <1>1, <1>6, <1>8, <1>9, <2>1, <2>2 DEF LinesOf
<1>13. Heard(t)'
  <2>1. \A g : ~Replied(g)
    BY <1>5 DEF Replied
  <2> HIDE DEF Replied
  <2> QED
    BY <1>1, <1>8, <2>1 DEF Heard
<1>14. DoneInv'
  BY <1>5, ModemDone
<1> QED
  BY <1>1, <1>7, <1>9, <1>11, <1>12, <1>13, <1>14, OneTask

\* An answer: to the source, or the silence after the empty command.
LEMMA ModemAnswerStep ==
  ASSUME PromptModem, Reachable, ExchangeInv, InModemAnswer
  PROVE  ExchangeInv'
<1>1. modemSame /\ tx # <<>> /\ tx' = Tail(tx)
  BY DEF InModemAnswer, ModemAnswer, modemSame
<1>2. PICK a : /\ rx' = rx \o Tagged(a, Len(given) + 1)
               /\ given' = Append(given, a)
  BY DEF InModemAnswer, ModemAnswer
<1>3. written' = written
  BY <1>1 DEF modemSame
<1>4. ItemInv /\ WireInv
  BY DEF ExchangeInv
<1>5. PICK n : n = Len(given) + 1
  OBVIOUS
<1>6. /\ n \in DOMAIN written /\ n \notin DOMAIN given /\ n \in DOMAIN given'
      /\ given'[n] = a /\ Len(given') = n /\ DOMAIN given' = DOMAIN given \cup {n}
      /\ \A i \in DOMAIN given : given'[i] = given[i]
  <2>1. Len(tx) >= 1
    BY <1>1, Lengths
  <2>2. n \in DOMAIN written
    BY <1>4, <1>5, <2>1, Lengths DEF ItemInv
  <2>3. /\ n \notin DOMAIN given /\ n \in DOMAIN given' /\ given'[n] = a
        /\ Len(given') = n /\ DOMAIN given' = DOMAIN given \cup {n}
        /\ \A i \in DOMAIN given : given'[i] = given[i]
    BY <1>2, <1>5, Lengths
  <2> QED
    BY <2>2, <2>3
<1>7. a \in Expected(written[n])
  BY <1>6 DEF InModemAnswer
<1>8. /\ a \in PossibleAnswers
      /\ written[n].pos = 5 => a = <<>>
  <2>1. /\ written[n].by # Parser /\ written[n].op \in OpKinds
        /\ written[n].pos \in DOMAIN Function(written[n].op)
        /\ Doing(written[n].op, written[n].pos) \in {"exec", "send", "connect"}
    BY <1>4, <1>6 DEF ItemInv, HandlerInv, Reachable
  <2> QED
    BY <1>7, <2>1, ExpectedAnswers
<1>9. ItemInv'
  <2>1. Len(tx') = Len(tx) - 1 /\ Len(tx) \in Nat
    BY <1>1, Lengths
  <2>2. Len(written) = Len(given') + Len(tx')
    BY <1>4, <1>5, <1>6, <2>1, Lengths DEF ItemInv
  <2>3. \A i \in DOMAIN given' : given'[i] \in Expected(written[i])
    BY <1>4, <1>6, <1>7 DEF ItemInv
  <2>4. \A i \in DOMAIN written :
       /\ written[i].op \in OpKinds
       /\ written[i].pos \in DOMAIN Function(written[i].op)
       /\ Doing(written[i].op, written[i].pos) \in {"exec", "send", "connect"}
       /\ written[i].pos = 5 => i - 1 \in DOMAIN written /\ written[i - 1].pos = 4
    BY <1>4 DEF ItemInv
  <2> HIDE DEF Doing
  <2> QED
    BY <1>3, <2>2, <2>3, <2>4 DEF ItemInv, Expected, Doing
<1>10. CASE written[n].pos = 5
  <2>1. rx' = rx
    <3>1. a = <<>>
      BY <1>8, <1>10
    <3>2. Tagged(a, n) = <<>>
      BY <3>1 DEF Tagged
    <3>3. \A s \in Seq(Lines) : s \o <<>> = s
      OBVIOUS
    <3> QED
      BY <1>2, <1>5, <3>2, <3>3, Lengths
  <2>2. Source # n
    <3> SUFFICES ASSUME Source = n PROVE FALSE
      OBVIOUS
    <3>1. written # <<>>
      BY <1>6
    <3>2. LastItem.pos # 5 \/ written[Source].pos = 4
      BY <1>4, <3>1, SourceFacts
    <3> QED
      BY <1>4, <1>10, <3>1, <3>2, SourceFacts
  <2>3. Source \in DOMAIN given' => Source \in DOMAIN given
    BY <1>6, <2>2
  <2>4. \A i \in DOMAIN rx' : IsReplyLine(rx'[i]) => i \in DOMAIN rx /\ rx'[i] = rx[i]
    BY <2>1
  <2>5. \A i \in DOMAIN given : i \in DOMAIN given' /\ given'[i] = given[i]
    BY <1>6
  <2> QED
    BY <1>1, <1>9, <2>3, <2>4, <2>5, NoNewReply
<1>11. CASE written[n].pos # 5
  <2>1. n = Source
    BY <1>4, <1>6, <1>11 DEF WireInv, Unserved
  <2>2. /\ Source = Len(given) + 1 /\ Source \in DOMAIN written /\ written[Source].pos # 5
        /\ rx' = rx \o Tagged(a, Source)
    BY <1>2, <1>5, <1>6, <1>11, <2>1
  <2> QED
    BY <1>1, <1>2, <1>8, <1>9, <2>2, SourceAnswered
<1> QED
  BY <1>10, <1>11

-----------------------------------------------------------------------------
(* The theorems *)

LEMMA ExchangeInit == CommandsInit => ExchangeInv
<1> SUFFICES ASSUME CommandsInit PROVE ExchangeInv
  OBVIOUS
<1>1. /\ written = <<>> /\ given = <<>> /\ tx = <<>> /\ rx = <<>>
      /\ ppc = "read" /\ ~partial /\ drvLock = None
      /\ outcome = [t \in Tasks |-> "none"]
  BY DEF CommandsInit, Init
<1>2. DOMAIN written = {} /\ DOMAIN given = {} /\ DOMAIN rx = {}
      /\ Len(written) = Len(given) + Len(tx)
  BY <1>1
<1>3. ItemInv
  BY <1>2 DEF ItemInv
<1>4. Calm
  BY <1>1, <1>2 DEF Calm, NoReply
<1>5. WireInv
  BY <1>1, <1>2 DEF WireInv
<1>6. \A t \in Tasks : drvLock # t
  BY <1>1, ConstantsOK
<1>7. DoneInv
  BY <1>1, <1>2 DEF DoneInv, DataWasAskedFor, TrueMeansAllAccepted
<1> QED
  BY <1>3, <1>4, <1>5, <1>6, <1>7
     DEF ExchangeInv, FreeInv, PlaceInv, LinesInv, HeardInv, RunInv

LEMMA ExchangeNext ==
  ASSUME PromptModem
  PROVE  Reachable /\ ExchangeInv /\ [CommandsNext]_allVars => ExchangeInv'
<1> SUFFICES ASSUME Reachable, ExchangeInv, [CommandsNext]_allVars
             PROVE  ExchangeInv'
  OBVIOUS
<1>1. CASE \E t \in Tasks : OpStep(t) \/ \E o \in OpKinds : CallOp(t, o)
  BY <1>1, TaskKeeps, CallOpStep
<1>2. CASE InParser
  BY <1>2, ParserKeeps
<1>3. CASE InModemAnswer
  BY <1>3, ModemAnswerStep
<1>4. CASE InModemUrc
  BY <1>4, ModemUrcStep
<1>5. CASE AllDone \/ UNCHANGED allVars
  BY <1>5, StutterStep DEF AllDone
<1> QED
  BY <1>1, <1>2, <1>3, <1>4, <1>5 DEF CommandsNext

LEMMA ExchangeAlways ==
  ASSUME NoHandler, PromptModem
  PROVE  CommandsSpec => [](Reachable /\ ExchangeInv)
<1>1. CommandsInit => Reachable /\ ExchangeInv
  BY DrvInit, RowInit, HandlerInit, ExchangeInit DEF Reachable
<1>2. Reachable /\ ExchangeInv /\ [CommandsNext]_allVars => Reachable' /\ ExchangeInv'
  BY DrvNext, RowNext, HandlerNext, ExchangeNext DEF Reachable
<1> QED
  BY <1>1, <1>2, PTL DEF CommandsSpec

(* The data of a publish goes out only after the modem has asked for it in  *)
(* answer to this very publish (mc665_mqtt_publish): no prompt that came    *)
(* for another command, and no other end of the wait, lets it through.      *)
THEOREM DataSafe ==
  ASSUME NoHandler, PromptModem PROVE CommandsSpec => []DataWasAskedFor
<1>1. Reachable /\ ExchangeInv => DataWasAskedFor
  BY DEF ExchangeInv, DoneInv
<1> QED
  BY <1>1, ExchangeAlways, PTL

(* A function that returns true had every one of its commands accepted, and *)
(* its data: the reply that ended each of its waits was the one to the      *)
(* command it had written, and no failure on the way is forgotten.          *)
THEOREM TrueIsAccepted ==
  ASSUME NoHandler, PromptModem PROVE CommandsSpec => []TrueMeansAllAccepted
<1>1. Reachable /\ ExchangeInv => TrueMeansAllAccepted
  BY DEF ExchangeInv, DoneInv
<1> QED
  BY <1>1, ExchangeAlways, PTL

(* When a caller reads the one response object of the driver, the lines in  *)
(* it answer the command of the function it is in.                          *)
THEOREM ResponseSafe ==
  ASSUME NoHandler, PromptModem PROVE CommandsSpec => []SharedResponseIsOwn
<1>1. Reachable /\ ExchangeInv => SharedResponseIsOwn
  <2> SUFFICES ASSUME Reachable, ExchangeInv, NEW t \in Tasks, running[t],
                      pc[t] = "idle", call[t] = "exec", result[t] = "ok",
                      NEW i \in DOMAIN resp[Own(t)].lines
               PROVE  resp[Own(t)].lines[i].from
                        \in {Answering(j) : j \in Positions(t, ops[t])}
    BY DEF SharedResponseIsOwn
  <2>1. drvLock = t /\ Place(t) /\ LinesOf(t)
    BY CallFacts, HolderParts DEF ExchangeInv
  <2>2. written # <<>> /\ LastItem = Item(t)
    BY <2>1 DEF Place, AtItem
  <2>3. LastItem.by = t /\ LastItem.run = ops[t]
    BY <2>2, ConstantsOK DEF Item
  <2>4. Len(written) \in Positions(t, ops[t])
    BY <2>2, <2>3, DataItem
  <2>5. resp[Own(t)].lines[i].from = Source
    <3>1. OfSource(resp[Own(t)].lines[i])
      BY <2>1 DEF LinesOf
    <3> QED
      BY <3>1 DEF OfSource
  <2>6. Source = Answering(Len(written))
    BY <2>2 DEF Source
  <2> QED
    BY <2>4, <2>5, <2>6
<1> QED
  BY <1>1, ExchangeAlways, PTL
=============================================================================

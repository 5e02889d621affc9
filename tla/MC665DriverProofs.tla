------------------------- MODULE MC665DriverProofs -------------------------
(***************************************************************************)
(* For every bound on the reports and every timing of them: which reports  *)
(* of the SIM card the driver overlooks, and what its callback was told.   *)
(***************************************************************************)
EXTENDS MC665Driver, TLAPS

Started == dpc \in {"poll", "state"}

\* Before the task's first wait has ended nothing has happened to the status,
\* and the task exists exactly when mc665_init has created it.
StartInv ==
  /\ ipc = "done" <=> dpc # "none"
  /\ dpc \in {"none", "first"} => status = "wait_connected" /\ told = "none"

\* Only an event group records a report, and keeps its bit until the task takes it.
\* Before the first wait has ended a recorded report has its bit, and is masked if
\* it is an insertion that a removal will be taken after.
BitInv ==
  /\ bits # {} => heard /\ GroupExists
  /\ heard => GroupExists \/ ipc = "failed"
  /\ masked => heard
  /\ BeforeFirstWait /\ heard /\ ipc # "failed" =>
       /\ sim \in Reports /\ BitOf(sim) \in bits
       /\ masked <=> (sim = "ready" /\ "SIM_DROP" \in bits)

\* Will the driver, from the last report on, be disconnected?
Away == IF sim = "drop" THEN ~masked ELSE masked

\* After the first wait the driver's status is the one the last report asks for,
\* or the one another bit has given it in its place; and so is what the bits that
\* are set will make of it.
CardInv ==
  Started =>
    /\ bits = {} /\ heard => (status = "disconnected" <=> Away)
    /\ bits = {} /\ ~heard => status = "disconnected"
    /\ "SIM_READY" \in bits => ~Away
    /\ bits = {"SIM_DROP"} => Away

IInv == TypeOK /\ StartInv /\ BitInv /\ CardInv /\ CallbackAgreesWithStatus

-----------------------------------------------------------------------------
\* The steps of mc665_init and the stages, spelt out.
LEMMA StepNames ==
  /\ InitSteps = {"urc", "resp", "group", "mutex", "task"}
  /\ Stages = {"wait_connected", "wait_card_ready", "set_apn",
               "search_network", "wait_gprs_enable", "request_ip"}
  /\ \A i \in InitSteps :
       /\ InitAfter[i] \in InitSteps \cup {"done"}
       /\ InitAfter[i] = "done" <=> i = "task"
       /\ InitAfter[i] \in {"mutex", "task", "done"} <=>
            i \in {"group", "mutex", "task"}
  /\ \A s \in Stages : StageAfter[s] \in Stages \cup {"ready"}
  BY DEF InitSteps, InitAfter, Stages, StageAfter

LEMMA InitEstablishes == Init => IInv
<1> SUFFICES ASSUME Init PROVE IInv
  OBVIOUS
<1> USE DEF Init
<1>1. TypeOK
  <2>1. nreports \in 0 .. MaxReports
    BY DriverConstantsOK DEF DriverConstantsOK
  <2> QED  BY <2>1, StepNames DEF TypeOK
<1>2. StartInv /\ BitInv /\ CardInv /\ CallbackAgreesWithStatus
  BY DEF StartInv, BitInv, CardInv, Started, CallbackAgreesWithStatus
<1> QED  BY <1>1, <1>2 DEF IInv

\* mc665_init touches neither the status nor, unless it fails, the bits.
LEMMA InitPreserves ==
  IInv /\ (InitCreates \/ InitFails) => IInv'
<1> SUFFICES ASSUME IInv, InitCreates \/ InitFails PROVE IInv'
  OBVIOUS
<1> USE DEF IInv, TypeOK, StartInv, BitInv, CardInv, Started, simVars, GroupExists,
            GroupExists, Away, BeforeFirstWait, CallbackAgreesWithStatus
<1>1. CASE InitCreates  BY <1>1, StepNames DEF InitCreates
<1>2. CASE InitFails    BY <1>2, StepNames DEF InitFails
<1> QED  BY <1>1, <1>2

\* A report after the first wait is masked exactly if the ready bit, which wins,
\* was set before it and is not its own.
LEMMA ReportPreserves ==
  ASSUME IInv, NEW k \in Reports, SimReport(k)
  PROVE  IInv'
<1> USE DEF IInv, SimReport, CallbackAgreesWithStatus
<1>1. TypeOK'
  <2>1. nreports' \in 0 .. MaxReports
    BY DriverConstantsOK DEF TypeOK, DriverConstantsOK
  <2>2. bits' \subseteq Bits
    BY DEF TypeOK, Bits, BitOf
  <2>3. masked' \in BOOLEAN
    BY DEF MaskedBy, GroupExists
  <2> QED  BY <2>1, <2>2, <2>3 DEF TypeOK, GroupExists
<1>2. StartInv'  BY DEF StartInv
<1>3. GroupExists \/ bits = {}
  BY DEF BitInv
<1>4. BitInv'
  <2>1. CASE GroupExists
    <3>1. heard' /\ sim' = k /\ BitOf(sim') \in bits' /\ GroupExists'
      BY <2>1 DEF GroupExists
    <3>2. BeforeFirstWait' => (masked' <=> (k = "ready" /\ "SIM_DROP" \in bits'))
      BY <2>1 DEF BeforeFirstWait, MaskedBy, BitOf, Reports
    <3> QED  BY <3>1, <3>2 DEF BitInv
  <2>2. CASE ~GroupExists
    BY <1>3, <2>2 DEF BitInv
  <2> QED  BY <2>1, <2>2
<1>5. CardInv'
  <2>1. CASE Started
    <3>1. GroupExists /\ ~BeforeFirstWait
      BY <2>1 DEF TypeOK, StartInv, GroupExists, Started, BeforeFirstWait
    <3>2. /\ sim' = k /\ heard' /\ bits' = bits \cup {BitOf(k)}
          /\ masked' <=> (k = "drop" /\ "SIM_READY" \in bits)
      BY <3>1 DEF MaskedBy
    <3> QED  BY <3>2 DEF CardInv, Away, BitOf, Reports
  <2>2. CASE ~Started  BY <2>2 DEF CardInv, Started
  <2> QED  BY <2>1, <2>2
<1> QED  BY <1>1, <1>2, <1>4, <1>5

\* The driver's own steps: of two bits the ready bit decides, but in the first
\* wait, which leaves the drop bit for the next look.
LEMMA DriverPreserves ==
  IInv /\ DriverStep => IInv'
<1> SUFFICES ASSUME IInv, DriverStep PROVE IInv'
  OBVIOUS
<1> USE DEF IInv, TypeOK, StartInv, BitInv, CardInv, Started, simVars, GroupExists, Away,
            BeforeFirstWait, CallbackAgreesWithStatus
<1>1. CASE FirstWait
  <2>1. heard /\ ipc = "done" /\ told = "none" /\ sim \in Reports
        /\ (masked <=> (sim = "ready" /\ "SIM_DROP" \in bits))
        /\ BitOf(sim) \in bits
    BY <1>1 DEF FirstWait
  <2>2. status' = "wait_connected" /\ dpc' = "poll" /\ "wait_connected" \in Stages
        /\ bits' = bits \ {"SIM_READY"}
        /\ UNCHANGED <<ipc, told, sim, heard, masked, nreports>>
    BY <1>1, StepNames DEF FirstWait
  <2>3. bits' \in {{}, {"SIM_DROP"}} /\ (bits' = {} <=> "SIM_DROP" \notin bits)
    BY <2>2 DEF Bits
  <2>4. CardInv'
    BY <2>1, <2>2, <2>3 DEF BitOf, Reports
  <2> QED  BY <2>1, <2>2, <2>3, <2>4
<1>2. CASE FirstWaitTimedOut
  <2>1. ipc = "done" /\ told = "none" /\ bits \in {{}, {"SIM_DROP"}}
    BY <1>2 DEF FirstWaitTimedOut, Bits
  <2>2. heard => sim = "drop" /\ ~masked /\ bits # {}
    BY <1>2, <2>1 DEF FirstWaitTimedOut, BitOf, Reports
  <2>3. status' = "disconnected" /\ dpc' = "poll"
        /\ UNCHANGED <<ipc, bits, told, sim, heard, masked, nreports>>
    BY <1>2 DEF FirstWaitTimedOut
  <2> QED  BY <2>1, <2>2, <2>3 DEF Resting
<1>3. CASE Poll
  <2>1. bits' = {} /\ dpc' = "state" /\ ipc # "failed"
        /\ UNCHANGED <<ipc, sim, heard, masked, nreports>>
    BY <1>3 DEF Poll
  <2>2. CASE "SIM_READY" \in bits
    <3>1. heard /\ ~Away
      BY <1>3, <2>2 DEF Poll
    <3>2. status' = "wait_connected" /\ told' = told
      BY <1>3, <2>2 DEF Poll
    <3> QED  BY <1>3, <2>1, <3>1, <3>2, StepNames DEF Poll
  <2>3. CASE bits = {"SIM_DROP"}
    <3>1. heard /\ Away
      BY <1>3, <2>3 DEF Poll
    <3>2. status' = "disconnected" /\ told' = "disconnected"
      BY <1>3, <2>3 DEF Poll
    <3> QED  BY <1>3, <2>1, <3>1, <3>2 DEF Poll, Resting
  <2>4. CASE bits = {}
    BY <1>3, <2>1, <2>4 DEF Poll
  <2>5. bits \in {{}, {"SIM_DROP"}} \/ "SIM_READY" \in bits
    BY DEF Bits
  <2> QED  BY <2>2, <2>3, <2>4, <2>5
<1>4. CASE StageSucceeds      BY <1>4, StepNames DEF StageSucceeds, Resting
<1>5. CASE StageFails         BY <1>5, StepNames DEF StageFails
<1>6. CASE Rest               BY <1>6, StepNames DEF Rest
<1> QED  BY <1>1, <1>2, <1>3, <1>4, <1>5, <1>6 DEF DriverStep

\* Whenever the reports come, the invariant always holds.
THEOREM DriverInvariant == Spec => []IInv
<1>1. IInv /\ [Next]_vars => IInv'
  <2> SUFFICES ASSUME IInv, [Next]_vars PROVE IInv'
    OBVIOUS
  <2>1. CASE UNCHANGED vars
    BY <2>1 DEF vars, simVars, IInv, TypeOK, StartInv, BitInv, CardInv, Started,
                GroupExists, Away, BeforeFirstWait, CallbackAgreesWithStatus
  <2>2. CASE Next
    BY <2>1, <2>2, InitPreserves, ReportPreserves, DriverPreserves
       DEF Next, NoDriver
  <2> QED  BY <2>1, <2>2
<1> QED  BY <1>1, InitEstablishes, PTL DEF Spec

\* A driver that has taken its last report, a removal, knows that the card has
\* gone, unless the bit of an insertion was set when it came, and only then not,
THEOREM RemovalSafe == Spec => []RemovalIsNoticed
<1>1. IInv => RemovalIsNoticed
  BY DEF IInv, CardInv, Started, Away, RemovalIsNoticed, LastReportTaken
<1> QED  BY <1>1, DriverInvariant, PTL

\* and one whose last report is an insertion knows of the card, unless the bit of
\* a removal was set and the first wait had not ended.
THEOREM InsertionSafe == Spec => []InsertionIsNoticed
<1>1. IInv => InsertionIsNoticed
  BY DEF IInv, CardInv, Started, Away, InsertionIsNoticed, LastReportTaken
<1> QED  BY <1>1, DriverInvariant, PTL

\* A ready driver has told the callback, and a disconnected one has not left it
\* believing in an address.
THEOREM CallbackSafe == Spec => []CallbackAgreesWithStatus
<1>1. IInv => CallbackAgreesWithStatus
  BY DEF IInv
<1> QED  BY <1>1, DriverInvariant, PTL
=============================================================================

---------------------------- MODULE MC665Driver ----------------------------
(***************************************************************************)
(* The modem driver of components/mc665/mc665.c: mc665_init, the task that *)
(* brings the modem up stage by stage (private_mc665_task), and the URC    *)
(* handler that tells it of the SIM card (private_mc665_sim_handler),      *)
(* which runs in the parser thread.                                        *)
(*                                                                         *)
(* The two share an event group with one bit for "SIM ready" and one for   *)
(* "SIM drop": the bits keep no order and no count.  A stage is one or two *)
(* AT commands and may take a minute; here it succeeds or fails in a step. *)
(***************************************************************************)
EXTENDS Naturals

CONSTANTS
  MaxReports   \* bound: SIM reports of the modem

ASSUME DriverConstantsOK == MaxReports \in Nat

VARIABLES
  ipc,      \* mc665_init: what it creates next
  bits,     \* the bits set in obj->event
  status,   \* obj->status
  dpc,      \* the driver task
  told,     \* the last event its callback got
  sim,      \* history: the last report of the modem
  heard,    \* history: was there an event group to record it?
  masked,   \* history: will another bit be taken in its place?
  nreports  \* reports so far

simVars == <<sim, heard, masked, nreports>>
vars == <<ipc, bits, status, dpc, told, simVars>>

-----------------------------------------------------------------------------
(* Values *)

\* What mc665_init creates, in order; obj->event exists after "group".
InitAfter == [urc |-> "resp", resp |-> "group", group |-> "mutex",
              mutex |-> "task", task |-> "done"]
InitSteps == DOMAIN InitAfter
GroupExists == ipc \in {"mutex", "task", "done"}

\* MC665_SIM_READY_BIT and MC665_SIM_DROP_BIT.
Reports == {"ready", "drop"}
Bits == {"SIM_READY", "SIM_DROP"}
\* Mutant: every "+SIM" line is taken for "+SIM READY".
PrefixOnly(k) == "SIM_READY"
BitOf(k) == IF k = "ready" THEN "SIM_READY" ELSE "SIM_DROP"

\* The stages of the bring-up, in order, each with the status its success sets.
StageAfter == [wait_connected   |-> "wait_card_ready",
               wait_card_ready  |-> "set_apn",
               set_apn          |-> "search_network",
               search_network   |-> "wait_gprs_enable",
               wait_gprs_enable |-> "request_ip",
               request_ip       |-> "ready"]
Stages == DOMAIN StageAfter
Resting == {"disconnected", "ready"}

-----------------------------------------------------------------------------
Init ==
  /\ ipc = "urc" /\ bits = {} /\ status = "wait_connected" /\ dpc = "none"
  /\ told = "none" /\ sim = "none" /\ heard = FALSE /\ masked = FALSE
  /\ nreports = 0

(* mc665_init *)

InitCreates ==
  /\ ipc \in InitSteps
  /\ ipc' = InitAfter[ipc]
  /\ dpc' = IF ipc = "task" THEN "first" ELSE dpc
  /\ UNCHANGED <<bits, status, told, simVars>>

\* Whatever cannot be created, what exists is deleted; the URC table stays.
InitFails ==
  /\ ipc \in InitSteps
  /\ ipc' = "failed"
  /\ bits' = {}
  /\ UNCHANGED <<status, dpc, told, simVars>>

(* private_mc665_sim_handler, run by the parser for a report of the modem *)

\* The first wait has not ended yet; it takes the ready bit and leaves the other.
BeforeFirstWait == dpc \in {"none", "first"}

\* The other bit is set already, and the driver will act on that one after, or
\* instead of, the one of a report k.
MaskedBy(k) == IF BeforeFirstWait THEN k = "ready" /\ "SIM_DROP" \in bits
                                  ELSE k = "drop" /\ "SIM_READY" \in bits

\* The modem reports the card, at any time and as often as it likes; without an
\* event group the report is dropped.
SimReport(k) ==
  /\ nreports < MaxReports
  /\ sim' = k /\ heard' = GroupExists /\ nreports' = nreports + 1
  /\ masked' = (GroupExists /\ MaskedBy(k))
  /\ bits' = IF GroupExists THEN bits \cup {BitOf(k)} ELSE bits
  /\ UNCHANGED <<ipc, status, dpc, told>>

(* private_mc665_task *)

\* The first wait is for the ready bit alone, and clears that bit alone.
FirstWait ==
  /\ dpc = "first" /\ "SIM_READY" \in bits
  /\ bits' = bits \ {"SIM_READY"}
  /\ status' = "wait_connected"
  /\ dpc' = "poll"
  /\ UNCHANGED <<ipc, told, simVars>>

FirstWaitTimedOut ==
  /\ dpc = "first" /\ "SIM_READY" \notin bits
  /\ status' = "disconnected"
  /\ dpc' = "poll"
  /\ UNCHANGED <<ipc, bits, told, simVars>>

\* Mutant: the bring-up does not start again for a new card.
PollIgnoresReady ==
  /\ dpc = "poll"
  /\ bits' = {}
  /\ dpc' = "state"
  /\ \/ "SIM_READY" \in bits /\ UNCHANGED <<status, told>>
     \/ /\ bits = {"SIM_DROP"}
        /\ status' = "disconnected" /\ told' = "disconnected"
     \/ bits = {} /\ UNCHANGED <<status, told>>
  /\ UNCHANGED <<ipc, simVars>>

\* Mutant: the callback is not told that the card has gone.
PollTellsNobody ==
  /\ dpc = "poll"
  /\ bits' = {}
  /\ dpc' = "state"
  /\ \/ "SIM_READY" \in bits /\ status' = "wait_connected"
     \/ bits = {"SIM_DROP"} /\ status' = "disconnected"
     \/ bits = {} /\ UNCHANGED status
  /\ UNCHANGED <<ipc, told, simVars>>

\* The later waits take both bits; of the two, ready wins.
Poll ==
  /\ dpc = "poll"
  /\ bits' = {}
  /\ dpc' = "state"
  /\ \/ "SIM_READY" \in bits /\ status' = "wait_connected" /\ UNCHANGED told
     \/ /\ bits = {"SIM_DROP"}
        /\ status' = "disconnected" /\ told' = "disconnected"
     \/ bits = {} /\ UNCHANGED <<status, told>>
  /\ UNCHANGED <<ipc, simVars>>

StageSucceeds ==
  /\ dpc = "state" /\ status \in Stages
  /\ status' = StageAfter[status]
  /\ told' = IF status' = "ready" THEN "got_ip" ELSE told
  /\ dpc' = "poll"
  /\ UNCHANGED <<ipc, bits, simVars>>

\* Mutant: a stage that fails gives the modem up.
StageGivesUp ==
  /\ dpc = "state" /\ status \in Stages
  /\ status' = "disconnected"
  /\ dpc' = "poll"
  /\ UNCHANGED <<ipc, bits, told, simVars>>

\* A delay, then the same stage again.
StageFails ==
  /\ dpc = "state" /\ status \in Stages
  /\ dpc' = "poll"
  /\ UNCHANGED <<ipc, bits, status, told, simVars>>

Rest ==
  /\ dpc = "state" /\ status \in Resting
  /\ dpc' = "poll"
  /\ UNCHANGED <<ipc, bits, status, told, simVars>>

DriverStep == \/ FirstWait \/ FirstWaitTimedOut \/ Poll
              \/ StageSucceeds \/ StageFails \/ Rest

\* mc665_init has failed and there is no task.
NoDriver == ipc = "failed" /\ UNCHANGED vars

Next == \/ InitCreates \/ InitFails \/ \E k \in Reports : SimReport(k)
        \/ DriverStep \/ NoDriver

Spec == Init /\ [][Next]_vars

\* The driver task runs, and the modem does not refuse a stage for ever.
FairSpec == Spec /\ WF_vars(DriverStep) /\ SF_vars(StageSucceeds)

-----------------------------------------------------------------------------
(* Properties *)

\* Every variable has a value of its type.
TypeOK ==
  /\ ipc \in InitSteps \cup {"done", "failed"}
  /\ bits \subseteq Bits
  /\ status \in Stages \cup Resting
  /\ dpc \in {"none", "first", "poll", "state"}
  /\ told \in {"none", "got_ip", "disconnected"}
  /\ sim \in Reports \cup {"none"}
  /\ heard \in BOOLEAN /\ masked \in BOOLEAN
  /\ nreports \in 0 .. MaxReports

\* The driver has looked at every bit it was sent, the last report's included.
LastReportTaken == dpc = "state" /\ bits = {} /\ heard

\* A driver that has taken the last report, "SIM DROP", is disconnected, and does
\* not go through the stages for a card that is not there, unless the bit of an
\* insertion was set when it came: of two bits ready wins, whichever came last.
RemovalIsNoticed ==
  LastReportTaken /\ sim = "drop" => (status = "disconnected" <=> ~masked)

\* A driver that has taken the last report, "SIM READY", is not disconnected, a
\* state that only another report ends, unless the bit of a removal was set when
\* it came and the first wait, which leaves that bit, had not ended yet.
InsertionIsNoticed ==
  LastReportTaken /\ sim = "ready" => (status # "disconnected" <=> ~masked)

\* A driver that is ready has told the application of its address, and one that is
\* disconnected does not leave it believing in one.  (A driver that brings the
\* modem up again after another "SIM READY" may: the callback is not told.)
CallbackAgreesWithStatus ==
  /\ status = "ready" => told = "got_ip"
  /\ status = "disconnected" => told # "got_ip"

\* An application that was left believing in an address, by a second "SIM READY"
\* or by one that came together with a "SIM DROP", is right again in the end: the
\* driver is ready again, or has told it of the loss.
CallbackCatchesUp ==
  told = "got_ip" /\ status # "ready" ~> status = "ready" \/ told = "disconnected"

\* A card whose insertion was recorded brings the modem up, however often its
\* stages fail first, unless it is taken out again.
CardComesUp ==
  ipc = "done" /\ sim = "ready" /\ heard /\ ~masked
    ~> status = "ready" \/ sim = "drop"

=============================================================================

----------------------------- MODULE EventGroup -----------------------------
(***************************************************************************)
(* A FreeRTOS event group (external to src/, modelled from its use there): *)
(* a set of bits and the tasks that wait for any of some bits, all of them *)
(* with pdTRUE for "clear on exit" and pdFALSE for "wait for all".  A set  *)
(* bit wakes every task that waits for it and is cleared for them at once, *)
(* before the tasks run again; a bit that wakes nobody stays set.          *)
(***************************************************************************)
EXTENDS Naturals

VARIABLES
  bits,  \* the bits that are set
  want,  \* want[t]: the bits t waits for; {} when it is not blocked
  got    \* got[t]: the bits its last wait returned

groupVars == <<bits, want, got>>

InitGroup(tasks) ==
  /\ bits = {}
  /\ want = [t \in tasks |-> {}]
  /\ got = [t \in tasks |-> {}]

Waiting == {t \in DOMAIN want : want[t] # {}}

\* The tasks that a group with the bits b lets go, and what is left of b.
WokenBy(b) == {t \in Waiting : want[t] \cap b # {}}
LeftOf(b) == b \ UNION {want[t] : t \in WokenBy(b)}

\* xEventGroupSetBits
SetBits(new) ==
  LET b == bits \cup new
  IN  /\ bits' = LeftOf(b)
      /\ got' = [t \in DOMAIN got |-> IF t \in WokenBy(b) THEN b ELSE got[t]]
      /\ want' = [t \in DOMAIN want |-> IF t \in WokenBy(b) THEN {} ELSE want[t]]

\* xEventGroupWaitBits: return at once, or block until a bit or a timeout.
WaitBits(t, wanted) ==
  /\ got' = [got EXCEPT ![t] = bits \cap wanted]
  /\ IF bits \cap wanted # {}
     THEN bits' = bits \ wanted /\ UNCHANGED want
     ELSE want' = [want EXCEPT ![t] = wanted] /\ UNCHANGED bits

WaitExpires(t) ==
  /\ want' = [want EXCEPT ![t] = {}]
  /\ UNCHANGED <<bits, got>>

\* vEventGroupDelete returns 0 to every task that waits.
DeleteGroup ==
  /\ bits' = {}
  /\ want' = [t \in DOMAIN want |-> {}]
  /\ got' = [t \in DOMAIN got |-> IF t \in Waiting THEN {} ELSE got[t]]
=============================================================================

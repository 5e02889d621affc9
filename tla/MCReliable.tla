----------------------------- MODULE MCReliable -----------------------------
(* The values of core_prompt.cfg are those the theorems about
   ATClientService speak of: TLC evaluates their hypotheses. *)
EXTENDS MCATClient

ASSUME Reliable == ReliableModem
ASSUME Fitting == FittingAnswers
=============================================================================

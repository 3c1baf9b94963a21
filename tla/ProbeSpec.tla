----------------------------- MODULE ProbeSpec -----------------------------
(***************************************************************************)
(* What a protocol probe promises, in one step: the outcome of the answer  *)
(* the server gives to it, or of no answer at all.  RunScan's              *)
(* ProbeProtocol is this step.                                             *)
(***************************************************************************)
EXTENDS Probes

VARIABLES probe, answer,   \* the protocol probed, and the server's answer
          verdict          \* what the probe returned, a set of at most one

vars == <<probe, answer, verdict>>

Init == verdict = {}

Decide ==
  /\ verdict = {}
  /\ \E got \in {answer, {}} :
       \E outcome \in Outcomes(probe, got) : verdict' = {outcome}
  /\ UNCHANGED <<probe, answer>>

Safety == Init /\ [][Decide]_vars
=============================================================================

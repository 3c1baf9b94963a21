---------------------------- MODULE MCAssessment ----------------------------
(***************************************************************************)
(* Posture for TLC: all rows of the real suite table, alone and in pairs.  *)
(***************************************************************************)
EXTENDS Posture

(***************************************************************************)
(* One certificate for each defect a chain can have, each valid from 0 to  *)
(* 40 days, and the moments at which its validity is judged differently.   *)
(***************************************************************************)
Good == [names |-> {"host"}, not_before |-> 0, not_after |-> 40 * Day,
         sig |-> "ECDSA-with-SHA256", key |-> "ECDSA", spki_len |-> 91, parses |-> TRUE, anchored |-> TRUE]

MCChains ==
  {{}, {Good}, {[Good EXCEPT !.parses = FALSE]}, {[Good EXCEPT !.anchored = FALSE]},
   {[Good EXCEPT !.names = {"other"}]}, {[Good EXCEPT !.key = "Other"]}}
    \cup {{[Good EXCEPT !.sig = s]} : s \in BrokenSignatures}
    \cup {{[Good EXCEPT !.key = "RSA", !.spki_len = n]} : n \in {94, 162, 294, 422, 550}}

MCMoments == <<-1, 0, 25 * Day, 25 * Day + 1, 26 * Day, 39 * Day + 1, 40 * Day, 40 * Day + 1, 42 * Day>>
=============================================================================

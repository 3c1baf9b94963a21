---------------------------- MODULE MCCipherScan ----------------------------
(***************************************************************************)
(* CipherScan for TLC.  Four candidates and two permits: tasks queue for   *)
(* permits that others give back, and finish out of the order in which     *)
(* they are awaited.                                                       *)
(***************************************************************************)
EXTENDS CipherScan
=============================================================================

------------------------------- MODULE Probes -------------------------------
(***************************************************************************)
(* What a probe of one protocol (tls/protocol.rs) makes of the answer it   *)
(* got: a set of at most one [version, certificate], the certificate being *)
(* a set of at most one chain.                                             *)
(***************************************************************************)
EXTENDS Models

(* Mutant of IsMatch: any ServerHello is support. *)
AnyMatch(p, negotiated) == TRUE

(* The version the server negotiated must be the one probed. *)
IsMatch(p, negotiated) == negotiated = p

(***************************************************************************)
(* What probe_protocol may return when it got this answer: the chain       *)
(* counts only if it had come with the first read.                         *)
(***************************************************************************)
Outcomes(p, got) ==
  [supported : {\E a \in got : IsMatch(p, a.version)},
   certs     : {{}} \cup {a.certificate : a \in got}]

(* The chain in a response: certificates_der if there are any. *)
Certs(response) == IF response.certificates = <<>> THEN {} ELSE {response.certificates}

(* A response says what the server answered, its chain perhaps excepted. *)
Says(response, a) ==
  /\ response.kind = (IF a.version = "Ssl2" THEN "ssl2" ELSE "hello")
  /\ response.version = a.version
  /\ Certs(response) \in {{}, a.certificate}

(***************************************************************************)
(* What a probe relies on in the response to what has come of an answer,   *)
(* if there is one: it is refused or says what was answered.  A response   *)
(* to all of it tells all.                                                 *)
(***************************************************************************)
Reliable(responses, answer) ==
  /\ \A r, s \in responses : r = s
  /\ \A r \in responses : r.kind = "alert" \/ \E a \in answer : Says(r, a)

Telling(responses, answer) ==
  \A a \in answer : \E r \in responses : Says(r, a) /\ Certs(r) = a.certificate

(* An error of any kind. *)
NotSupported == [supported |-> FALSE, certs |-> {}]
=============================================================================

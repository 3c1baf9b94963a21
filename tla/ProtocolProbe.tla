--------------------------- MODULE ProtocolProbe ---------------------------
(***************************************************************************)
(* One protocol probe (probe_tls and probe_ssl2, tls/protocol.rs) against  *)
(* a server that sends its flight in any pieces, stays silent, closes or   *)
(* breaks the connection.  The probe reads once into a buffer and parses   *)
(* what came with that read; probe_tls makes a second read into the rest   *)
(* of the buffer, and leaves what it gets unparsed.                        *)
(*                                                                         *)
(* What the parser makes of the beginning of a flight is a parameter, of   *)
(* which FlightsAssumption says as much as the probe relies on.  It leaves *)
(* out a hello cut over two records with whole certificates behind it: TLS *)
(* allows it, and the parser takes it for an answer of TLS 1.2.            *)
(***************************************************************************)
EXTENDS Probes

CONSTANTS
  Probed,            \* the protocols probed
  Flights,           \* what servers send: [answer, ordinary, ...]
  Length(_),         \* the bytes of a flight
  Parsed(_, _),      \* the response parsed from the first n bytes of a flight
  Capacity(_)        \* the buffer for a probe of p: 4096 bytes for SSLv2, else 8192

ASSUME FlightsAssumption ==
  \A f \in Flights :
    /\ Length(f) \in Nat
    /\ \A a, b \in f.answer : a = b
    /\ \A n \in 0..Length(f) : Reliable(Parsed(f, n), f.answer)
    /\ f.ordinary => Telling(Parsed(f, Length(f)), f.answer)

ASSUME ProbedAssumption ==
  Probed \subseteq Protocol /\ \A p \in Probed : Capacity(p) \in Nat \ {0}

VARIABLES
  probe,        \* the protocol probed
  flight,       \* what the server will send once it has the hello
  pc,
  sent,         \* bytes of the flight that have reached the client's side
  closed,       \* whether the server has closed the connection
  taken,        \* bytes read from the connection
  total_read,   \* bytes the parser will see
  verdict       \* what the probe returned, a set of at most one

peerVars == <<sent, closed>>
vars == <<probe, flight, pc, peerVars, taken, total_read, verdict>>

Smaller(a, b) == IF a <= b THEN a ELSE b

Init ==
  /\ probe \in Probed
  /\ flight \in Flights
  /\ pc = "connect"
  /\ sent = 0
  /\ closed = FALSE
  /\ taken = 0
  /\ total_read = 0
  /\ verdict = {}

-----------------------------------------------------------------------------
(* The server and the network *)

(* Some more bytes of the flight arrive. *)
Deliver ==
  /\ pc \in {"read", "read more"} /\ ~closed
  /\ sent' \in sent + 1..Length(flight)
  /\ UNCHANGED <<probe, flight, pc, closed, taken, total_read, verdict>>

Close ==
  /\ pc \in {"write", "read", "read more"} /\ ~closed
  /\ closed' = TRUE
  /\ UNCHANGED <<probe, flight, pc, sent, taken, total_read, verdict>>

-----------------------------------------------------------------------------
(* The probe *)

Connect ==
  /\ pc = "connect"
  /\ pc' = "write"
  /\ UNCHANGED <<probe, flight, peerVars, taken, total_read, verdict>>

Write ==
  /\ pc = "write"
  /\ pc' = "read"
  /\ UNCHANGED <<probe, flight, peerVars, taken, total_read, verdict>>

(* Mutant of FailIO: the read has no timeout. *)
FailIOExceptRead ==
  /\ pc \in {"connect", "write"}
  /\ pc' = "done"
  /\ verdict' = {NotSupported}
  /\ UNCHANGED <<probe, flight, peerVars, taken, total_read>>

(* Any error of the connection, or a timeout. *)
FailIO ==
  /\ pc \in {"connect", "write", "read"}
  /\ pc' = "done"
  /\ verdict' = {NotSupported}
  /\ UNCHANGED <<probe, flight, peerVars, taken, total_read>>

(* The first read takes what is there; nothing, if the server has closed. *)
Read ==
  /\ pc = "read" /\ (sent > 0 \/ closed)
  /\ total_read' = Smaller(sent, Capacity(probe))
  /\ taken' = total_read'
  /\ pc' = (IF probe # "Ssl2" /\ 0 < total_read' /\ total_read' < Capacity(probe)
              THEN "read more" ELSE "parse")
  /\ UNCHANGED <<probe, flight, peerVars, verdict>>

(* Mutant of ReadMore: the bytes are parsed, whatever comes of the read. *)
ReadMoreAndCount ==
  /\ pc = "read more"
  /\ taken' = Capacity(probe)
  /\ total_read' = taken'
  /\ pc' = "parse"
  /\ UNCHANGED <<probe, flight, peerVars, verdict>>

(***************************************************************************)
(* The second read, of at most 150 ms: it takes what has come since, or    *)
(* gives up, and its result is dropped.                                    *)
(***************************************************************************)
ReadMore ==
  /\ pc = "read more"
  /\ taken' \in {taken, Smaller(sent, Capacity(probe))}
  /\ pc' = "parse"
  /\ UNCHANGED <<probe, flight, peerVars, total_read, verdict>>

(* Mutant of VerdictOf: a ServerHello is support for the protocol probed. *)
AnyHelloIsSupport(p, response) ==
  [supported |-> response.kind # "alert", certs |-> Certs(response)]

(* Mutant of VerdictOf: the SSLv2 ServerHello is forgotten. *)
TlsVerdictOf(p, response) ==
  IF response.kind = "hello"
    THEN [supported |-> IsMatch(p, response.version), certs |-> Certs(response)]
    ELSE NotSupported

(* What a response means: an SSLv2 ServerHello only for an SSLv2 probe. *)
VerdictOf(p, response) ==
  IF response.kind = (IF p = "Ssl2" THEN "ssl2" ELSE "hello")
    THEN [supported |-> IsMatch(p, response.version), certs |-> Certs(response)]
    ELSE NotSupported

Parse ==
  /\ pc = "parse"
  /\ verdict' = (IF Parsed(flight, total_read) = {} THEN {NotSupported}
                 ELSE {VerdictOf(probe, r) : r \in Parsed(flight, total_read)})
  /\ pc' = "done"
  /\ UNCHANGED <<probe, flight, peerVars, taken, total_read>>

Terminating == pc = "done" /\ UNCHANGED vars

-----------------------------------------------------------------------------
ProbeStep == Connect \/ Write \/ FailIO \/ Read \/ ReadMore \/ Parse

Next == ProbeStep \/ Deliver \/ Close \/ Terminating

(* Every await of the probe has its timeout; nothing is asked of the server. *)
Spec == Init /\ [][Next]_vars /\ WF_vars(ProbeStep)

-----------------------------------------------------------------------------
(* Properties *)

TypeOK ==
  /\ probe \in Probed
  /\ flight \in Flights
  /\ pc \in {"connect", "write", "read", "read more", "parse", "done"}
  /\ sent \in 0..Length(flight)
  /\ closed \in BOOLEAN
  /\ total_read \in 0..Smaller(sent, Capacity(probe))
  /\ taken \in total_read..Smaller(sent, Capacity(probe))
  /\ \A v, w \in verdict : v = w
  /\ pc = "done" <=> verdict # {}

(***************************************************************************)
(* A protocol is reported only if the server negotiated that very version, *)
(* and a chain captured is the whole chain it sent (of SSLv2: all that the *)
(* parser takes for it), however the flight was cut and whatever went      *)
(* wrong.                                                                  *)
(***************************************************************************)
VerdictSound ==
  \A v \in verdict :
    /\ v.supported => \E a \in flight.answer : a.version = probe
    /\ \A chain \in v.certs : \E a \in flight.answer : chain \in a.certificate

(***************************************************************************)
(* When the first read gets the whole of an ordinary flight (no alert, no  *)
(* message cut over two records), the probe finds exactly what the server  *)
(* answered.                                                               *)
(***************************************************************************)
ExactWhenReadWhole ==
  pc = "done" /\ flight.ordinary /\ total_read = Length(flight) /\ total_read > 0 =>
    \A v \in verdict :
      /\ \A a \in flight.answer : IsMatch(probe, a.version) => v.supported /\ v.certs = a.certificate
      /\ v.supported <=> \E a \in flight.answer : IsMatch(probe, a.version)

(***************************************************************************)
(* The probe returns, even if the server never sends anything.             *)
(***************************************************************************)
Termination == <>(pc = "done")

(***************************************************************************)
(* The probe implements the one-step probe of ProbeSpec.                   *)
(***************************************************************************)
Abstract == INSTANCE ProbeSpec WITH answer <- flight.answer

ImplementsSpec == Abstract!Safety
=============================================================================

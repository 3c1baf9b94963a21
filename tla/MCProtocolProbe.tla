-------------------------- MODULE MCProtocolProbe --------------------------
(***************************************************************************)
(* ProtocolProbe for TLC.  The parser is what Responses promises of it.    *)
(* The buffer is scaled down, to six bytes for a flight of up to eight, so *)
(* that a flight may be shorter than it, fill it or overflow it.           *)
(***************************************************************************)
EXTENDS ProtocolProbe, ClientHello, CipherSuites, FiniteSets

CONSTANT NameLengths     \* of the server names a hello carries

(* A name leaves room in the record for the rest of the hello. *)
ASSUME NameLengthsAssumption == NameLengths \subseteq 0..16000

R == INSTANCE Responses

Chain == <<"leaf", "issuer">>

Handshake(size, messages) == [type |-> "handshake", size |-> size, messages |-> messages]
AlertRecord  == [type |-> "alert", size |-> 1, messages |-> <<>>]
Other        == [kind |-> "other"]
Certificate  == [kind |-> "certificate", chain |-> Chain]
HelloOf(v)   == [kind |-> "hello", version |-> v, suite |-> 47]
OtherRecord(size) == [type |-> "other", size |-> size, messages |-> <<Other>>]

(* A flight of TLS records, and what a server that sends it means. *)
Flight(records, answer, ordinary) ==
  [ssl2 |-> FALSE, records |-> records, answer |-> answer, ordinary |-> ordinary]

Negotiated(v, chains) == {[version |-> v, certificate |-> chains]}

(* What the parser takes for the certificate of an SSLv2 hello is not it (Wire). *)
Ssl2Hello == [size |-> 5, head |-> 2, cert_len |-> 2, chain |-> <<"misread">>]

MCFlights ==
  {Flight(<<>>, {}, TRUE),
   Flight(<<AlertRecord>>, {}, TRUE),
   Flight(<<Handshake(2, <<HelloOf("Tls12")>>), Handshake(3, <<Certificate>>), Handshake(1, <<Other>>)>>,
          Negotiated("Tls12", {Chain}), TRUE),
   Flight(<<Handshake(5, <<HelloOf("Tls10"), Certificate, Other>>)>>, Negotiated("Tls10", {Chain}), TRUE),
   Flight(<<Handshake(2, <<HelloOf("Tls13")>>), OtherRecord(1), OtherRecord(2)>>,
          Negotiated("Tls13", {}), TRUE),
   Flight(<<Handshake(2, <<HelloOf("Tls11")>>), Handshake(6, <<Certificate>>)>>,
          Negotiated("Tls11", {Chain}), TRUE),
   Flight(<<AlertRecord, Handshake(2, <<HelloOf("Tls12")>>), Handshake(2, <<Certificate>>)>>,
          Negotiated("Tls12", {Chain}), FALSE),
   Flight(<<Handshake(2, <<HelloOf("Ssl3")>>), Handshake(1, <<Other>>), Handshake(1, <<Other>>)>>,
          Negotiated("Ssl3", {Chain}), FALSE),
   [ssl2 |-> TRUE, hello |-> Ssl2Hello, answer |-> Negotiated("Ssl2", {Ssl2Hello.chain}), ordinary |-> TRUE]}

FlightLength(f)   == IF f.ssl2 THEN f.hello.size ELSE R!Size(f.records)
MCParsed(f, n)    == IF f.ssl2 THEN R!Ssl2Understood(f.hello, n) ELSE R!Understood(f.records, n)
MCCapacity(p)     == IF p = "Ssl2" THEN 5 ELSE 6

(***************************************************************************)
(* The hello a probe writes states its lengths truly: with all the suites  *)
(* of the table that it offers, and any name.                              *)
(***************************************************************************)
HelloIsWellFormed ==
  pc = "write" =>
    /\ \A n \in NameLengths :
         HelloFits(probe, Cardinality({i \in 1..Len(ALL_CIPHERS) : IsOffered(ALL_CIPHERS[i], probe)}), n)
    /\ Ssl2BodyLen < 32768
=============================================================================

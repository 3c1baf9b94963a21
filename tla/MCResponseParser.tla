-------------------------- MODULE MCResponseParser --------------------------
(***************************************************************************)
(* ParsedFlights for TLC: flights of several shapes, written as bytes, cut *)
(* at every place and damaged in every byte.                               *)
(***************************************************************************)
EXTENDS ParsedFlights

CONSTANT Damage      \* the values a damaged byte takes

(* A record, with its size. *)
MCRecord(type, code, messages, rest) ==
  LET sized(n) == [type |-> type, size |-> n, messages |-> messages,
                   code |-> code, version |-> 771, rest |-> rest]
  IN sized(Len(RecordBytes(sized(0))))

Handshake(messages)    == MCRecord("handshake", 22, messages, <<>>)
HandshakePiece(rest)   == MCRecord("handshake", 22, <<>>, rest)
AlertRecord(level)     == MCRecord("alert", 21, <<>>, <<level, 40>>)
HalfAnAlert            == MCRecord("other", 21, <<>>, <<2>>)
ApplicationData        == MCRecord("other", 23, <<>>, <<1, 2, 3>>)
ChangeCipherSpec       == MCRecord("other", 20, <<>>, <<1>>)

(* A ServerHello with a session id of two bytes. *)
Hello(version, suite, extended, extensions) ==
  [kind |-> "hello", version |-> version, suite |-> suite, random |-> [i \in 1..32 |-> 170],
   session_id |-> <<9, 9>>, extended |-> extended, extensions |-> extensions]

Unextended(version, suite) == Hello(version, suite, FALSE, <<>>)

RenegotiationInfo == [type |-> 65281, body |-> <<0>>]
ExtendedMaster    == [type |-> 23, body |-> <<>>]
VersionExtension  == [type |-> 43, body |-> <<3, 4>>]

Leaves == <<<<48, 1>>, <<48>>>>

CertificateOf(chain) == [kind |-> "certificate", chain |-> chain]
HelloDone            == [kind |-> "other", code |-> 14, body |-> <<>>]

(* The two records of a Certificate cut after its first certificate. *)
CutCertificate ==
  LET bytes == MessageBytes(CertificateOf(Leaves))
  IN <<HandshakePiece(SubSeq(bytes, 1, 12)), HandshakePiece(SubSeq(bytes, 13, Len(bytes)))>>

MCFlights ==
  {<<Handshake(<<Hello("Tls12", 47, TRUE, <<RenegotiationInfo, ExtendedMaster>>)>>),
     Handshake(<<CertificateOf(Leaves)>>), Handshake(<<HelloDone>>)>>,
   <<Handshake(<<Unextended("Tls12", 47), CertificateOf(Leaves), HelloDone>>)>>,
   <<Handshake(<<Hello("Tls13", 4865, TRUE, <<ExtendedMaster, VersionExtension>>)>>),
     ChangeCipherSpec, ApplicationData>>,
   <<Handshake(<<Unextended("Tls10", 5)>>)>> \o CutCertificate,
   <<Handshake(<<Unextended("Ssl3", 10)>>), AlertRecord(2)>>,
   <<AlertRecord(1), Handshake(<<Hello("Tls11", 47, TRUE, <<>>)>>)>>,
   <<Handshake(<<>>), HalfAnAlert, Handshake(<<CertificateOf(Leaves)>>)>>,
   <<Handshake(<<CertificateOf(<<>>), Unextended("Tls12", 47), Unextended("Tls10", 4865)>>)>>}

(* Two SSLv2 hellos: a certificate of four bytes and two suites, and none. *)
MCSsl2Hellos ==
  {[hit |-> 0, certificate |-> <<48, 1, 2, 3>>, specs |-> <<1, 0, 128, 7, 0, 192>>,
    connection_id |-> <<9, 9>>],
   [hit |-> 1, certificate |-> <<>>, specs |-> <<>>, connection_id |-> <<9>>]}

Whole == {BytesOf[f] : f \in Flights} \cup {Ssl2BytesOf[h] : h \in Ssl2Hellos}

MCBuffers ==
  UNION {{SubSeq(b, 1, n) : n \in 0..Len(b)}
           \cup {[b EXCEPT ![i] = d] : i \in {j \in 1..Len(b) : b[j] # 170}, d \in Damage} : b \in Whole}
=============================================================================

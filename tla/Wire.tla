-------------------------------- MODULE Wire --------------------------------
(***************************************************************************)
(* How a server writes its flight, external to this repository: the bytes  *)
(* of TLS records, handshake messages, extensions and certificates, each   *)
(* behind its length.  Records and messages are those of Responses with    *)
(* what else it takes to write them: a record has a rest behind its whole  *)
(* messages, which is a piece of a message that is cut over several        *)
(* records, or all of a record that is no handshake.                       *)
(***************************************************************************)
EXTENDS Lists

Octet == 0..255
Word  == 0..65535

Extension == [type : Word, body : Seq(Octet)]

HelloMessage ==
  [kind : {"hello"}, version : {"Ssl3", "Tls10", "Tls11", "Tls12", "Tls13"}, suite : Word,
   random : [1..32 -> Octet], session_id : Seq(Octet),
   extended : BOOLEAN, extensions : Seq(Extension)]

CertificateMessage == [kind : {"certificate"}, chain : Seq(Seq(Octet))]

OtherMessage == [kind : {"other"}, code : Octet \ {2, 11}, body : Seq(Octet)]

Message == HelloMessage \cup CertificateMessage \cup OtherMessage

Record ==
  [type : {"handshake", "alert", "other"}, size : Nat, messages : Seq(Message),
   code : 20..24, version : Word, rest : Seq(Octet)]

-----------------------------------------------------------------------------
(* Writing *)

N16(n) == <<n \div 256, n % 256>>
N24(n) == <<n \div 65536>> \o N16(n % 65536)

Behind16(s) == N16(Len(s)) \o s
Behind24(s) == N24(Len(s)) \o s

ExtensionBytes(e) == N16(e.type) \o Behind16(e.body)
ExtensionsOf(m)   == [i \in 1..Len(m.extensions) |-> ExtensionBytes(m.extensions[i])]

(* That it is TLS 1.3 is said in the extension supported_versions only. *)
VersionNumber(v) ==
  CASE v = "Ssl3" -> 768 [] v = "Tls10" -> 769 [] v = "Tls11" -> 770 [] OTHER -> 771

HelloBody(m) ==
  N16(VersionNumber(m.version)) \o m.random
    \o <<Len(m.session_id)>> \o m.session_id
    \o N16(m.suite) \o <<0>>
    \o (IF m.extended THEN Behind16(Concat(ExtensionsOf(m))) ELSE <<>>)

CertificatesOf(m) == [i \in 1..Len(m.chain) |-> Behind24(m.chain[i])]

(* The type of a message and its body. *)
CodeOf(m) == CASE m.kind = "hello" -> 2 [] m.kind = "certificate" -> 11 [] m.kind = "other" -> m.code
BodyOf(m) ==
  CASE m.kind = "hello"       -> HelloBody(m)
    [] m.kind = "certificate" -> Behind24(Concat(CertificatesOf(m)))
    [] m.kind = "other"       -> m.body

MessageBytes(m) == <<CodeOf(m)>> \o Behind24(BodyOf(m))

MessagesOf(r)  == [j \in 1..Len(r.messages) |-> MessageBytes(r.messages[j])]
RecordBody(r)  == Concat(MessagesOf(r)) \o r.rest
RecordBytes(r) == <<r.code>> \o N16(r.version) \o Behind16(RecordBody(r))

RecordsOf(f)   == [k \in 1..Len(f) |-> RecordBytes(f[k])]
FlightBytes(f) == Concat(RecordsOf(f))

-----------------------------------------------------------------------------
(* What a server that keeps to the format writes *)

Fits16(s) == Len(s) < 65536
Fits24(s) == Len(s) < 16777216

SupportedVersions == 43

(* A ServerHello selects one version there. *)
IsExtension(e) ==
  Fits16(e.body) /\ (e.type = SupportedVersions => Len(e.body) = 2)

SelectsTls13(e) == e.type = SupportedVersions /\ e.body = <<3, 4>>

IsHello(m) ==
  /\ Len(m.session_id) <= 255
  /\ m.extended \/ m.extensions = <<>>
  /\ \A i \in 1..Len(m.extensions) : IsExtension(m.extensions[i])
  /\ Fits16(Concat(ExtensionsOf(m)))
  /\ m.version = "Tls13" <=> \E i \in 1..Len(m.extensions) : SelectsTls13(m.extensions[i])

IsMessage(m) ==
  /\ Fits24(BodyOf(m))
  /\ m.kind = "hello" => IsHello(m)
  /\ m.kind = "certificate" => \A i \in 1..Len(m.chain) : Fits24(m.chain[i])

(* Read as a message, a piece of one claims more bytes than there are. *)
IsPiece(s) == Len(s) < 4 \/ Len(s) < 4 + 65536 * s[2] + 256 * s[3] + s[4]

IsRecord(r) ==
  /\ Fits16(RecordBody(r))
  /\ r.size = Len(RecordBytes(r))
  /\ \A j \in 1..Len(r.messages) : IsMessage(r.messages[j])
  /\ IF r.code = 22 THEN IsPiece(r.rest) ELSE r.messages = <<>>
  /\ r.type = (IF r.code = 22 THEN "handshake"
               ELSE IF r.code = 21 /\ Len(r.rest) >= 2 THEN "alert" ELSE "other")

IsFlight(f) == f \in Seq(Record) /\ \A k \in 1..Len(f) : IsRecord(f[k])

-----------------------------------------------------------------------------
(***************************************************************************)
(* An SSLv2 ServerHello, [hit, certificate, specs, connection_id]: two     *)
(* bytes of record header, eleven of fixed fields, then the three strings  *)
(* whose lengths these end with.                                           *)
(***************************************************************************)
Ssl2Hello ==
  [hit : {0, 1}, certificate : Seq(Octet), specs : Seq(Octet), connection_id : Seq(Octet)]

Ssl2Body(h) ==
  <<4, h.hit, 1, 0, 2>>
    \o N16(Len(h.certificate)) \o N16(Len(h.specs)) \o N16(Len(h.connection_id))
    \o h.certificate \o h.specs \o h.connection_id

Ssl2Bytes(h) == N16(32768 + Len(Ssl2Body(h))) \o Ssl2Body(h)

IsSsl2Hello(h) == h \in Ssl2Hello /\ Len(Ssl2Body(h)) < 32768

(***************************************************************************)
(* What the parser finds in it (Responses).  It takes the certificate from *)
(* the eleventh byte on, where the length of the connection id stands, and *)
(* so gets that and all of the certificate but its last two bytes.         *)
(***************************************************************************)
Ssl2Contents(h) ==
  [head     |-> 11,
   cert_len |-> Len(h.certificate),
   chain    |-> IF h.certificate = <<>> THEN <<>>
                ELSE <<SubSeq(Ssl2Bytes(h), 12, 11 + Len(h.certificate))>>]
=============================================================================

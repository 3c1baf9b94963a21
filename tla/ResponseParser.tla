--------------------------- MODULE ResponseParser ---------------------------
(***************************************************************************)
(* parse_server_response (tls/packet.rs): one step for each turn of its    *)
(* four nested loops over records, handshake messages, extensions and      *)
(* certificates.  Every length comes from the buffer, which may hold any   *)
(* bytes; reach records how far a step reads, so that an invariant can say *)
(* that no step reads where the code would panic.                          *)
(***************************************************************************)
EXTENDS Integers, Sequences

CONSTANT Buffers     \* what the read before may have put in the buffer

Byte == 0..255

ASSUME BuffersAssumption == Buffers \subseteq Seq(Byte)

VARIABLES
  data,             \* the buffer
  pc,               \* the innermost loop
  offset,           \* the start of the current record
  hs_offset,        \* the start of the current handshake message
  cursor, limit,    \* the start of the current extension or certificate, and
                    \* where the list of them ends
  server_hello,     \* the last ServerHello so far, a set of at most one
  certificates,     \* the certificates so far
  result,           \* the response, a set of at most one
  reach             \* the end of the bytes the last step read

foundVars == <<server_hello, certificates>>
vars == <<data, pc, offset, hs_offset, cursor, limit, foundVars, result, reach>>

-----------------------------------------------------------------------------
(* Reading the buffer, whose positions count from 0. *)

At(i)  == IF i < Len(data) THEN data[i + 1] ELSE 0
U16(i) == 256 * At(i) + At(i + 1)
U24(i) == 65536 * At(i) + U16(i + 1)

Slice(from, to) == [k \in 1..to - from |-> At(from + k - 1)]

Smaller(a, b) == IF a <= b THEN a ELSE b

(* Where the record at offset and the message at hs_offset end. *)
RecordEnd  == offset + 5 + U16(offset + 3)
MessageEnd == hs_offset + 4 + U24(hs_offset + 1)

(* An item of the list at cursor: an extension has type and length, a      *)
(* certificate only a length.                                              *)
HeaderLen == IF pc = "extension" THEN 4 ELSE 3
ItemEnd   == cursor + HeaderLen + (IF pc = "extension" THEN U16(cursor + 2) ELSE U24(cursor))

(* Mutant of Fits: a length is believed. *)
FitsAnyway(end, outer) == TRUE

(* Whether something that ends at end is wholly inside what ends at outer. *)
Fits(end, outer) == end <= outer

HasRecord  == Fits(offset + 5, Len(data)) /\ Fits(RecordEnd, Len(data))
HasMessage == Fits(hs_offset + 4, RecordEnd) /\ Fits(MessageEnd, RecordEnd)
HasItem    == Fits(cursor + HeaderLen, limit) /\ Fits(ItemEnd, limit)

Response(kind, version, suites, chain) ==
  [kind |-> kind, version |-> version, suites |-> suites, certificates |-> chain]

-----------------------------------------------------------------------------
Init ==
  /\ data \in Buffers
  /\ pc = "start"
  /\ offset = 0
  /\ hs_offset = 0
  /\ cursor = 0
  /\ limit = 0
  /\ server_hello = {}
  /\ certificates = <<>>
  /\ result = {}
  /\ reach = 0

(* Mutant of IsSsl2: the length is not looked at. *)
EagerSsl2 == Len(data) > 2 /\ At(0) >= 128 /\ At(2) = 4

IsSsl2 == Len(data) >= 11 /\ At(0) >= 128 /\ At(2) = 4

(***************************************************************************)
(* An SSLv2 ServerHello.  If its certificate has not wholly arrived it is  *)
(* skipped without moving on, and the suites are read from its bytes.      *)
(***************************************************************************)
ParseSsl2 ==
  /\ pc = "start" /\ IsSsl2
  /\ LET cert_end == 11 + U16(7)
         has_cert == U16(7) > 0 /\ Fits(cert_end, Len(data))
         from     == IF has_cert THEN cert_end ELSE 11
         to       == from + U16(9)
         suites   == IF Fits(to, Len(data)) THEN {U24(from + 3 * k) : k \in 0..(U16(9) \div 3) - 1} ELSE {}
     IN /\ result' = {Response("ssl2", "Ssl2", suites, IF has_cert THEN <<Slice(11, cert_end)>> ELSE <<>>)}
        /\ reach' = (IF Fits(to, Len(data)) THEN to ELSE from)
  /\ pc' = "done"
  /\ UNCHANGED <<data, offset, hs_offset, cursor, limit, foundVars>>

Start ==
  /\ pc = "start" /\ ~IsSsl2
  /\ pc' = (IF data = <<>> THEN "done" ELSE "record")
  /\ reach' = Smaller(3, Len(data))
  /\ UNCHANGED <<data, offset, hs_offset, cursor, limit, foundVars, result>>

-----------------------------------------------------------------------------
(* Records *)

(* An alert ends the parsing, whatever was found before it. *)
ParseAlert ==
  /\ pc = "record" /\ HasRecord
  /\ At(offset) = 21 /\ U16(offset + 3) >= 2
  /\ result' = {Response("alert", "none", {}, <<>>)}
  /\ pc' = "done"
  /\ reach' = offset + 7
  /\ UNCHANGED <<data, offset, hs_offset, cursor, limit, foundVars>>

EnterRecord ==
  /\ pc = "record" /\ HasRecord
  /\ At(offset) = 22
  /\ pc' = "message"
  /\ hs_offset' = offset + 5
  /\ reach' = offset + 5
  /\ UNCHANGED <<data, offset, cursor, limit, foundVars, result>>

SkipRecord ==
  /\ pc = "record" /\ HasRecord
  /\ At(offset) # 22 /\ ~(At(offset) = 21 /\ U16(offset + 3) >= 2)
  /\ offset' = RecordEnd
  /\ reach' = offset + 5
  /\ UNCHANGED <<data, pc, hs_offset, cursor, limit, foundVars, result>>

(* Mutant of Finish: certificates alone are nothing. *)
FinishNeedsHello ==
  /\ pc = "record" /\ ~HasRecord
  /\ result' = {Response("hello", h.version, {h.suite}, certificates) : h \in server_hello}
  /\ pc' = "done"
  /\ reach' = (IF offset + 5 <= Len(data) THEN offset + 5 ELSE reach)
  /\ UNCHANGED <<data, offset, hs_offset, cursor, limit, foundVars>>

(* No further record, or only a part of one. *)
Finish ==
  /\ pc = "record" /\ ~HasRecord
  /\ result' = (IF server_hello = {} /\ certificates # <<>>
                  THEN {Response("hello", "Tls12", {0}, certificates)}
                  ELSE {Response("hello", h.version, {h.suite}, certificates) : h \in server_hello})
  /\ pc' = "done"
  /\ reach' = (IF offset + 5 <= Len(data) THEN offset + 5 ELSE reach)
  /\ UNCHANGED <<data, offset, hs_offset, cursor, limit, foundVars>>

-----------------------------------------------------------------------------
(* Handshake messages of a record *)

(* The version in the body of a ServerHello. *)
HelloVersion(v) ==
  CASE v = 768 -> "Ssl3" [] v = 769 -> "Tls10" [] v = 770 -> "Tls11"
    [] v = 772 -> "Tls13" [] OTHER -> "Tls12"

(* A ServerHello is long enough, and its session id leaves room for more. *)
SessionIdEnd  == hs_offset + 39 + At(hs_offset + 38)
IsServerHello ==
  /\ At(hs_offset) = 2 /\ U24(hs_offset + 1) >= 38
  /\ Fits(SessionIdEnd + 3, MessageEnd)
IsCertificate == At(hs_offset) = 11 /\ U24(hs_offset + 1) >= 3

(* Mutant of Found: an earlier ServerHello stays. *)
FoundToo(version, suite) == server_hello \cup {[version |-> version, suite |-> suite]}

(* server_hello = Some(..), whatever was found before *)
Found(version, suite) == {[version |-> version, suite |-> suite]}

(***************************************************************************)
(* A ServerHello, up to its extensions if there are any.  The negotiated   *)
(* version stands in server_hello while the extensions are looked at.      *)
(***************************************************************************)
ParseServerHello ==
  /\ pc = "message" /\ HasMessage /\ IsServerHello
  /\ server_hello' = Found(HelloVersion(U16(hs_offset + 4)), U16(SessionIdEnd))
  /\ LET extensions == SessionIdEnd + 3
     IN IF Fits(extensions + 2, MessageEnd)
          THEN /\ pc' = "extension"
               /\ cursor' = extensions + 2
               /\ limit' = Smaller(extensions + 2 + U16(extensions), MessageEnd)
               /\ reach' = extensions + 2
               /\ UNCHANGED hs_offset
          ELSE /\ hs_offset' = MessageEnd
               /\ reach' = SessionIdEnd + 2
               /\ UNCHANGED <<pc, cursor, limit>>
  /\ UNCHANGED <<data, offset, certificates, result>>

EnterCertificates ==
  /\ pc = "message" /\ HasMessage /\ IsCertificate
  /\ pc' = "certificate"
  /\ cursor' = hs_offset + 7
  /\ limit' = Smaller(hs_offset + 7 + U24(hs_offset + 4), MessageEnd)
  /\ reach' = hs_offset + 7
  /\ UNCHANGED <<data, offset, hs_offset, foundVars, result>>

SkipMessage ==
  /\ pc = "message" /\ HasMessage /\ ~IsServerHello /\ ~IsCertificate
  /\ hs_offset' = MessageEnd
  /\ reach' = (IF At(hs_offset) = 2 /\ U24(hs_offset + 1) >= 38 THEN hs_offset + 39 ELSE hs_offset + 4)
  /\ UNCHANGED <<data, pc, offset, cursor, limit, foundVars, result>>

(* Nothing more in this record, or only a part of a message. *)
LeaveRecord ==
  /\ pc = "message" /\ ~HasMessage
  /\ offset' = RecordEnd
  /\ pc' = "record"
  /\ reach' = (IF hs_offset + 4 <= RecordEnd THEN hs_offset + 4 ELSE reach)
  /\ UNCHANGED <<data, hs_offset, cursor, limit, foundVars, result>>

-----------------------------------------------------------------------------
(* The items of a message *)

(* supported_versions with TLS 1.3 in it. *)
SaysTls13 == U16(cursor) = 43 /\ U16(cursor + 2) >= 2 /\ U16(cursor + 4) = 772

(* Mutant of ParseExtension: the header is not counted. *)
ParseExtensionBody ==
  /\ pc = "extension" /\ HasItem
  /\ server_hello' = {IF SaysTls13 THEN [h EXCEPT !.version = "Tls13"] ELSE h : h \in server_hello}
  /\ cursor' = ItemEnd - 4
  /\ reach' = cursor + 4
  /\ UNCHANGED <<data, pc, offset, hs_offset, limit, certificates, result>>

ParseExtension ==
  /\ pc = "extension" /\ HasItem
  /\ server_hello' = {IF SaysTls13 THEN [h EXCEPT !.version = "Tls13"] ELSE h : h \in server_hello}
  /\ cursor' = ItemEnd
  /\ reach' = (IF U16(cursor) = 43 /\ U16(cursor + 2) >= 2 THEN cursor + 6 ELSE cursor + 4)
  /\ UNCHANGED <<data, pc, offset, hs_offset, limit, certificates, result>>

ParseCertificate ==
  /\ pc = "certificate" /\ HasItem
  /\ certificates' = Append(certificates, Slice(cursor + 3, ItemEnd))
  /\ cursor' = ItemEnd
  /\ reach' = ItemEnd
  /\ UNCHANGED <<data, pc, offset, hs_offset, limit, server_hello, result>>

LeaveMessage ==
  /\ pc \in {"extension", "certificate"} /\ ~HasItem
  /\ hs_offset' = MessageEnd
  /\ pc' = "message"
  /\ reach' = (IF cursor + HeaderLen <= limit THEN cursor + HeaderLen ELSE reach)
  /\ UNCHANGED <<data, offset, cursor, limit, foundVars, result>>

Terminating == pc = "done" /\ UNCHANGED vars

-----------------------------------------------------------------------------
Next ==
  \/ ParseSsl2 \/ Start
  \/ ParseAlert \/ EnterRecord \/ SkipRecord \/ Finish
  \/ ParseServerHello \/ EnterCertificates \/ SkipMessage \/ LeaveRecord
  \/ ParseExtension \/ ParseCertificate \/ LeaveMessage
  \/ Terminating

(* Plain code: it takes its next step. *)
Spec == Init /\ [][Next]_vars /\ WF_vars(Next)

-----------------------------------------------------------------------------
(* Properties *)

Version == {"Ssl2", "Ssl3", "Tls10", "Tls11", "Tls12", "Tls13"}

TypeOK ==
  /\ data \in Buffers
  /\ pc \in {"start", "record", "message", "extension", "certificate", "done"}
  /\ offset \in Nat /\ hs_offset \in Nat /\ cursor \in Nat /\ limit \in Nat /\ reach \in Nat
  /\ server_hello \in SUBSET [version : Version, suite : Nat]
  /\ \A g, h \in server_hello : g = h
  /\ certificates \in Seq(Seq(Byte))
  /\ result \in SUBSET [kind : {"alert", "hello", "ssl2"}, version : Version \cup {"none"},
                        suites : SUBSET Nat, certificates : Seq(Seq(Byte))]

(***************************************************************************)
(* No byte is read behind the end of the buffer, whatever lengths it       *)
(* claims: every data[..] in the code is in range.  And no byte of a       *)
(* message is taken from behind its record, nor one of an extension or a   *)
(* certificate from behind its message.                                    *)
(***************************************************************************)
Contained ==
  /\ reach <= Len(data)
  /\ pc \in {"message", "extension", "certificate"} => reach <= RecordEnd
  /\ pc \in {"extension", "certificate"} => reach <= MessageEnd

(***************************************************************************)
(* Every turn of a loop moves on in the buffer, so no loop can spin: not   *)
(* on an empty record, message, extension or certificate either.           *)
(***************************************************************************)
Advances ==
  [][/\ offset' >= offset
     /\ pc = "record" /\ pc' = "record" => offset' > offset
     /\ pc = "message" /\ pc' = "record" => offset' > offset
     /\ pc \in {"message", "extension", "certificate"} /\ pc' = "message" => hs_offset' > hs_offset
     /\ pc \in {"extension", "certificate"} /\ pc' = pc => cursor' > cursor]_vars

(***************************************************************************)
(* The parser returns, on any input.                                       *)
(***************************************************************************)
Termination == <>(pc = "done")
=============================================================================

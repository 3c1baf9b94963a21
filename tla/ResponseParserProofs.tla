------------------------ MODULE ResponseParserProofs ------------------------
(***************************************************************************)
(* Proofs about ResponseParser, for every set of buffers: type             *)
(* correctness, no read outside the buffer, progress in every turn of      *)
(* every loop, and that it finds in every part of every flight that Wire   *)
(* writes, and of every SSLv2 ServerHello, what Responses promises.        *)
(*                                                                         *)
(* The first inductive invariant adds to TypeOK and Contained that the     *)
(* four loops are nested in the buffer as they are in the code: an item    *)
(* inside its list, the list inside its message, the message inside its    *)
(* record, the record inside the buffer.  The second, Reading, says what   *)
(* of a flight is behind the parser in each loop.                          *)
(***************************************************************************)
EXTENDS ParsedFlights, ListProofs, TLAPS

Nested ==
  /\ pc = "start" => offset = 0
  /\ pc = "record" => offset <= Len(data)
  /\ pc \in {"message", "extension", "certificate"} =>
       hs_offset <= RecordEnd /\ RecordEnd <= Len(data)
  /\ pc \in {"extension", "certificate"} =>
       /\ hs_offset <= cursor /\ cursor <= limit
       /\ limit <= MessageEnd /\ MessageEnd <= RecordEnd

IInv == TypeOK /\ Nested /\ Contained

-----------------------------------------------------------------------------
(* Lemmas *)

(* The fields of a buffer are natural numbers. *)
LEMMA Fields ==
  ASSUME data \in Buffers
  PROVE  /\ Len(data) \in Nat
         /\ \A i \in Nat : At(i) \in Byte /\ At(i) \in Nat /\ U16(i) \in Nat /\ U24(i) \in Nat
<1>1. Len(data) \in Nat /\ \A j \in 1..Len(data) : data[j] \in Byte
  BY BuffersAssumption
<1>2. ASSUME NEW i \in Nat PROVE At(i) \in Byte
  <2>1. 0 \in Byte
    BY DEF Byte
  <2>2. i < Len(data) => i + 1 \in 1..Len(data)
    BY <1>1
  <2> QED BY <1>1, <2>1, <2>2 DEF At
<1>3. \A i \in Nat : At(i) \in Nat
  BY <1>2 DEF Byte
<1>4. \A i \in Nat : U16(i) \in Nat
  BY <1>3 DEF U16
<1>5. \A i \in Nat : U24(i) \in Nat
  BY <1>3, <1>4 DEF U24
<1> QED BY <1>1, <1>2, <1>3, <1>4, <1>5

(* What is cut out of a buffer is bytes. *)
LEMMA SliceBytes ==
  ASSUME data \in Buffers, NEW from \in Nat, NEW to \in Nat, from <= to
  PROVE  Slice(from, to) \in Seq(Byte)
<1>1. \A k \in 1..to - from : At(from + k - 1) \in Byte
  BY Fields
<1>2. Slice(from, to) \in [1..to - from -> Byte]
  BY <1>1 DEF Slice
<1>3. to - from \in Nat
  OBVIOUS
<1> QED BY <1>2, <1>3

(* The ends computed from fields lie behind the headers they belong to. *)
LEMMA Ends ==
  ASSUME TypeOK
  PROVE  /\ Len(data) \in Nat
         /\ RecordEnd \in Nat /\ offset + 5 <= RecordEnd
         /\ MessageEnd \in Nat /\ hs_offset + 4 <= MessageEnd
         /\ HeaderLen \in {3, 4}
         /\ ItemEnd \in Nat /\ cursor + HeaderLen <= ItemEnd
<1>1. data \in Buffers
  BY DEF TypeOK
<1>2. /\ offset + 3 \in Nat /\ hs_offset + 1 \in Nat /\ cursor + 2 \in Nat
      /\ offset \in Nat /\ hs_offset \in Nat /\ cursor \in Nat
  BY DEF TypeOK
<1>3. /\ Len(data) \in Nat
      /\ U16(offset + 3) \in Nat /\ U24(hs_offset + 1) \in Nat
      /\ U16(cursor + 2) \in Nat /\ U24(cursor) \in Nat
  BY <1>1, <1>2, Fields
<1>4. RecordEnd \in Nat /\ offset + 5 <= RecordEnd
  BY <1>2, <1>3 DEF RecordEnd
<1>5. MessageEnd \in Nat /\ hs_offset + 4 <= MessageEnd
  BY <1>2, <1>3 DEF MessageEnd
<1>6. CASE pc = "extension"
  BY <1>2, <1>3, <1>4, <1>5, <1>6 DEF HeaderLen, ItemEnd
<1>7. CASE pc # "extension"
  BY <1>2, <1>3, <1>4, <1>5, <1>7 DEF HeaderLen, ItemEnd
<1> QED BY <1>6, <1>7

(* A list ends between its start and the end of its message. *)
LEMMA SmallerEnd ==
  ASSUME NEW from \in Nat, NEW size \in Nat, NEW to \in Nat, from <= to
  PROVE  /\ Smaller(from + size, to) \in Nat
         /\ from <= Smaller(from + size, to) /\ Smaller(from + size, to) <= to
<1> QED BY DEF Smaller

(* The ends stay where they are as long as what they start from does. *)
LEMMA EndsStay ==
  ASSUME data' = data
  PROVE  /\ offset' = offset => RecordEnd' = RecordEnd
         /\ hs_offset' = hs_offset => MessageEnd' = MessageEnd
<1> QED BY DEF RecordEnd, MessageEnd, U24, U16, At

-----------------------------------------------------------------------------
LEMMA InitInv == Init => IInv
<1> SUFFICES ASSUME Init PROVE IInv
  OBVIOUS
<1>1. Len(data) \in Nat
  BY Fields DEF Init
<1>2. TypeOK
  BY DEF Init, TypeOK
<1> QED BY <1>1, <1>2 DEF Init, IInv, Nested, Contained

(* One lemma for each action that does more than move on. *)
LEMMA ParseSsl2Inv == IInv /\ ParseSsl2 => IInv'
<1> SUFFICES ASSUME IInv, ParseSsl2 PROVE IInv'
  OBVIOUS
<1> DEFINE cert_end == 11 + U16(7)
           has_cert == U16(7) > 0 /\ Fits(cert_end, Len(data))
           from     == IF has_cert THEN cert_end ELSE 11
           to       == from + U16(9)
           suites   == IF Fits(to, Len(data)) THEN {U24(from + 3 * k) : k \in 0..(U16(9) \div 3) - 1} ELSE {}
           chain    == IF has_cert THEN <<Slice(11, cert_end)>> ELSE <<>>
<1>1. TypeOK /\ data \in Buffers /\ Len(data) \in Nat
  BY Ends DEF IInv, TypeOK
<1>2. U16(7) \in Nat /\ U16(9) \in Nat
  BY <1>1, Fields
<1>3. cert_end \in Nat /\ 11 <= cert_end /\ from \in Nat /\ to \in Nat /\ Len(data) >= 11
  BY <1>1, <1>2 DEF ParseSsl2, IsSsl2
<1>4. suites \in SUBSET Nat
  <2>1. \A k \in 0..(U16(9) \div 3) - 1 : U24(from + 3 * k) \in Nat
    <3> SUFFICES ASSUME NEW k \in 0..(U16(9) \div 3) - 1 PROVE U24(from + 3 * k) \in Nat
      OBVIOUS
    <3>1. k \in Nat /\ from + 3 * k \in Nat
      BY <1>2, <1>3, SMTT(30)
    <3> QED BY <1>1, <3>1, Fields
  <2> QED BY <2>1
<1>5. chain \in Seq(Seq(Byte))
  <2>1. Slice(11, cert_end) \in Seq(Byte)
    BY <1>1, <1>3, SliceBytes
  <2> QED BY <2>1
<1>6. result' = {Response("ssl2", "Ssl2", suites, chain)}
  BY DEF ParseSsl2
<1>7. Response("ssl2", "Ssl2", suites, chain) \in
        [kind : {"alert", "hello", "ssl2"}, version : Version \cup {"none"},
         suites : SUBSET Nat, certificates : Seq(Seq(Byte))]
  BY <1>4, <1>5 DEF Response, Version
<1>8. reach' \in Nat /\ reach' <= Len(data)
  BY <1>1, <1>3 DEF ParseSsl2, Fits
<1> HIDE DEF chain, suites
<1>9. TypeOK'
  BY <1>1, <1>6, <1>7, <1>8 DEF ParseSsl2, TypeOK, foundVars
<1> QED BY <1>8, <1>9 DEF ParseSsl2, IInv, Nested, Contained

(* The steps over records. *)
LEMMA RecordInv ==
  IInv /\ (Start \/ ParseAlert \/ EnterRecord \/ SkipRecord \/ Finish) => IInv'
<1> SUFFICES ASSUME IInv, Start \/ ParseAlert \/ EnterRecord \/ SkipRecord \/ Finish
             PROVE  IInv'
  OBVIOUS
<1>1. /\ TypeOK /\ Len(data) \in Nat
      /\ RecordEnd \in Nat /\ offset + 5 <= RecordEnd
  BY Ends DEF IInv
<1>2. offset \in Nat /\ U16(offset + 3) \in Nat
  <2>1. data \in Buffers /\ offset \in Nat /\ offset + 3 \in Nat
    BY <1>1 DEF TypeOK
  <2> QED BY <2>1, Fields
<1>3. data' = data
  BY DEF Start, ParseAlert, EnterRecord, SkipRecord, Finish
<1>4. CASE Start
  <2>1. reach' \in Nat /\ reach' <= Len(data)
    BY <1>1, <1>4 DEF Start, Smaller
  <2>2. TypeOK'
    BY <1>1, <1>4, <2>1 DEF Start, TypeOK, foundVars
  <2>3. offset = 0 /\ offset' = 0
    BY <1>4 DEF Start, IInv, Nested
  <2> QED BY <1>1, <1>3, <1>4, <2>1, <2>2, <2>3 DEF Start, IInv, Nested, Contained
<1>5. CASE ParseAlert
  <2>1. reach' \in Nat /\ reach' <= Len(data)
    BY <1>1, <1>2, <1>5 DEF ParseAlert, HasRecord, Fits, RecordEnd
  <2>2. result' \in SUBSET [kind : {"alert", "hello", "ssl2"}, version : Version \cup {"none"},
                            suites : SUBSET Nat, certificates : Seq(Seq(Byte))]
    BY <1>5 DEF ParseAlert, Response
  <2>3. TypeOK'
    BY <1>1, <1>5, <2>1, <2>2 DEF ParseAlert, TypeOK, foundVars
  <2> QED BY <1>3, <1>5, <2>1, <2>3 DEF ParseAlert, IInv, Nested, Contained
<1>6. CASE EnterRecord
  <2>1. reach' \in Nat /\ reach' <= RecordEnd /\ hs_offset' \in Nat /\ hs_offset' <= RecordEnd
    BY <1>1, <1>2, <1>6 DEF EnterRecord
  <2>2. RecordEnd <= Len(data)
    BY <1>6 DEF EnterRecord, HasRecord, Fits
  <2>3. RecordEnd' = RecordEnd
    BY <1>3, <1>6, EndsStay DEF EnterRecord
  <2>4. TypeOK'
    BY <1>1, <1>6, <2>1 DEF EnterRecord, TypeOK, foundVars
  <2>5. pc' = "message"
    BY <1>6 DEF EnterRecord
  <2> QED BY <1>1, <1>3, <2>1, <2>2, <2>3, <2>4, <2>5 DEF IInv, Nested, Contained, TypeOK
<1>7. CASE SkipRecord
  <2>1. reach' \in Nat /\ reach' <= Len(data) /\ offset' \in Nat /\ offset' <= Len(data)
    BY <1>1, <1>2, <1>7 DEF SkipRecord, HasRecord, Fits
  <2>2. TypeOK'
    BY <1>1, <1>7, <2>1 DEF SkipRecord, TypeOK, foundVars
  <2> QED BY <1>3, <1>7, <2>1, <2>2 DEF SkipRecord, IInv, Nested, Contained
<1>8. CASE Finish
  <2>1. reach' \in Nat /\ reach' <= Len(data)
    BY <1>1, <1>2, <1>8 DEF Finish, IInv, Contained, TypeOK
  <2>2. result' \in SUBSET [kind : {"alert", "hello", "ssl2"}, version : Version \cup {"none"},
                            suites : SUBSET Nat, certificates : Seq(Seq(Byte))]
    BY <1>1, <1>8 DEF Finish, Response, TypeOK, Version
  <2>3. TypeOK'
    BY <1>1, <1>8, <2>1, <2>2 DEF Finish, TypeOK, foundVars
  <2> QED BY <1>3, <1>8, <2>1, <2>3 DEF Finish, IInv, Nested, Contained
<1> QED BY <1>4, <1>5, <1>6, <1>7, <1>8

(* The steps over the handshake messages of a record. *)
LEMMA MessageInv ==
  IInv /\ (ParseServerHello \/ EnterCertificates \/ SkipMessage \/ LeaveRecord) => IInv'
<1> SUFFICES ASSUME IInv, ParseServerHello \/ EnterCertificates \/ SkipMessage \/ LeaveRecord
             PROVE  IInv'
  OBVIOUS
<1>1. /\ TypeOK /\ Len(data) \in Nat
      /\ RecordEnd \in Nat /\ offset + 5 <= RecordEnd
      /\ MessageEnd \in Nat /\ hs_offset + 4 <= MessageEnd
  BY Ends DEF IInv
<1>2. /\ hs_offset \in Nat
      /\ U24(hs_offset + 1) \in Nat /\ U24(hs_offset + 4) \in Nat
      /\ At(hs_offset + 38) \in Nat /\ SessionIdEnd \in Nat /\ hs_offset + 39 <= SessionIdEnd
      /\ U16(SessionIdEnd) \in Nat /\ U16(SessionIdEnd + 3) \in Nat
  <2>1. data \in Buffers /\ hs_offset \in Nat
    BY <1>1 DEF TypeOK
  <2>2. hs_offset + 1 \in Nat /\ hs_offset + 4 \in Nat /\ hs_offset + 38 \in Nat
    BY <2>1
  <2>3. At(hs_offset + 38) \in Nat
    BY <2>1, <2>2, Fields
  <2>4. SessionIdEnd \in Nat /\ hs_offset + 39 <= SessionIdEnd
    BY <2>1, <2>3 DEF SessionIdEnd
  <2>5. SessionIdEnd + 3 \in Nat
    BY <2>4
  <2> QED BY <2>1, <2>2, <2>3, <2>4, <2>5, Fields
<1>3. data' = data /\ pc = "message" /\ RecordEnd <= Len(data) /\ hs_offset <= RecordEnd
  BY DEF ParseServerHello, EnterCertificates, SkipMessage, LeaveRecord, IInv, Nested
<1>4. HasMessage => MessageEnd <= RecordEnd
  BY DEF HasMessage, Fits
<1>5. CASE ParseServerHello
  <2>1. SessionIdEnd + 3 <= MessageEnd
    BY <1>5 DEF ParseServerHello, IsServerHello, Fits
  <2>2. server_hello' \in SUBSET [version : Version, suite : Nat] /\ \A g, h \in server_hello' : g = h
    BY <1>2, <1>5 DEF ParseServerHello, Found, HelloVersion, Version
  <2>3. RecordEnd' = RecordEnd /\ (hs_offset' = hs_offset => MessageEnd' = MessageEnd)
    BY <1>3, <1>5, EndsStay DEF ParseServerHello
  <2>4. CASE SessionIdEnd + 5 <= MessageEnd
    <3>1. /\ pc' = "extension" /\ hs_offset' = hs_offset
          /\ cursor' = SessionIdEnd + 5 /\ reach' = SessionIdEnd + 5
          /\ limit' = Smaller(SessionIdEnd + 5 + U16(SessionIdEnd + 3), MessageEnd)
      <4>1. SessionIdEnd + 3 + 2 = SessionIdEnd + 5
        BY <1>2
      <4> QED BY <1>5, <2>4, <4>1 DEF ParseServerHello, Fits
    <3> SessionIdEnd + 5 \in Nat
      BY <1>2
    <3>3. limit' \in Nat /\ cursor' <= limit' /\ limit' <= MessageEnd /\ cursor' \in Nat
      BY <1>1, <1>2, <2>4, <3>1, SmallerEnd
    <3>2. TypeOK'
      BY <1>1, <1>2, <1>5, <2>2, <3>1, <3>3 DEF ParseServerHello, TypeOK, foundVars
    <3> QED BY <1>1, <1>2, <1>3, <1>4, <1>5, <2>3, <3>1, <3>2, <3>3, SMTT(30) DEF ParseServerHello, IInv, Nested, Contained
  <2>5. CASE ~(SessionIdEnd + 5 <= MessageEnd)
    <3>1. /\ pc' = pc /\ hs_offset' = MessageEnd /\ cursor' = cursor /\ limit' = limit
          /\ reach' = SessionIdEnd + 2
      BY <1>1, <1>2, <1>5, <2>5 DEF ParseServerHello, Fits
    <3>2. TypeOK'
      BY <1>1, <1>2, <1>5, <2>2, <3>1 DEF ParseServerHello, TypeOK, foundVars
    <3> QED BY <1>1, <1>2, <1>3, <1>4, <1>5, <2>1, <2>3, <3>1, <3>2 DEF ParseServerHello, IInv, Nested, Contained
  <2> QED BY <2>4, <2>5
<1>6. CASE EnterCertificates
  <2>1. /\ pc' = "certificate" /\ hs_offset' = hs_offset
        /\ cursor' = hs_offset + 7 /\ reach' = hs_offset + 7
        /\ cursor' \in Nat /\ cursor' <= MessageEnd
        /\ limit' \in Nat /\ cursor' <= limit' /\ limit' <= MessageEnd
    <3>1. hs_offset + 7 \in Nat /\ hs_offset + 7 <= MessageEnd
      BY <1>1, <1>2, <1>6, SMTT(30) DEF EnterCertificates, IsCertificate, MessageEnd
    <3>2. limit' = Smaller(hs_offset + 7 + U24(hs_offset + 4), MessageEnd)
      BY <1>6 DEF EnterCertificates
    <3>3. limit' \in Nat /\ hs_offset + 7 <= limit' /\ limit' <= MessageEnd
      BY <1>1, <1>2, <3>1, <3>2, SmallerEnd
    <3> QED BY <1>6, <3>1, <3>3 DEF EnterCertificates
  <2>2. RecordEnd' = RecordEnd /\ MessageEnd' = MessageEnd
    BY <1>3, <1>6, EndsStay DEF EnterCertificates
  <2>3. TypeOK'
    BY <1>1, <1>2, <1>6, <2>1 DEF EnterCertificates, TypeOK, foundVars
  <2> QED BY <1>1, <1>2, <1>3, <1>4, <1>6, <2>1, <2>2, <2>3 DEF EnterCertificates, IInv, Nested, Contained
<1>7. CASE SkipMessage
  <2>1. /\ pc' = "message" /\ hs_offset' = MessageEnd /\ reach' \in Nat /\ reach' <= MessageEnd
    BY <1>2, <1>3, <1>7, SMTT(30) DEF SkipMessage, MessageEnd
  <2>2. RecordEnd' = RecordEnd
    BY <1>3, <1>7, EndsStay DEF SkipMessage
  <2>3. TypeOK'
    BY <1>1, <1>7, <2>1 DEF SkipMessage, TypeOK, foundVars
  <2> QED BY <1>1, <1>3, <1>4, <1>7, <2>1, <2>2, <2>3 DEF SkipMessage, IInv, Nested, Contained
<1>8. CASE LeaveRecord
  <2>1. pc' = "record" /\ offset' = RecordEnd /\ reach' \in Nat /\ reach' <= Len(data)
    BY <1>1, <1>2, <1>3, <1>8 DEF LeaveRecord, IInv, Contained, TypeOK
  <2>2. TypeOK'
    BY <1>1, <1>8, <2>1 DEF LeaveRecord, TypeOK, foundVars
  <2> QED BY <1>1, <1>3, <1>8, <2>1, <2>2 DEF IInv, Nested, Contained
<1> QED BY <1>5, <1>6, <1>7, <1>8

(* The steps over the extensions and the certificates of a message. *)
LEMMA ItemInv ==
  IInv /\ (ParseExtension \/ ParseCertificate \/ LeaveMessage) => IInv'
<1> SUFFICES ASSUME IInv, ParseExtension \/ ParseCertificate \/ LeaveMessage
             PROVE  IInv'
  OBVIOUS
<1>1. /\ TypeOK /\ Len(data) \in Nat
      /\ RecordEnd \in Nat /\ offset + 5 <= RecordEnd
      /\ MessageEnd \in Nat /\ hs_offset + 4 <= MessageEnd
      /\ HeaderLen \in {3, 4}
      /\ ItemEnd \in Nat /\ cursor + HeaderLen <= ItemEnd
  BY Ends DEF IInv
<1>2. data \in Buffers /\ hs_offset \in Nat /\ cursor \in Nat /\ limit \in Nat /\ reach \in Nat
  BY <1>1 DEF TypeOK
<1>3. /\ data' = data /\ pc \in {"extension", "certificate"}
      /\ hs_offset <= cursor /\ cursor <= limit /\ limit <= MessageEnd
      /\ MessageEnd <= RecordEnd /\ RecordEnd <= Len(data) /\ reach <= MessageEnd
  BY DEF ParseExtension, ParseCertificate, LeaveMessage, IInv, Nested, Contained
<1>4. HasItem => ItemEnd <= limit
  BY DEF HasItem, Fits
<1>5. RecordEnd' = RecordEnd /\ (hs_offset' = hs_offset => MessageEnd' = MessageEnd)
  BY <1>3, EndsStay DEF ParseExtension, ParseCertificate, LeaveMessage
<1>6. CASE ParseExtension
  <2>1. cursor' = ItemEnd /\ reach' \in Nat /\ reach' <= ItemEnd
    <3>1. U16(cursor + 2) \in Nat
      <4>1. cursor + 2 \in Nat
        BY <1>2
      <4> QED BY <1>2, <4>1, Fields
    <3>2. ItemEnd = cursor + 4 + U16(cursor + 2)
      BY <1>6 DEF ParseExtension, ItemEnd, HeaderLen
    <3> QED BY <1>2, <1>6, <3>1, <3>2 DEF ParseExtension
  <2>2. server_hello' \in SUBSET [version : Version, suite : Nat] /\ \A g, h \in server_hello' : g = h
    <3>1. \A h \in server_hello : h \in [version : Version, suite : Nat]
      BY <1>1 DEF TypeOK
    <3>2. \A h \in server_hello : [h EXCEPT !.version = "Tls13"] \in [version : Version, suite : Nat]
      BY <3>1 DEF Version
    <3> QED BY <1>1, <1>6, <3>1, <3>2 DEF ParseExtension, TypeOK
  <2>3. TypeOK'
    BY <1>1, <1>6, <2>1, <2>2 DEF ParseExtension, TypeOK, foundVars
  <2>4. UNCHANGED <<pc, offset, hs_offset, limit>>
    BY <1>6 DEF ParseExtension
  <2>5. HasItem
    BY <1>6 DEF ParseExtension
  <2> QED BY <1>1, <1>2, <1>3, <1>4, <1>5, <2>1, <2>3, <2>4, <2>5 DEF IInv, Nested, Contained
<1>7. CASE ParseCertificate
  <2>1. cursor' = ItemEnd /\ reach' = ItemEnd /\ cursor + 3 <= ItemEnd
    BY <1>1, <1>2, <1>7 DEF ParseCertificate
  <2>2. certificates' \in Seq(Seq(Byte))
    <3>1. cursor + 3 \in Nat
      BY <1>2
    <3>2. Slice(cursor + 3, ItemEnd) \in Seq(Byte)
      BY <1>1, <1>2, <2>1, <3>1, SliceBytes
    <3> QED BY <1>1, <1>7, <3>2 DEF ParseCertificate, TypeOK
  <2>3. TypeOK'
    BY <1>1, <1>7, <2>1, <2>2 DEF ParseCertificate, TypeOK
  <2>4. UNCHANGED <<pc, offset, hs_offset, limit>>
    BY <1>7 DEF ParseCertificate
  <2>5. HasItem
    BY <1>7 DEF ParseCertificate
  <2> QED BY <1>1, <1>2, <1>3, <1>4, <1>5, <2>1, <2>3, <2>4, <2>5 DEF IInv, Nested, Contained
<1>8. CASE LeaveMessage
  <2>1. pc' = "message" /\ hs_offset' = MessageEnd /\ offset' = offset
    BY <1>8 DEF LeaveMessage
  <2>2. reach' \in Nat /\ reach' <= MessageEnd
    BY <1>1, <1>2, <1>3, <1>8 DEF LeaveMessage
  <2>3. TypeOK'
    BY <1>1, <1>8, <2>1, <2>2 DEF LeaveMessage, TypeOK, foundVars
  <2> QED BY <1>1, <1>2, <1>3, <1>5, <2>1, <2>2, <2>3 DEF IInv, Nested, Contained
<1> QED BY <1>6, <1>7, <1>8

-----------------------------------------------------------------------------
(* The theorems *)

(***************************************************************************)
(* The loops of parse_server_response stay nested in the buffer, on any    *)
(* input.                                                                  *)
(***************************************************************************)
THEOREM Invariance == Spec => []IInv
<1>1. IInv /\ UNCHANGED vars => IInv'
  BY DEF IInv, TypeOK, Nested, Contained, RecordEnd, MessageEnd, U24, U16, At, vars, foundVars
<1>2. IInv /\ [Next]_vars => IInv'
  BY <1>1, ParseSsl2Inv, RecordInv, MessageInv, ItemInv DEF Next, Terminating
<1> QED BY InitInv, <1>2, PTL DEF Spec

(* Every variable of the parser has its type, on any input. *)
THEOREM TypeCorrect == Spec => []TypeOK
<1>1. IInv => TypeOK
  BY DEF IInv
<1> QED BY Invariance, <1>1, PTL

(***************************************************************************)
(* parse_server_response never reads behind the end of its buffer, nor an  *)
(* item of one message or record from another: it cannot panic.            *)
(***************************************************************************)
THEOREM ReadsInside == Spec => []Contained
<1>1. IInv => Contained
  BY DEF IInv
<1> QED BY Invariance, <1>1, PTL

(* Every turn of every loop moves on: no length on the wire can stop it. *)
THEOREM AlwaysAdvances == Spec => Advances
<1> DEFINE Step == [/\ offset' >= offset
                    /\ pc = "record" /\ pc' = "record" => offset' > offset
                    /\ pc = "message" /\ pc' = "record" => offset' > offset
                    /\ pc \in {"message", "extension", "certificate"} /\ pc' = "message" => hs_offset' > hs_offset
                    /\ pc \in {"extension", "certificate"} /\ pc' = pc => cursor' > cursor]_vars
<1>1. IInv /\ [Next]_vars => Step
  <2> SUFFICES ASSUME IInv, Next PROVE Step
    BY DEF vars
  <2>1. /\ TypeOK
        /\ RecordEnd \in Nat /\ offset + 5 <= RecordEnd
        /\ MessageEnd \in Nat /\ hs_offset + 4 <= MessageEnd
        /\ HeaderLen \in {3, 4}
        /\ ItemEnd \in Nat /\ cursor + HeaderLen <= ItemEnd
    BY Ends DEF IInv
  <2>2. offset \in Nat /\ hs_offset \in Nat /\ cursor \in Nat
    BY <2>1 DEF TypeOK
  <2>3. CASE ParseSsl2 \/ Start \/ ParseAlert \/ EnterRecord \/ SkipRecord \/ Finish
    BY <2>1, <2>2, <2>3, SMTT(30) DEF ParseSsl2, Start, ParseAlert, EnterRecord, SkipRecord, Finish
  <2>4. CASE ParseServerHello \/ EnterCertificates \/ SkipMessage \/ LeaveRecord
    BY <2>1, <2>2, <2>4 DEF ParseServerHello, EnterCertificates, SkipMessage, LeaveRecord
  <2>5. CASE ParseExtension \/ ParseCertificate \/ LeaveMessage
    BY <2>1, <2>2, <2>5, SMTT(30) DEF ParseExtension, ParseCertificate, LeaveMessage
  <2>6. CASE Terminating
    BY <2>6 DEF Terminating
  <2> QED BY <2>3, <2>4, <2>5, <2>6 DEF Next
<1> QED BY Invariance, <1>1, PTL DEF Spec, Advances

-----------------------------------------------------------------------------
(* Termination *)

(* A bound on the turns still to come: three for each byte ahead. *)
TurnsAhead ==
  CASE pc = "done"    -> 0
    [] pc = "start"   -> 3 * Len(data) + 2
    [] pc = "record"  -> 3 * (Len(data) - offset) + 1
    [] pc = "message" -> 3 * (Len(data) - hs_offset) + 2
    [] OTHER          -> 3 * (Len(data) - cursor) + 3

(* The bound in each loop, of which there is always one. *)
LEMMA TurnsAt ==
  ASSUME TypeOK
  PROVE  /\ pc = "done" => TurnsAhead = 0
         /\ pc = "start" => TurnsAhead = 3 * Len(data) + 2
         /\ pc = "record" => TurnsAhead = 3 * (Len(data) - offset) + 1
         /\ pc = "message" => TurnsAhead = 3 * (Len(data) - hs_offset) + 2
         /\ pc \in {"extension", "certificate"} => TurnsAhead = 3 * (Len(data) - cursor) + 3
         /\ pc \in {"start", "record", "message", "extension", "certificate", "done"}
BY DEF TurnsAhead, TypeOK

LEMMA TurnsBounded ==
  ASSUME IInv
  PROVE  TurnsAhead \in 0..3 * Len(data) + 3
<1>1. TypeOK /\ Nested /\ Len(data) \in Nat /\ RecordEnd \in Nat /\ MessageEnd \in Nat
      /\ offset \in Nat /\ hs_offset \in Nat /\ cursor \in Nat /\ limit \in Nat
  BY Ends DEF IInv, TypeOK
<1>2. CASE pc = "record"
  BY <1>1, <1>2, TurnsAt DEF Nested
<1>3. CASE pc = "message"
  BY <1>1, <1>3, TurnsAt DEF Nested
<1>4. CASE pc \in {"extension", "certificate"}
  BY <1>1, <1>4, TurnsAt DEF Nested
<1>5. CASE pc \in {"start", "done"}
  BY <1>1, <1>5, TurnsAt
<1> QED BY <1>1, <1>2, <1>3, <1>4, <1>5, TurnsAt

LEMMA TurnsFall ==
  ASSUME IInv, IInv', [Next]_vars
  PROVE  vars' = vars \/ TurnsAhead' < TurnsAhead
<1> SUFFICES ASSUME Next, ~Terminating PROVE TurnsAhead' < TurnsAhead
  BY DEF Terminating
<1>1. /\ TypeOK /\ Nested /\ Len(data) \in Nat
      /\ RecordEnd \in Nat /\ offset + 5 <= RecordEnd
      /\ MessageEnd \in Nat /\ hs_offset + 4 <= MessageEnd
      /\ HeaderLen \in {3, 4}
      /\ ItemEnd \in Nat /\ cursor + HeaderLen <= ItemEnd
  BY Ends DEF IInv
<1>2. /\ offset \in Nat /\ hs_offset \in Nat /\ cursor \in Nat /\ limit \in Nat
      /\ data \in Buffers
  BY <1>1 DEF TypeOK
<1>3. TypeOK' /\ data' = data
  BY DEF IInv, Next, ParseSsl2, Start, ParseAlert, EnterRecord, SkipRecord, Finish, ParseServerHello,
     EnterCertificates, SkipMessage, LeaveRecord, ParseExtension, ParseCertificate, LeaveMessage, Terminating, vars
<1>4. /\ pc' = "done" => TurnsAhead' = 0
      /\ pc' = "record" => TurnsAhead' = 3 * (Len(data) - offset') + 1
      /\ pc' = "message" => TurnsAhead' = 3 * (Len(data) - hs_offset') + 2
      /\ pc' \in {"extension", "certificate"} => TurnsAhead' = 3 * (Len(data) - cursor') + 3
  BY <1>3 DEF TurnsAhead, TypeOK
<1>5. CASE ParseSsl2 \/ ParseAlert \/ Finish
  <2>1. pc \in {"start", "record"} /\ pc' = "done"
    BY <1>5 DEF ParseSsl2, ParseAlert, Finish
  <2> QED BY <1>1, <1>2, <1>4, <2>1, TurnsAt DEF Nested
<1>6. CASE Start
  <2>1. pc = "start" /\ pc' \in {"done", "record"} /\ offset' = offset /\ offset = 0
    BY <1>1, <1>6 DEF Start, Nested
  <2> QED BY <1>1, <1>2, <1>4, <2>1, TurnsAt
<1>7. CASE EnterRecord \/ SkipRecord
  <2>1. \/ pc = "record" /\ pc' = "message" /\ hs_offset' = offset + 5
        \/ pc = "record" /\ pc' = "record" /\ offset' = RecordEnd
    BY <1>7 DEF EnterRecord, SkipRecord
  <2> QED BY <1>1, <1>2, <1>4, <2>1, TurnsAt
<1>8. CASE ParseServerHello \/ EnterCertificates \/ SkipMessage
  <2>1. SessionIdEnd \in Nat /\ hs_offset + 39 <= SessionIdEnd
    <3>1. hs_offset + 38 \in Nat
      BY <1>2
    <3>2. At(hs_offset + 38) \in Nat
      BY <1>2, <3>1, Fields
    <3> QED BY <1>2, <3>2 DEF SessionIdEnd
  <2>2. \/ pc = "message" /\ pc' = "extension" /\ cursor' = SessionIdEnd + 3 + 2
        \/ pc = "message" /\ pc' = "certificate" /\ cursor' = hs_offset + 7
        \/ pc = "message" /\ pc' = "message" /\ hs_offset' = MessageEnd
    BY <1>8 DEF ParseServerHello, EnterCertificates, SkipMessage
  <2> QED BY <1>1, <1>2, <1>4, <2>1, <2>2, TurnsAt
<1>9. CASE LeaveRecord
  <2>1. pc = "message" /\ pc' = "record" /\ offset' = RecordEnd /\ hs_offset <= RecordEnd
    BY <1>1, <1>9 DEF LeaveRecord, Nested
  <2> QED BY <1>1, <1>2, <1>4, <2>1, TurnsAt
<1>10. CASE ParseExtension \/ ParseCertificate
  <2>1. pc \in {"extension", "certificate"} /\ pc' = pc /\ cursor' = ItemEnd
    BY <1>10 DEF ParseExtension, ParseCertificate
  <2> QED BY <1>1, <1>2, <1>4, <2>1, TurnsAt
<1>11. CASE LeaveMessage
  <2>1. /\ pc \in {"extension", "certificate"} /\ pc' = "message" /\ hs_offset' = MessageEnd
        /\ cursor <= limit /\ limit <= MessageEnd
    BY <1>1, <1>11 DEF LeaveMessage, Nested
  <2> QED BY <1>1, <1>2, <1>4, <2>1, TurnsAt
<1> QED BY <1>5, <1>6, <1>7, <1>8, <1>9, <1>10, <1>11 DEF Next

(***************************************************************************)
(* On any input parse_server_response is done after at most three turns    *)
(* for each byte of the buffer, and three more: every step lowers a bound  *)
(* on those to come.                                                       *)
(***************************************************************************)
THEOREM TurnsRunOut ==
  Spec => [](TurnsAhead \in 0..3 * Len(data) + 3) /\ [][TurnsAhead' < TurnsAhead]_vars
<1>1. IInv => TurnsAhead \in 0..3 * Len(data) + 3
  BY TurnsBounded
<1>2. IInv /\ IInv' /\ [Next]_vars => [TurnsAhead' < TurnsAhead]_vars
  BY TurnsFall
<1> QED BY <1>1, <1>2, Invariance, PTL DEF Spec

-----------------------------------------------------------------------------
(***************************************************************************)
(* What the parser makes of flights.  The inductive invariant, Reading,    *)
(* says of every loop how many records, messages and items are behind the  *)
(* parser, where that puts it in the buffer, and that it has found what    *)
(* they tell.  First what it reads where Wire has written something; then  *)
(* the invariant, what it makes known in each loop, and one lemma for each *)
(* action.                                                                 *)
(***************************************************************************)

(* Reading what was written *)

(* What of part has arrived stands in the buffer, from position at on. *)
Sits(part, at) == \A i \in 1..Len(part) : at + i <= Len(data) => At(at + i - 1) = part[i]

LEMMA SitsReads ==
  ASSUME NEW part \in Seq(Int), NEW at \in Nat, Sits(part, at),
         NEW i \in 0..(Len(part) - 1), Len(data) \in Nat, at + i < Len(data)
  PROVE  At(at + i) = part[i + 1]
<1>1. i + 1 \in 1..Len(part) /\ at + (i + 1) <= Len(data) /\ at + (i + 1) - 1 = at + i
  OBVIOUS
<1> QED BY <1>1 DEF Sits

(* Two parts sit one behind the other. *)
LEMMA SitsSplit ==
  ASSUME NEW s \in Seq(Int), NEW t \in Seq(Int), NEW at \in Nat, Sits(s \o t, at)
  PROVE  Sits(s, at) /\ Sits(t, at + Len(s))
<1> DEFINE u == s \o t
<1>1. /\ Len(s) \in Nat /\ Len(t) \in Nat /\ Len(u) = Len(s) + Len(t)
      /\ \A i \in 1..Len(s) : u[i] = s[i]
      /\ \A i \in 1..Len(t) : u[Len(s) + i] = t[i]
  BY BehindLen, BehindFirst, BehindSecond
<1>2. Sits(u, at)
  OBVIOUS
<1> HIDE DEF u
<1>3. Sits(s, at)
  <2>1. \A i \in 1..Len(s) : i \in 1..Len(u)
    BY <1>1
  <2> QED BY <1>1, <1>2, <2>1, Zenon DEF Sits
<1>4. Sits(t, at + Len(s))
  <2> SUFFICES ASSUME NEW i \in 1..Len(t), at + Len(s) + i <= Len(data)
               PROVE  At(at + Len(s) + i - 1) = t[i]
    BY DEF Sits
  <2>1. Len(s) + i \in 1..Len(u) /\ at + (Len(s) + i) = at + Len(s) + i
    BY <1>1
  <2>2. At(at + (Len(s) + i) - 1) = u[Len(s) + i]
    BY <1>2, <2>1 DEF Sits
  <2> QED BY <1>1, <2>1, <2>2
<1> QED BY <1>3, <1>4

(* One of several parts sits behind those before it. *)
LEMMA SitsAmong ==
  ASSUME NEW ss \in Seq(Seq(Int)), NEW at \in Nat, Sits(Concat(ss), at), NEW n \in 0..(Len(ss) - 1)
  PROVE  Sits(ss[n + 1], at + Len(Concats(ss)[n]))
<1> DEFINE c == Concat(ss)
           a == Len(Concats(ss)[n])
           b == Len(Concats(ss)[n + 1])
           s == ss[n + 1]
<1>1. /\ Concats(ss)[n] \in Seq(Int) /\ s \in Seq(Int) /\ c \in Seq(Int)
      /\ b = a + Len(s) /\ b <= Len(c)
      /\ \A i \in 1..Len(s) : c[a + i] = s[i]
  BY ConcatHas, Zenon
<1>2. a \in Nat /\ Len(s) \in Nat /\ Len(c) \in Nat
  BY <1>1
<1>3. Sits(c, at)
  OBVIOUS
<1> HIDE DEF a, b, c, s
<1>4. Sits(s, at + a)
  <2> SUFFICES ASSUME NEW i \in 1..Len(s), at + a + i <= Len(data)
               PROVE  At(at + a + i - 1) = s[i]
    BY DEF Sits
  <2>1. a + i \in 1..Len(c) /\ at + (a + i) <= Len(data) /\ at + (a + i) - 1 = at + a + i - 1
    BY <1>1, <1>2
  <2>2. At(at + (a + i) - 1) = c[a + i]
    BY <1>3, <2>1, Zenon DEF Sits
  <2> QED BY <1>1, <2>1, <2>2, Zenon
<1> QED BY <1>4, Zenon DEF a, s

(* What sits wholly in the buffer is what is cut out there. *)
LEMMA SitsSlice ==
  ASSUME NEW s \in Seq(Int), NEW at \in Nat, Sits(s, at), Len(data) \in Nat, at + Len(s) <= Len(data)
  PROVE  Slice(at, at + Len(s)) = s
<1>1. \A k \in 1..Len(s) : At(at + k - 1) = s[k]
  <2> SUFFICES ASSUME NEW k \in 1..Len(s) PROVE At(at + k - 1) = s[k]
    OBVIOUS
  <2>1. at + k <= Len(data)
    OBVIOUS
  <2> QED BY <2>1 DEF Sits
<1>2. at + Len(s) - at = Len(s) /\ s = [k \in 1..Len(s) |-> s[k]]
  OBVIOUS
<1> QED BY <1>1, <1>2 DEF Slice

-----------------------------------------------------------------------------
(* Numbers and what stands behind its length *)

LEMMA Written16 ==
  ASSUME NEW n \in Nat
  PROVE  N16(n) \in Seq(Int) /\ Len(N16(n)) = 2 /\ N16(n)[1] = n \div 256 /\ N16(n)[2] = n % 256
BY DEF N16

LEMMA Written24 ==
  ASSUME NEW n \in Nat
  PROVE  /\ N24(n) \in Seq(Int) /\ Len(N24(n)) = 3
         /\ N24(n)[1] = n \div 65536
         /\ N24(n)[2] = (n % 65536) \div 256 /\ N24(n)[3] = (n % 65536) % 256
BY DEF N24, N16

LEMMA Parts16 ==
  ASSUME NEW n \in Nat
  PROVE  n \div 256 \in Nat /\ n % 256 \in Nat /\ 256 * (n \div 256) + (n % 256) = n
OBVIOUS

LEMMA Parts24 ==
  ASSUME NEW n \in Nat
  PROVE  n \div 65536 \in Nat /\ n % 65536 \in Nat /\ 65536 * (n \div 65536) + (n % 65536) = n
OBVIOUS

LEMMA Sized16 ==
  ASSUME NEW n \in Nat
  PROVE  N16(n) \in Seq(Int) /\ Len(N16(n)) = 2
BY Written16

LEMMA Sized24 ==
  ASSUME NEW n \in Nat
  PROVE  N24(n) \in Seq(Int) /\ Len(N24(n)) = 3
BY Written24

LEMMA Read16 ==
  ASSUME NEW n \in Nat, NEW at \in Nat, Sits(N16(n), at), Len(data) \in Nat, at + 2 <= Len(data)
  PROVE  U16(at) = n
<1> DEFINE p == N16(n)
           h == n \div 256
           l == n % 256
<1>1. p \in Seq(Int) /\ Len(p) = 2 /\ Sits(p, at) /\ p[1] = h /\ p[2] = l
  BY Written16
<1>2. h \in Nat /\ l \in Nat /\ 256 * h + l = n
  BY Parts16
<1> HIDE DEF p, h, l
<1>3. At(at + 0) = p[0 + 1] /\ At(at + 1) = p[1 + 1]
  <2>1. 0 \in 0..(Len(p) - 1) /\ 1 \in 0..(Len(p) - 1) /\ at + 0 < Len(data) /\ at + 1 < Len(data)
    BY <1>1
  <2> QED BY <1>1, <2>1, SitsReads
<1>4. At(at) = h /\ At(at + 1) = l
  BY <1>1, <1>3
<1> QED BY <1>2, <1>4 DEF U16

LEMMA Read24 ==
  ASSUME NEW n \in Nat, NEW at \in Nat, Sits(N24(n), at), Len(data) \in Nat, at + 3 <= Len(data)
  PROVE  U24(at) = n
<1> DEFINE p == N24(n)
           m == n % 65536
           g == n \div 65536
           h == m \div 256
           l == m % 256
<1>1. p \in Seq(Int) /\ Len(p) = 3 /\ Sits(p, at) /\ p[1] = g /\ p[2] = h /\ p[3] = l
  BY Written24
<1>2. g \in Nat /\ m \in Nat /\ 65536 * g + m = n
  BY Parts24
<1> HIDE DEF p, g, m
<1>3. h \in Nat /\ l \in Nat /\ 256 * h + l = m
  BY <1>2, Parts16
<1> HIDE DEF h, l
<1>4. At(at + 0) = p[0 + 1] /\ At(at + 1) = p[1 + 1] /\ At(at + 2) = p[2 + 1]
  <2>1. /\ 0 \in 0..(Len(p) - 1) /\ 1 \in 0..(Len(p) - 1) /\ 2 \in 0..(Len(p) - 1)
        /\ at + 0 < Len(data) /\ at + 1 < Len(data) /\ at + 2 < Len(data)
    BY <1>1
  <2> QED BY <1>1, <2>1, SitsReads
<1>5. At(at) = g /\ At(at + 1) = h /\ At(at + 1 + 1) = l
  BY <1>1, <1>4
<1>6. U16(at + 1) = m
  BY <1>3, <1>5 DEF U16
<1> QED BY <1>2, <1>5, <1>6 DEF U24

LEMMA BehindIn ==
  ASSUME NEW T, NEW s \in Seq(T), NEW t \in Seq(T)
  PROVE  s \o t \in Seq(T)
BY BehindLen

LEMMA BehindSize ==
  ASSUME NEW T, NEW s \in Seq(T), NEW t \in Seq(T)
  PROVE  Len(s \o t) = Len(s) + Len(t)
BY BehindLen

LEMMA LengthIsNat ==
  ASSUME NEW T, NEW s \in Seq(T)
  PROVE  Len(s) \in Nat
OBVIOUS

LEMMA MemberOf ==
  ASSUME NEW T, NEW s \in Seq(T), NEW i \in 1..Len(s)
  PROVE  s[i] \in T
OBVIOUS

LEMMA Written ==
  ASSUME NEW s \in Seq(Int)
  PROVE  /\ Len(s) \in Nat
         /\ Behind16(s) \in Seq(Int) /\ Len(Behind16(s)) = 2 + Len(s)
         /\ Behind24(s) \in Seq(Int) /\ Len(Behind24(s)) = 3 + Len(s)
<1> DEFINE a == N16(Len(s))
           b == N24(Len(s))
<1>1. Len(s) \in Nat
  OBVIOUS
<1>2. a \in Seq(Int) /\ Len(a) = 2 /\ b \in Seq(Int) /\ Len(b) = 3
  BY <1>1, Sized16, Sized24, Zenon
<1> HIDE DEF a, b
<1>3. a \o s \in Seq(Int) /\ b \o s \in Seq(Int)
  BY <1>2, BehindIn, Zenon
<1>4. Len(a \o s) = 2 + Len(s) /\ Len(b \o s) = 3 + Len(s)
  BY <1>2, BehindSize, Zenon
<1> QED BY <1>1, <1>3, <1>4, Zenon DEF Behind16, Behind24, a, b

LEMMA ReadBehind16 ==
  ASSUME NEW s \in Seq(Int), NEW at \in Nat, Sits(Behind16(s), at), Len(data) \in Nat
  PROVE  (at + 2 <= Len(data) => U16(at) = Len(s)) /\ Sits(s, at + 2)
<1>1. Len(s) \in Nat
  OBVIOUS
<1>2. N16(Len(s)) \in Seq(Int) /\ Len(N16(Len(s))) = 2
  BY <1>1, Written16
<1>3. Sits(N16(Len(s)), at) /\ Sits(s, at + 2)
  BY <1>2, SitsSplit DEF Behind16
<1> QED BY <1>1, <1>3, Read16

LEMMA ReadBehind24 ==
  ASSUME NEW s \in Seq(Int), NEW at \in Nat, Sits(Behind24(s), at), Len(data) \in Nat
  PROVE  (at + 3 <= Len(data) => U24(at) = Len(s)) /\ Sits(s, at + 3)
<1>1. Len(s) \in Nat
  OBVIOUS
<1>2. N24(Len(s)) \in Seq(Int) /\ Len(N24(Len(s))) = 3
  BY <1>1, Written24
<1>3. Sits(N24(Len(s)), at) /\ Sits(s, at + 3)
  BY <1>2, SitsSplit DEF Behind24
<1> QED BY <1>1, <1>3, Read24

LEMMA Written16In ==
  ASSUME NEW s \in Seq(Int)
  PROVE  Behind16(s) \in Seq(Int)
BY Written

LEMMA Written24In ==
  ASSUME NEW s \in Seq(Int)
  PROVE  Behind24(s) \in Seq(Int)
BY Written

LEMMA OctetsAreInts ==
  ASSUME NEW s \in Seq(Octet)
  PROVE  s \in Seq(Int)
<1>1. Octet \subseteq Int
  BY DEF Octet
<1> DEFINE n == Len(s)
<1>2. n \in Nat /\ s \in [1..n -> Octet]
  OBVIOUS
<1> HIDE DEF n
<1>3. s \in [1..n -> Int]
  BY <1>1, <1>2, Zenon
<1> QED BY <1>2, <1>3

LEMMA WordsAreNats == \A n \in Word : n \in Nat
BY SMTT(30) DEF Word

-----------------------------------------------------------------------------
(* An extension *)

LEMMA ExtensionFields ==
  ASSUME NEW e \in Extension
  PROVE  e.type \in Nat /\ e.body \in Seq(Octet) /\ e.body \in Seq(Int) /\ Len(e.body) \in Nat
<1>1. e.type \in Word /\ e.body \in Seq(Octet)
  BY Zenon DEF Extension
<1>2. e.body \in Seq(Int)
  BY <1>1, OctetsAreInts
<1>3. Len(e.body) \in Nat
  BY <1>1, LengthIsNat, Zenon
<1> QED BY <1>1, <1>2, <1>3, WordsAreNats, Zenon

LEMMA ExtensionWritten ==
  ASSUME NEW e \in Extension
  PROVE  ExtensionBytes(e) \in Seq(Int) /\ Len(ExtensionBytes(e)) = 4 + Len(e.body)
<1> DEFINE a == N16(e.type)
           s == e.body
           b == Behind16(s)
<1>1. e.type \in Nat /\ s \in Seq(Int) /\ Len(s) \in Nat
  BY ExtensionFields, Zenon
<1>2. a \in Seq(Int) /\ Len(a) = 2
  BY <1>1, Sized16, Zenon
<1>3. b \in Seq(Int) /\ Len(b) = 2 + Len(s)
  <2> HIDE DEF s
  <2> QED BY <1>1, Written
<1> HIDE DEF a, b, s
<1>5. a \o b \in Seq(Int) /\ Len(a \o b) = Len(a) + Len(b)
  BY <1>2, <1>3, BehindIn, BehindSize, Zenon
<1>4. a \o b \in Seq(Int) /\ Len(a \o b) = 4 + Len(s)
  BY <1>1, <1>2, <1>3, <1>5
<1> QED BY <1>4, Zenon DEF ExtensionBytes, a, b, s

LEMMA ExtensionReads ==
  ASSUME NEW e \in Extension, NEW at \in Nat, Sits(ExtensionBytes(e), at),
         Len(data) \in Nat, at + 4 <= Len(data)
  PROVE  U16(at) = e.type /\ U16(at + 2) = Len(e.body) /\ Sits(e.body, at + 4)
<1> DEFINE n == e.type
           s == e.body
           a == N16(n)
           b == Behind16(s)
<1>1. n \in Nat /\ s \in Seq(Int)
  BY ExtensionFields, Zenon
<1>2. a \in Seq(Int) /\ Len(a) = 2
  BY <1>1, Sized16, Zenon
<1>8. b \in Seq(Int)
  BY <1>1, Written16In, Zenon
<1>3. Sits(a \o b, at)
  BY Zenon DEF ExtensionBytes
<1> HIDE DEF n, s
<1>4. Sits(a, at) /\ Sits(b, at + 2)
  <2> HIDE DEF a, b
  <2> QED BY <1>2, <1>3, <1>8, SitsSplit
<1>5. U16(at) = n
  <2>1. at + 2 <= Len(data)
    OBVIOUS
  <2> QED BY <1>1, <1>4, <2>1, Read16, Zenon
<1>6. U16(at + 2) = Len(s) /\ Sits(s, at + 2 + 2)
  <2>1. at + 2 \in Nat /\ at + 2 + 2 <= Len(data)
    OBVIOUS
  <2> QED BY <1>1, <1>4, <2>1, ReadBehind16, Zenon
<1>7. at + 2 + 2 = at + 4
  OBVIOUS
<1> QED BY <1>5, <1>6, <1>7, Zenon DEF n, s

(* SaysTls13, of the extension at a position. *)
Says13(at) == U16(at) = 43 /\ U16(at + 2) >= 2 /\ U16(at + 4) = 772

(* The parser sees that it selects TLS 1.3. *)
LEMMA ExtensionSays ==
  ASSUME NEW e \in Extension, IsExtension(e), NEW at \in Nat, Sits(ExtensionBytes(e), at),
         Len(data) \in Nat, at + 4 + Len(e.body) <= Len(data)
  PROVE  Says13(at) <=> SelectsTls13(e)
<1> DEFINE b == e.body
           n == e.type
<1>1. b \in Seq(Octet) /\ b \in Seq(Int) /\ Len(b) \in Nat /\ n \in Nat
  BY ExtensionFields, Zenon
<1>2. n = 43 => Len(b) = 2
  BY DEF IsExtension, SupportedVersions
<1>3. SelectsTls13(e) <=> n = 43 /\ b = <<3, 4>>
  BY Zenon DEF SelectsTls13, SupportedVersions
<1>4. at + 4 + Len(b) <= Len(data)
  OBVIOUS
<1>5. U16(at) = n /\ U16(at + 2) = Len(b) /\ Sits(b, at + 4)
  <2>1. at + 4 <= Len(data)
    <3> HIDE DEF b
    <3> QED BY <1>1, <1>4
  <2> QED BY <2>1, ExtensionReads, Zenon
<1> HIDE DEF b, n
<1>6. CASE n = 43
  <2>1. Len(b) = 2 /\ at + 4 + 2 <= Len(data)
    BY <1>2, <1>4, <1>6
  <2>3. At(at + 4 + 0) = b[0 + 1] /\ At(at + 4 + 1) = b[1 + 1]
    <3>1. /\ at + 4 \in Nat /\ 0 \in 0..(Len(b) - 1) /\ 1 \in 0..(Len(b) - 1)
          /\ at + 4 + 0 < Len(data) /\ at + 4 + 1 < Len(data)
      BY <2>1
    <3> QED BY <1>1, <1>5, <3>1, SitsReads
  <2>4. U16(at + 4) = 256 * b[1] + b[2]
    BY <2>3 DEF U16
  <2>5. b[1] \in 0..255 /\ b[2] \in 0..255
    <3>1. 1 \in 1..Len(b) /\ 2 \in 1..Len(b)
      BY <2>1
    <3>2. b[1] \in Octet /\ b[2] \in Octet
      BY <1>1, <3>1, MemberOf, Zenon
    <3> QED BY <3>2, Zenon DEF Octet
  <2>6. U16(at + 4) = 772 <=> b[1] = 3 /\ b[2] = 4
    <3> DEFINE x == b[1]
               y == b[2]
               u == U16(at + 4)
    <3>1. x \in 0..255 /\ y \in 0..255 /\ u = 256 * x + y
      BY <2>4, <2>5, Zenon
    <3> HIDE DEF x, y, u
    <3>2. u = 772 <=> x = 3 /\ y = 4
      BY <3>1
    <3> QED BY <3>2, Zenon DEF x, y, u
  <2>7. b = <<3, 4>> <=> b[1] = 3 /\ b[2] = 4
    BY <1>1, <2>1
  <2>8. U16(at + 2) >= 2
    BY <1>5, <2>1
  <2>9. SelectsTls13(e) <=> U16(at + 4) = 772
    BY <1>3, <1>6, <2>6, <2>7, Zenon
  <2> QED BY <1>5, <1>6, <2>8, <2>9 DEF Says13
<1>7. CASE n # 43
  BY <1>3, <1>5, <1>7 DEF Says13
<1> QED BY <1>6, <1>7

-----------------------------------------------------------------------------
(* A ServerHello *)

LEMMA HelloFields ==
  ASSUME NEW m \in HelloMessage
  PROVE  /\ m.kind = "hello" /\ m.version \in {"Ssl3", "Tls10", "Tls11", "Tls12", "Tls13"}
         /\ m.random \in [1..32 -> Octet] /\ m.session_id \in Seq(Octet)
         /\ m.suite \in Nat /\ m.extended \in BOOLEAN /\ m.extensions \in Seq(Extension)
<1>1. /\ m.kind = "hello" /\ m.version \in {"Ssl3", "Tls10", "Tls11", "Tls12", "Tls13"}
      /\ m.random \in [1..32 -> Octet] /\ m.session_id \in Seq(Octet)
      /\ m.suite \in Word /\ m.extended \in BOOLEAN /\ m.extensions \in Seq(Extension)
  BY Zenon DEF HelloMessage
<1> QED BY <1>1, WordsAreNats, Zenon

LEMMA ExtensionsWritten ==
  ASSUME NEW m \in HelloMessage
  PROVE  /\ ExtensionsOf(m) \in Seq(Seq(Int)) /\ Len(ExtensionsOf(m)) = Len(m.extensions)
         /\ Len(m.extensions) \in Nat
         /\ \A i \in 1..Len(m.extensions) :
              ExtensionsOf(m)[i] = ExtensionBytes(m.extensions[i]) /\ m.extensions[i] \in Extension
<1> DEFINE s == m.extensions
           n == Len(s)
           t == [i \in 1..n |-> ExtensionBytes(s[i])]
<1>1. s \in Seq(Extension)
  BY HelloFields, Zenon
<1>2. n \in Nat /\ \A i \in 1..n : s[i] \in Extension
  BY <1>1, LengthIsNat, MemberOf, Zenon
<1>3. \A i \in 1..n : ExtensionBytes(s[i]) \in Seq(Int)
  BY <1>2, ExtensionWritten, Zenon
<1>4. ExtensionsOf(m) = t
  BY Zenon DEF ExtensionsOf
<1> HIDE DEF n, s
<1>5. t \in [1..n -> Seq(Int)]
  BY <1>3, Zenon
<1> HIDE DEF t
<1>6. t \in Seq(Seq(Int)) /\ Len(t) = n
  BY <1>2, <1>5
<1>7. \A i \in 1..n : t[i] = ExtensionBytes(s[i])
  BY Zenon DEF t
<1> QED BY <1>2, <1>4, <1>6, <1>7, Zenon DEF n, s

(* What a ServerHello has behind its compression method. *)
HelloTail(m) == IF m.extended THEN Behind16(Concat(ExtensionsOf(m))) ELSE <<>>

LEMMA WholeIn ==
  ASSUME NEW ss \in Seq(Seq(Int))
  PROVE  Concat(ss) \in Seq(Int) /\ Concats(ss)[0] = <<>> /\ \A n \in 0..Len(ss) : Concats(ss)[n] \in Seq(Int)
<1> Len(ss) \in Nat
  OBVIOUS
<1>1. Len(ss) \in 0..Len(ss)
  OBVIOUS
<1>2. \A n \in 0..Len(ss) : Concats(ss)[n] \in Seq(Int)
  BY ConcatsIn, Zenon
<1>3. Concats(ss)[0] = <<>>
  BY ConcatsUnfold
<1> QED BY <1>1, <1>2, <1>3, Zenon DEF Concat

(* Seven parts, one behind the other. *)
IsSeven(a, b, c, d, e, g, x, all) ==
  /\ all \in Seq(Int)
  /\ Len(all) = Len(a) + Len(b) + Len(c) + Len(d) + Len(e) + Len(g) + Len(x)
  /\ \A at \in Nat : Sits(all, at) =>
       /\ Sits(a, at)
       /\ Sits(c, at + (Len(a) + Len(b)))
       /\ Sits(e, at + (Len(a) + Len(b) + Len(c) + Len(d)))
       /\ Sits(x, at + (Len(a) + Len(b) + Len(c) + Len(d) + Len(e) + Len(g)))

LEMMA SevenParts ==
  ASSUME NEW a \in Seq(Int), NEW b \in Seq(Int), NEW c \in Seq(Int), NEW d \in Seq(Int),
         NEW e \in Seq(Int), NEW g \in Seq(Int), NEW x \in Seq(Int)
  PROVE  IsSeven(a, b, c, d, e, g, x, a \o b \o c \o d \o e \o g \o x)
<1> DEFINE ab == a \o b
           abc == ab \o c
           abcd == abc \o d
           abcde == abcd \o e
           abcdeg == abcde \o g
           all == abcdeg \o x
<1>1. ab \in Seq(Int) /\ Len(ab) = Len(a) + Len(b)
  BY BehindIn, BehindSize, Zenon
<1>a. \A at \in Nat : Sits(ab, at) => Sits(a, at)
  BY SitsSplit, Zenon
<1> HIDE DEF ab
<1>2. abc \in Seq(Int) /\ Len(abc) = Len(a) + Len(b) + Len(c)
  BY <1>1, BehindIn, BehindSize, Zenon
<1>b. \A at \in Nat : Sits(abc, at) => Sits(ab, at) /\ Sits(c, at + (Len(a) + Len(b)))
  BY <1>1, SitsSplit, Zenon
<1> HIDE DEF abc
<1>3. abcd \in Seq(Int) /\ Len(abcd) = Len(a) + Len(b) + Len(c) + Len(d)
  BY <1>2, BehindIn, BehindSize, Zenon
<1>c. \A at \in Nat : Sits(abcd, at) => Sits(abc, at)
  BY <1>2, SitsSplit, Zenon
<1> HIDE DEF abcd
<1>4. abcde \in Seq(Int) /\ Len(abcde) = Len(a) + Len(b) + Len(c) + Len(d) + Len(e)
  BY <1>3, BehindIn, BehindSize, Zenon
<1>d. \A at \in Nat : Sits(abcde, at) => Sits(abcd, at) /\ Sits(e, at + (Len(a) + Len(b) + Len(c) + Len(d)))
  BY <1>3, SitsSplit, Zenon
<1> HIDE DEF abcde
<1>5. abcdeg \in Seq(Int) /\ Len(abcdeg) = Len(a) + Len(b) + Len(c) + Len(d) + Len(e) + Len(g)
  BY <1>4, BehindIn, BehindSize, Zenon
<1>e. \A at \in Nat : Sits(abcdeg, at) => Sits(abcde, at)
  BY <1>4, SitsSplit, Zenon
<1> HIDE DEF abcdeg
<1>6. all \in Seq(Int) /\ Len(all) = Len(a) + Len(b) + Len(c) + Len(d) + Len(e) + Len(g) + Len(x)
  BY <1>5, BehindIn, BehindSize, Zenon
<1>g. \A at \in Nat : Sits(all, at) =>
        Sits(abcdeg, at) /\ Sits(x, at + (Len(a) + Len(b) + Len(c) + Len(d) + Len(e) + Len(g)))
  BY <1>5, SitsSplit, Zenon
<1>7. all = a \o b \o c \o d \o e \o g \o x
  BY Zenon DEF ab, abc, abcd, abcde, abcdeg
<1> HIDE DEF all
<1>8. \A at \in Nat : Sits(all, at) =>
        /\ Sits(a, at)
        /\ Sits(c, at + (Len(a) + Len(b)))
        /\ Sits(e, at + (Len(a) + Len(b) + Len(c) + Len(d)))
        /\ Sits(x, at + (Len(a) + Len(b) + Len(c) + Len(d) + Len(e) + Len(g)))
  BY <1>a, <1>b, <1>c, <1>d, <1>e, <1>g, Zenon
<1> QED BY <1>6, <1>7, <1>8, Zenon DEF IsSeven

LEMMA VersionWritten ==
  ASSUME NEW v
  PROVE  VersionNumber(v) \in Nat
BY DEF VersionNumber

LEMMA OneNumber ==
  ASSUME NEW n \in Int
  PROVE  <<n>> \in Seq(Int) /\ Len(<<n>>) = 1 /\ <<n>>[1] = n
OBVIOUS

LEMMA FunctionIsSequence ==
  ASSUME NEW T, NEW n \in Nat, NEW f \in [1..n -> T]
  PROVE  f \in Seq(T) /\ Len(f) = n
OBVIOUS

LEMMA RandomWritten ==
  ASSUME NEW r \in [1..32 -> Octet]
  PROVE  r \in Seq(Int) /\ Len(r) = 32
<1>1. 32 \in Nat
  OBVIOUS
<1>2. r \in Seq(Octet) /\ Len(r) = 32
  BY <1>1, FunctionIsSequence, Zenon
<1> QED BY <1>2, OctetsAreInts, Zenon

LEMMA TailWritten ==
  ASSUME NEW m \in HelloMessage
  PROVE  HelloTail(m) \in Seq(Int)
<1>1. Behind16(Concat(ExtensionsOf(m))) \in Seq(Int)
  BY ExtensionsWritten, WholeIn, Written16In, Zenon
<1>2. <<>> \in Seq(Int)
  OBVIOUS
<1> QED BY <1>1, <1>2, Zenon DEF HelloTail

LEMMA HelloWritten ==
  ASSUME NEW m \in HelloMessage
  PROVE  /\ HelloBody(m) \in Seq(Int)
         /\ Len(HelloBody(m)) = 38 + Len(m.session_id) + Len(HelloTail(m))
         /\ \A at \in Nat : Sits(HelloBody(m), at) =>
              /\ Sits(N16(VersionNumber(m.version)), at)
              /\ Sits(<<Len(m.session_id)>>, at + 34)
              /\ Sits(N16(m.suite), at + 35 + Len(m.session_id))
              /\ Sits(HelloTail(m), at + 38 + Len(m.session_id))
<1> DEFINE s == m.session_id
           l == Len(s)
           a == N16(VersionNumber(m.version))
           r == m.random
           c == <<l>>
           e == N16(m.suite)
           g == <<0>>
           x == HelloTail(m)
           body == a \o r \o c \o s \o e \o g \o x
<1>1. s \in Seq(Octet) /\ r \in [1..32 -> Octet] /\ m.suite \in Nat
  BY HelloFields, Zenon
<1>2. s \in Seq(Int) /\ l \in Nat
  BY <1>1, OctetsAreInts, LengthIsNat, Zenon
<1>3. r \in Seq(Int) /\ Len(r) = 32
  BY <1>1, RandomWritten, Zenon
<1>4. a \in Seq(Int) /\ Len(a) = 2 /\ e \in Seq(Int) /\ Len(e) = 2
  BY <1>1, VersionWritten, Sized16, Zenon
<1>5. c \in Seq(Int) /\ Len(c) = 1 /\ g \in Seq(Int) /\ Len(g) = 1
  <2>1. l \in Int /\ 0 \in Int
    BY <1>2
  <2> QED BY <2>1, OneNumber, Zenon
<1>6. x \in Seq(Int)
  BY TailWritten, Zenon
<1>14. Len(x) \in Nat
  BY <1>6, LengthIsNat, Zenon
<1>7. HelloBody(m) = body
  BY Zenon DEF HelloBody, HelloTail
<1> HIDE DEF a, r, c, e, g, x, s
<1>15. IsSeven(a, r, c, s, e, g, x, body)
  <2>1. /\ a \in Seq(Int) /\ r \in Seq(Int) /\ c \in Seq(Int) /\ s \in Seq(Int)
        /\ e \in Seq(Int) /\ g \in Seq(Int) /\ x \in Seq(Int)
    BY <1>2, <1>3, <1>4, <1>5, <1>6, Zenon
  <2> QED BY <2>1, SevenParts, Zenon
<1> HIDE DEF body
<1>8. /\ body \in Seq(Int)
      /\ Len(body) = Len(a) + Len(r) + Len(c) + l + Len(e) + Len(g) + Len(x)
      /\ \A at \in Nat : Sits(body, at) =>
           /\ Sits(a, at)
           /\ Sits(c, at + (Len(a) + Len(r)))
           /\ Sits(e, at + (Len(a) + Len(r) + Len(c) + l))
           /\ Sits(x, at + (Len(a) + Len(r) + Len(c) + l + Len(e) + Len(g)))
  BY <1>15, Zenon DEF IsSeven
<1> HIDE DEF l
<1>9. Len(body) = 38 + l + Len(x)
  BY <1>2, <1>3, <1>4, <1>5, <1>8, <1>14
<1>10. Len(a) + Len(r) = 34 /\ Len(a) + Len(r) + Len(c) + l = 35 + l
       /\ Len(a) + Len(r) + Len(c) + l + Len(e) + Len(g) = 38 + l
  BY <1>2, <1>3, <1>4, <1>5
<1>11. \A at \in Nat : Sits(body, at) =>
           Sits(a, at) /\ Sits(c, at + 34) /\ Sits(e, at + (35 + l)) /\ Sits(x, at + (38 + l))
  BY <1>8, <1>10, Zenon
<1>12. \A at \in Nat : at + (35 + l) = at + 35 + l /\ at + (38 + l) = at + 38 + l
  BY <1>2
<1>13. \A at \in Nat : Sits(body, at) =>
           Sits(a, at) /\ Sits(c, at + 34) /\ Sits(e, at + 35 + l) /\ Sits(x, at + 38 + l)
  BY <1>11, <1>12, Zenon
<1> QED BY <1>7, <1>8, <1>9, <1>13, Zenon DEF l, s, a, c, e, x

LEMMA HelloReads ==
  ASSUME NEW m \in HelloMessage, NEW at \in Nat, Sits(HelloBody(m), at),
         Len(data) \in Nat, at + Len(HelloBody(m)) <= Len(data)
  PROVE  /\ U16(at) = VersionNumber(m.version)
         /\ At(at + 34) = Len(m.session_id)
         /\ U16(at + 35 + Len(m.session_id)) = m.suite
<1> DEFINE s == m.session_id
           l == Len(s)
           n == Len(HelloTail(m))
           v == VersionNumber(m.version)
           c == <<l>>
<1>1. l \in Nat /\ m.suite \in Nat /\ v \in Nat /\ n \in Nat
  BY HelloFields, LengthIsNat, VersionWritten, TailWritten, Zenon
<1>2. Sits(N16(v), at) /\ Sits(c, at + 34) /\ Sits(N16(m.suite), at + 35 + l)
  BY HelloWritten, Zenon
<1>3. Len(HelloBody(m)) = 38 + l + n
  BY HelloWritten, Zenon
<1>4. c \in Seq(Int) /\ Len(c) = 1 /\ c[1] = l
  <2>1. l \in Int
    BY <1>1
  <2> QED BY <2>1, OneNumber, Zenon
<1> HIDE DEF l, n, v, c
<1>5. /\ at + 2 <= Len(data) /\ at + 35 <= Len(data) /\ at + 34 \in Nat /\ at + 35 + l \in Nat
      /\ at + 35 + l + 2 <= Len(data)
  BY <1>1, <1>3
<1>6. U16(at) = v /\ U16(at + 35 + l) = m.suite
  BY <1>1, <1>2, <1>5, Read16, Zenon
<1>7. At(at + 34) = l
  <2>1. 0 \in 0..(Len(c) - 1) /\ at + 34 + 0 < Len(data)
    BY <1>4, <1>5
  <2>2. At(at + 34 + 0) = c[0 + 1]
    BY <1>2, <1>4, <1>5, <2>1, SitsReads, Zenon
  <2>3. at + 34 + 0 = at + 34 /\ 0 + 1 = 1
    OBVIOUS
  <2> QED BY <1>4, <2>2, <2>3, Zenon
<1> QED BY <1>6, <1>7, Zenon DEF l, v

LEMMA TailReads ==
  ASSUME NEW m \in HelloMessage, m.extended, NEW at \in Nat, Sits(HelloTail(m), at), Len(data) \in Nat
  PROVE  /\ Len(HelloTail(m)) = 2 + Len(Concat(ExtensionsOf(m)))
         /\ at + 2 <= Len(data) => U16(at) = Len(Concat(ExtensionsOf(m)))
         /\ Sits(Concat(ExtensionsOf(m)), at + 2)
<1> DEFINE s == Concat(ExtensionsOf(m))
<1>1. HelloTail(m) = Behind16(s)
  BY Zenon DEF HelloTail
<1>2. s \in Seq(Int)
  BY ExtensionsWritten, WholeIn, Zenon
<1> HIDE DEF s
<1>3. Len(Behind16(s)) = 2 + Len(s)
  BY <1>2, Written
<1>4. (at + 2 <= Len(data) => U16(at) = Len(s)) /\ Sits(s, at + 2)
  BY <1>1, <1>2, ReadBehind16, Zenon
<1> QED BY <1>1, <1>3, <1>4, Zenon DEF s

(* An item with h bytes before its n, behind a others, in a part of c from at on. *)
IsPlace(at, a, b, c, h, n, q) ==
  /\ at + a \in Nat /\ at + a + h <= q /\ at + a + h + n <= q
  /\ at + a + h + n = at + b /\ at + a + h + n <= at + c

LEMMA ItemPlace ==
  ASSUME NEW at \in Nat, NEW a \in Nat, NEW c \in Nat, NEW n \in Nat, NEW h \in Nat,
         NEW q \in Nat, NEW b, NEW d, d = h + n, b = a + d, b <= c, at + c <= q
  PROVE  IsPlace(at, a, b, c, h, n, q)
BY DEF IsPlace

(* An extension among those of a ServerHello: where it is and what is read there. *)
LEMMA ExtensionAmong ==
  ASSUME NEW m \in HelloMessage, IsHello(m), NEW at \in Nat, Sits(Concat(ExtensionsOf(m)), at),
         Len(data) \in Nat, at + Len(Concat(ExtensionsOf(m))) <= Len(data),
         NEW i \in 0..(Len(m.extensions) - 1),
         NEW from, from = at + Len(Concats(ExtensionsOf(m))[i])
  PROVE  /\ from \in Nat
         /\ U16(from + 2) \in Nat
         /\ from + 4 + U16(from + 2) = at + Len(Concats(ExtensionsOf(m))[i + 1])
         /\ from + 4 + U16(from + 2) <= at + Len(Concat(ExtensionsOf(m)))
         /\ Says13(from) <=> SelectsTls13(m.extensions[i + 1])
<1> DEFINE ss == ExtensionsOf(m)
           e == m.extensions[i + 1]
           a == Len(Concats(ss)[i])
           b == Len(Concats(ss)[i + 1])
           c == Len(Concat(ss))
           n == Len(e.body)
<1>1. /\ ss \in Seq(Seq(Int)) /\ Len(ss) = Len(m.extensions) /\ Len(m.extensions) \in Nat
      /\ \A k \in 1..Len(m.extensions) : ss[k] = ExtensionBytes(m.extensions[k]) /\ m.extensions[k] \in Extension
  BY ExtensionsWritten, Zenon
<1>2. i + 1 \in 1..Len(m.extensions) /\ i \in 0..(Len(ss) - 1) /\ i \in 0..Len(ss)
  BY <1>1
<1>3. ss[i + 1] = ExtensionBytes(e) /\ e \in Extension /\ IsExtension(e)
  BY <1>1, <1>2, Zenon DEF IsHello
<1>4. n \in Nat /\ Len(ss[i + 1]) = 4 + n
  BY <1>3, ExtensionFields, ExtensionWritten, Zenon
<1>5. Concats(ss)[i] \in Seq(Int) /\ b = a + Len(ss[i + 1]) /\ b <= c
  BY <1>1, <1>2, ConcatHas, Zenon
<1>6. a \in Nat /\ c \in Nat
  BY <1>1, <1>5, LengthIsNat, WholeIn, Zenon
<1>7. Sits(ExtensionBytes(e), at + a)
  BY <1>1, <1>2, <1>3, SitsAmong, Zenon
<1>8. from = at + a
  OBVIOUS
<1> HIDE DEF ss, a, b, c, n, e
<1>9. from \in Nat /\ from + 4 + n <= Len(data) /\ from + 4 <= Len(data)
      /\ from + 4 + n = at + b /\ from + 4 + n <= at + c
  <2> DEFINE d == Len(ss[i + 1])
             q == Len(data)
  <2>1. at + c <= q /\ q \in Nat
    BY Zenon DEF c, ss
  <2>2. d = 4 + n /\ b = a + d /\ b <= c
    BY <1>4, <1>5, Zenon
  <2> HIDE DEF d, q
  <2>3. IsPlace(at, a, b, c, 4, n, q)
    <3>1. 4 \in Nat
      OBVIOUS
    <3> QED BY <1>4, <1>6, <2>1, <2>2, <3>1, ItemPlace, Zenon
  <2> QED BY <1>8, <2>3, Zenon DEF IsPlace, q
<1>12. Sits(ExtensionBytes(e), from)
  BY <1>7, <1>8, Zenon
<1>10. U16(from + 2) = n
  BY <1>3, <1>9, <1>12, ExtensionReads, Zenon DEF n
<1>11. Says13(from) <=> SelectsTls13(e)
  BY <1>3, <1>9, <1>12, ExtensionSays, Zenon DEF n
<1> QED BY <1>4, <1>9, <1>10, <1>11, Zenon DEF b, c, ss, e

-----------------------------------------------------------------------------
(* A certificate *)

LEMMA CertificateFields ==
  ASSUME NEW m \in CertificateMessage
  PROVE  m.kind = "certificate" /\ m.chain \in Seq(Seq(Octet))
BY Zenon DEF CertificateMessage

LEMMA CertificatesWritten ==
  ASSUME NEW m \in CertificateMessage
  PROVE  /\ CertificatesOf(m) \in Seq(Seq(Int)) /\ Len(CertificatesOf(m)) = Len(m.chain)
         /\ Len(m.chain) \in Nat
         /\ \A i \in 1..Len(m.chain) :
              CertificatesOf(m)[i] = Behind24(m.chain[i]) /\ m.chain[i] \in Seq(Int)
<1> DEFINE s == m.chain
           n == Len(s)
           t == [i \in 1..n |-> Behind24(s[i])]
<1>1. s \in Seq(Seq(Octet))
  BY CertificateFields, Zenon
<1>2. n \in Nat /\ \A i \in 1..n : s[i] \in Seq(Int)
  BY <1>1, LengthIsNat, MemberOf, OctetsAreInts, Zenon
<1>3. \A i \in 1..n : Behind24(s[i]) \in Seq(Int)
  BY <1>2, Written24In, Zenon
<1>4. CertificatesOf(m) = t
  BY Zenon DEF CertificatesOf
<1> HIDE DEF n, s
<1>5. t \in [1..n -> Seq(Int)]
  BY <1>3, Zenon
<1>7. \A i \in 1..n : t[i] = Behind24(s[i])
  BY Zenon DEF t
<1> HIDE DEF t
<1>6. t \in Seq(Seq(Int)) /\ Len(t) = n
  BY <1>2, <1>5, FunctionIsSequence, Zenon
<1> QED BY <1>2, <1>4, <1>6, <1>7, Zenon DEF n, s

(* A certificate among those of a message. *)
LEMMA CertificateAmong ==
  ASSUME NEW m \in CertificateMessage, NEW at \in Nat, Sits(Concat(CertificatesOf(m)), at),
         Len(data) \in Nat, at + Len(Concat(CertificatesOf(m))) <= Len(data),
         NEW i \in 0..(Len(m.chain) - 1),
         NEW from, from = at + Len(Concats(CertificatesOf(m))[i])
  PROVE  /\ from \in Nat /\ from + 3 \in Nat
         /\ U24(from) \in Nat
         /\ from + 3 + U24(from) = at + Len(Concats(CertificatesOf(m))[i + 1])
         /\ from + 3 + U24(from) <= at + Len(Concat(CertificatesOf(m)))
         /\ Slice(from + 3, from + 3 + U24(from)) = m.chain[i + 1]
<1> DEFINE ss == CertificatesOf(m)
           e == m.chain[i + 1]
           a == Len(Concats(ss)[i])
           b == Len(Concats(ss)[i + 1])
           c == Len(Concat(ss))
           d == Len(ss[i + 1])
           n == Len(e)
           q == Len(data)
<1>1. /\ ss \in Seq(Seq(Int)) /\ Len(ss) = Len(m.chain) /\ Len(m.chain) \in Nat
      /\ \A k \in 1..Len(m.chain) : ss[k] = Behind24(m.chain[k]) /\ m.chain[k] \in Seq(Int)
  BY CertificatesWritten, Zenon
<1>2. i + 1 \in 1..Len(m.chain) /\ i \in 0..(Len(ss) - 1) /\ i \in 0..Len(ss)
  BY <1>1
<1>3. ss[i + 1] = Behind24(e) /\ e \in Seq(Int)
  BY <1>1, <1>2, Zenon
<1>4. n \in Nat
  BY <1>3, LengthIsNat, Zenon
<1>5. d = 3 + n
  <2> HIDE DEF e
  <2> QED BY <1>3, Written
<1>6. Concats(ss)[i] \in Seq(Int) /\ b = a + d /\ b <= c
  BY <1>1, <1>2, ConcatHas, Zenon
<1>7. a \in Nat /\ c \in Nat /\ q \in Nat /\ at + c <= q
  BY <1>1, <1>6, LengthIsNat, WholeIn, Zenon
<1>8. Sits(Behind24(e), at + a)
  BY <1>1, <1>2, <1>3, SitsAmong, Zenon
<1>9. from = at + a
  OBVIOUS
<1> HIDE DEF ss, a, b, c, d, e, n, q
<1>10. IsPlace(at, a, b, c, 3, n, q)
  <2>1. 3 \in Nat
    OBVIOUS
  <2> QED BY <1>4, <1>5, <1>6, <1>7, <2>1, ItemPlace, Zenon
<1>11. /\ from \in Nat /\ from + 3 <= q /\ from + 3 + n <= q
       /\ from + 3 + n = at + b /\ from + 3 + n <= at + c
  BY <1>9, <1>10, Zenon DEF IsPlace
<1>12. U24(from) = n /\ Sits(e, from + 3)
  BY <1>3, <1>8, <1>9, <1>11, ReadBehind24, Zenon DEF q, n
<1>13. from + 3 \in Nat
  BY <1>11
<1>14. Slice(from + 3, from + 3 + n) = e
  BY <1>3, <1>11, <1>12, <1>13, SitsSlice, Zenon DEF q, n
<1> QED BY <1>4, <1>11, <1>12, <1>13, <1>14, Zenon DEF b, c, ss, e

-----------------------------------------------------------------------------
(* A message *)

LEMMA OtherFields ==
  ASSUME NEW m \in OtherMessage
  PROVE  m.kind = "other" /\ m.code \in Octet /\ m.code # 2 /\ m.code # 11 /\ m.body \in Seq(Octet)
<1>1. m.kind = "other" /\ m.code \in Octet \ {2, 11} /\ m.body \in Seq(Octet)
  BY Zenon DEF OtherMessage
<1> QED BY <1>1

(* The three kinds of messages, and what they are written as. *)
LEMMA MessageKinds ==
  ASSUME NEW m \in Message
  PROVE  /\ m.kind \in {"hello", "certificate", "other"}
         /\ m.kind = "hello" => m \in HelloMessage /\ CodeOf(m) = 2 /\ BodyOf(m) = HelloBody(m)
         /\ m.kind = "certificate" =>
              m \in CertificateMessage /\ CodeOf(m) = 11 /\ BodyOf(m) = Behind24(Concat(CertificatesOf(m)))
         /\ m.kind = "other" => m \in OtherMessage /\ CodeOf(m) = m.code /\ BodyOf(m) = m.body
<1>1. "hello" # "certificate" /\ "hello" # "other" /\ "certificate" # "other"
  OBVIOUS
<1>2. CASE m \in HelloMessage
  BY <1>1, <1>2, HelloFields, Zenon DEF CodeOf, BodyOf
<1>3. CASE m \in CertificateMessage
  BY <1>1, <1>3, CertificateFields, Zenon DEF CodeOf, BodyOf
<1>4. CASE m \in OtherMessage
  BY <1>1, <1>4, OtherFields, Zenon DEF CodeOf, BodyOf
<1> QED BY <1>2, <1>3, <1>4, Zenon DEF Message

LEMMA MessageWritten ==
  ASSUME NEW m \in Message
  PROVE  /\ CodeOf(m) \in Int /\ BodyOf(m) \in Seq(Int) /\ Len(BodyOf(m)) \in Nat
         /\ MessageBytes(m) \in Seq(Int) /\ Len(MessageBytes(m)) = 4 + Len(BodyOf(m))
<1> DEFINE b == BodyOf(m)
           n == CodeOf(m)
           c == <<n>>
           d == Behind24(b)
<1>1. n \in Int
  <2>1. \A k \in Octet : k \in Int
    BY DEF Octet
  <2>2. 2 \in Int /\ 11 \in Int
    OBVIOUS
  <2> QED BY <2>1, <2>2, MessageKinds, OtherFields, Zenon
<1>2. b \in Seq(Int)
  <2>1. CASE m.kind = "hello"
    BY <2>1, MessageKinds, HelloWritten, Zenon
  <2>2. CASE m.kind = "certificate"
    BY <2>2, MessageKinds, CertificatesWritten, WholeIn, Written24In, Zenon
  <2>3. CASE m.kind = "other"
    BY <2>3, MessageKinds, OtherFields, OctetsAreInts, Zenon
  <2> QED BY <2>1, <2>2, <2>3, MessageKinds, Zenon
<1>3. MessageBytes(m) = c \o d
  BY Zenon DEF MessageBytes
<1> HIDE DEF b, n
<1>4. Len(b) \in Nat /\ d \in Seq(Int) /\ Len(d) = 3 + Len(b)
  BY <1>2, Written
<1>5. c \in Seq(Int) /\ Len(c) = 1
  BY <1>1, OneNumber, Zenon
<1> HIDE DEF c, d
<1>6. c \o d \in Seq(Int) /\ Len(c \o d) = Len(c) + Len(d)
  BY <1>4, <1>5, BehindIn, BehindSize, Zenon
<1>7. Len(c \o d) = 4 + Len(b)
  BY <1>4, <1>5, <1>6
<1> QED BY <1>1, <1>2, <1>3, <1>4, <1>6, <1>7, Zenon DEF b, n

LEMMA MessageReads ==
  ASSUME NEW m \in Message, NEW at \in Nat, Sits(MessageBytes(m), at),
         Len(data) \in Nat, at + 4 <= Len(data)
  PROVE  At(at) = CodeOf(m) /\ U24(at + 1) = Len(BodyOf(m)) /\ Sits(BodyOf(m), at + 4)
<1> DEFINE b == BodyOf(m)
           n == CodeOf(m)
           c == <<n>>
           d == Behind24(b)
<1>1. n \in Int /\ b \in Seq(Int)
  BY MessageWritten, Zenon
<1>3. Sits(c \o d, at)
  BY Zenon DEF MessageBytes
<1> HIDE DEF b, n
<1>4. d \in Seq(Int)
  BY <1>1, Written24In, Zenon
<1>5. c \in Seq(Int) /\ Len(c) = 1 /\ c[1] = n
  BY <1>1, OneNumber, Zenon
<1>6. Sits(c, at) /\ Sits(d, at + 1)
  <2> HIDE DEF c, d
  <2> QED BY <1>3, <1>4, <1>5, SitsSplit
<1>7. at + 1 \in Nat /\ at + 1 + 3 <= Len(data) /\ at + 1 + 3 = at + 4
  OBVIOUS
<1>8. U24(at + 1) = Len(b) /\ Sits(b, at + 1 + 3)
  BY <1>1, <1>6, <1>7, ReadBehind24, Zenon
<1> HIDE DEF c
<1>9. At(at) = n
  <2>1. 0 \in 0..(Len(c) - 1) /\ at + 0 < Len(data) /\ at + 0 = at /\ 0 + 1 = 1
    BY <1>5
  <2>2. At(at + 0) = c[0 + 1]
    BY <1>5, <1>6, <2>1, SitsReads, Zenon
  <2> QED BY <1>5, <2>1, <2>2, Zenon
<1> QED BY <1>7, <1>8, <1>9, Zenon DEF b, n

-----------------------------------------------------------------------------
(* A record *)

LEMMA RecordFields ==
  ASSUME NEW r \in Record
  PROVE  /\ r.type \in {"handshake", "alert", "other"} /\ r.size \in Nat
         /\ r.messages \in Seq(Message) /\ Len(r.messages) \in Nat
         /\ r.code \in Nat /\ r.code \in 20..24
         /\ r.version \in Nat /\ r.rest \in Seq(Int)
<1>1. /\ r.type \in {"handshake", "alert", "other"} /\ r.size \in Nat
      /\ r.messages \in Seq(Message) /\ r.code \in 20..24
      /\ r.version \in Word /\ r.rest \in Seq(Octet)
  BY Zenon DEF Record
<1>2. \A n \in 20..24 : n \in Nat
  OBVIOUS
<1> QED BY <1>1, <1>2, WordsAreNats, OctetsAreInts, LengthIsNat, Zenon

LEMMA MessagesWritten ==
  ASSUME NEW r \in Record
  PROVE  /\ MessagesOf(r) \in Seq(Seq(Int)) /\ Len(MessagesOf(r)) = Len(r.messages)
         /\ Len(r.messages) \in Nat
         /\ \A i \in 1..Len(r.messages) :
              MessagesOf(r)[i] = MessageBytes(r.messages[i]) /\ r.messages[i] \in Message
<1> DEFINE s == r.messages
           n == Len(s)
           t == [i \in 1..n |-> MessageBytes(s[i])]
<1>1. s \in Seq(Message)
  BY RecordFields, Zenon
<1>2. n \in Nat /\ \A i \in 1..n : s[i] \in Message
  BY <1>1, LengthIsNat, MemberOf, Zenon
<1>3. \A i \in 1..n : MessageBytes(s[i]) \in Seq(Int)
  BY <1>2, MessageWritten, Zenon
<1>4. MessagesOf(r) = t
  BY Zenon DEF MessagesOf
<1> HIDE DEF n, s
<1>5. t \in [1..n -> Seq(Int)]
  BY <1>3, Zenon
<1>7. \A i \in 1..n : t[i] = MessageBytes(s[i])
  BY Zenon DEF t
<1> HIDE DEF t
<1>6. t \in Seq(Seq(Int)) /\ Len(t) = n
  BY <1>2, <1>5, FunctionIsSequence, Zenon
<1> QED BY <1>2, <1>4, <1>6, <1>7, Zenon DEF n, s

LEMMA BodyWritten ==
  ASSUME NEW r \in Record
  PROVE  /\ RecordBody(r) \in Seq(Int) /\ Len(RecordBody(r)) \in Nat
         /\ Len(RecordBody(r)) = Len(Concat(MessagesOf(r))) + Len(r.rest)
         /\ Len(Concat(MessagesOf(r))) \in Nat /\ Len(r.rest) \in Nat
         /\ \A at \in Nat : Sits(RecordBody(r), at) =>
              Sits(Concat(MessagesOf(r)), at) /\ Sits(r.rest, at + Len(Concat(MessagesOf(r))))
<1> DEFINE c == Concat(MessagesOf(r))
           t == r.rest
<1>1. c \in Seq(Int) /\ t \in Seq(Int)
  BY RecordFields, MessagesWritten, WholeIn, Zenon
<1>2. RecordBody(r) = c \o t
  BY Zenon DEF RecordBody
<1> HIDE DEF c, t
<1>3. c \o t \in Seq(Int) /\ Len(c \o t) = Len(c) + Len(t)
  BY <1>1, BehindIn, BehindSize, Zenon
<1>4. Len(c) \in Nat /\ Len(t) \in Nat /\ Len(c \o t) \in Nat
  BY <1>1, <1>3, LengthIsNat, Zenon
<1>5. \A at \in Nat : Sits(c \o t, at) => Sits(c, at) /\ Sits(t, at + Len(c))
  BY <1>1, SitsSplit, Zenon
<1> QED BY <1>2, <1>3, <1>4, <1>5, Zenon DEF c, t

LEMMA RecordWritten ==
  ASSUME NEW r \in Record
  PROVE  /\ RecordBytes(r) \in Seq(Int)
         /\ Len(RecordBytes(r)) = 5 + Len(RecordBody(r))
         /\ \A at \in Nat : Sits(RecordBytes(r), at) =>
              Sits(<<r.code>>, at) /\ Sits(Behind16(RecordBody(r)), at + 3)
<1> DEFINE b == RecordBody(r)
           n == r.code
           c == <<n>>
           v == N16(r.version)
           d == Behind16(b)
           cv == c \o v
<1>1. n \in Nat /\ r.version \in Nat /\ b \in Seq(Int)
  BY RecordFields, BodyWritten, Zenon
<1>2. RecordBytes(r) = cv \o d
  BY Zenon DEF RecordBytes
<1> HIDE DEF b, n
<1>3. Len(b) \in Nat /\ d \in Seq(Int) /\ Len(d) = 2 + Len(b)
  BY <1>1, Written
<1>4. v \in Seq(Int) /\ Len(v) = 2
  BY <1>1, Sized16, Zenon
<1>5. c \in Seq(Int) /\ Len(c) = 1
  <2>1. n \in Int
    BY <1>1
  <2> QED BY <2>1, OneNumber, Zenon
<1> HIDE DEF c, v, d
<1>6. cv \in Seq(Int) /\ Len(cv) = Len(c) + Len(v)
  BY <1>4, <1>5, BehindIn, BehindSize, Zenon
<1>7. \A at \in Nat : Sits(cv, at) => Sits(c, at)
  BY <1>4, <1>5, SitsSplit, Zenon
<1> HIDE DEF cv
<1>8. cv \o d \in Seq(Int) /\ Len(cv \o d) = Len(cv) + Len(d)
  BY <1>3, <1>6, BehindIn, BehindSize, Zenon
<1>9. Len(cv) = 3 /\ Len(cv \o d) = 5 + Len(b)
  BY <1>3, <1>4, <1>5, <1>6, <1>8
<1>10. \A at \in Nat : Sits(cv \o d, at) => Sits(cv, at) /\ Sits(d, at + Len(cv))
  BY <1>3, <1>6, SitsSplit, Zenon
<1>11. \A at \in Nat : Sits(cv \o d, at) => Sits(c, at) /\ Sits(d, at + 3)
  BY <1>7, <1>9, <1>10, Zenon
<1> QED BY <1>2, <1>8, <1>9, <1>11, Zenon DEF b, n, c, d

LEMMA RecordReads ==
  ASSUME NEW r \in Record, NEW at \in Nat, Sits(RecordBytes(r), at), Len(data) \in Nat
  PROVE  /\ at + 1 <= Len(data) => At(at) = r.code
         /\ at + 5 <= Len(data) => U16(at + 3) = Len(RecordBody(r))
         /\ Sits(RecordBody(r), at + 5)
<1> DEFINE b == RecordBody(r)
           n == r.code
           c == <<n>>
<1>1. n \in Int /\ b \in Seq(Int)
  <2>1. n \in Nat /\ b \in Seq(Int)
    BY RecordFields, BodyWritten, Zenon
  <2> QED BY <2>1
<1>2. Sits(c, at) /\ Sits(Behind16(b), at + 3)
  BY RecordWritten, Zenon
<1>3. c \in Seq(Int) /\ Len(c) = 1 /\ c[1] = n
  BY <1>1, OneNumber, Zenon
<1> HIDE DEF b, n, c
<1>4. at + 3 \in Nat /\ at + 3 + 2 = at + 5
  OBVIOUS
<1>5. (at + 3 + 2 <= Len(data) => U16(at + 3) = Len(b)) /\ Sits(b, at + 3 + 2)
  BY <1>1, <1>2, <1>4, ReadBehind16, Zenon
<1>6. ASSUME at + 1 <= Len(data) PROVE At(at) = n
  <2>1. 0 \in 0..(Len(c) - 1) /\ at + 0 < Len(data) /\ at + 0 = at /\ 0 + 1 = 1
    BY <1>3, <1>6
  <2>2. At(at + 0) = c[0 + 1]
    BY <1>2, <1>3, <2>1, SitsReads, Zenon
  <2> QED BY <1>3, <2>1, <2>2, Zenon
<1> QED BY <1>4, <1>5, <1>6, Zenon DEF b, n

(* A message among those of a record. *)
LEMMA MessageAmong ==
  ASSUME NEW r \in Record, NEW at \in Nat, Sits(RecordBody(r), at),
         Len(data) \in Nat, at + Len(RecordBody(r)) <= Len(data),
         NEW j \in 0..(Len(r.messages) - 1),
         NEW from, from = at + Len(Concats(MessagesOf(r))[j])
  PROVE  /\ from \in Nat /\ from + 4 \in Nat
         /\ r.messages[j + 1] \in Message
         /\ At(from) = CodeOf(r.messages[j + 1])
         /\ U24(from + 1) = Len(BodyOf(r.messages[j + 1]))
         /\ Sits(BodyOf(r.messages[j + 1]), from + 4)
         /\ from + 4 + U24(from + 1) = at + Len(Concats(MessagesOf(r))[j + 1])
         /\ from + 4 + U24(from + 1) <= at + Len(RecordBody(r))
<1> DEFINE ss == MessagesOf(r)
           e == r.messages[j + 1]
           a == Len(Concats(ss)[j])
           b == Len(Concats(ss)[j + 1])
           c == Len(Concat(ss))
           d == Len(ss[j + 1])
           n == Len(BodyOf(e))
           t == Len(r.rest)
           w == Len(RecordBody(r))
           q == Len(data)
<1>1. /\ ss \in Seq(Seq(Int)) /\ Len(ss) = Len(r.messages) /\ Len(r.messages) \in Nat
      /\ \A k \in 1..Len(r.messages) : ss[k] = MessageBytes(r.messages[k]) /\ r.messages[k] \in Message
  BY MessagesWritten, Zenon
<1>2. j + 1 \in 1..Len(r.messages) /\ j \in 0..(Len(ss) - 1) /\ j \in 0..Len(ss)
  BY <1>1
<1>3. ss[j + 1] = MessageBytes(e) /\ e \in Message
  BY <1>1, <1>2, Zenon
<1>4. n \in Nat /\ d = 4 + n
  BY <1>3, MessageWritten, Zenon
<1>6. Concats(ss)[j] \in Seq(Int) /\ b = a + d /\ b <= c
  BY <1>1, <1>2, ConcatHas, Zenon
<1>7. a \in Nat /\ c \in Nat /\ t \in Nat /\ w = c + t /\ Sits(Concat(ss), at)
  BY <1>1, <1>6, LengthIsNat, BodyWritten, Zenon
<1>8. Sits(MessageBytes(e), at + a)
  BY <1>1, <1>2, <1>3, <1>7, SitsAmong, Zenon
<1>9. from = at + a /\ q \in Nat /\ at + w <= q
  OBVIOUS
<1> HIDE DEF ss, a, b, c, d, e, n, t, w, q
<1>10. IsPlace(at, a, b, w, 4, n, q)
  <2>1. 4 \in Nat /\ w \in Nat /\ b <= w
    <3>1. b \in Nat
      BY <1>4, <1>6, <1>7
    <3> QED BY <1>6, <1>7, <3>1
  <2> QED BY <1>4, <1>6, <1>7, <1>9, <2>1, ItemPlace, Zenon
<1>11. /\ from \in Nat /\ from + 4 <= q
       /\ from + 4 + n = at + b /\ from + 4 + n <= at + w
  BY <1>9, <1>10, Zenon DEF IsPlace
<1>12. At(from) = CodeOf(e) /\ U24(from + 1) = n /\ Sits(BodyOf(e), from + 4)
  BY <1>3, <1>8, <1>9, <1>11, MessageReads, Zenon DEF q, n
<1>13. from + 4 \in Nat
  BY <1>11
<1> QED BY <1>3, <1>11, <1>12, <1>13, Zenon DEF b, w, ss, e, n

LEMMA TooLong ==
  ASSUME NEW at \in Nat, NEW c \in Nat, NEW t \in Nat, NEW w, w = c + t, NEW from, from = at + c,
         NEW u \in Int, t < 4 + u
  PROVE  ~(from + 4 + u <= at + w)
OBVIOUS

(* Behind the messages of a handshake record there is none. *)
LEMMA NoneBehind ==
  ASSUME NEW r \in Record, IsRecord(r), r.code = 22, NEW at \in Nat, Sits(RecordBody(r), at),
         Len(data) \in Nat, at + Len(RecordBody(r)) <= Len(data),
         NEW from, from = at + Len(Concats(MessagesOf(r))[Len(r.messages)])
  PROVE  /\ from \in Nat
         /\ ~(from + 4 <= at + Len(RecordBody(r)) /\ from + 4 + U24(from + 1) <= at + Len(RecordBody(r)))
<1> DEFINE p == r.rest
           c == Len(Concat(MessagesOf(r)))
           t == Len(p)
           w == Len(RecordBody(r))
           q == Len(data)
<1>1. Concats(MessagesOf(r))[Len(r.messages)] = Concat(MessagesOf(r))
  BY MessagesWritten, Zenon DEF Concat
<1>2. c \in Nat /\ t \in Nat /\ w = c + t /\ Sits(p, at + c) /\ q \in Nat /\ at + w <= q
  BY BodyWritten, Zenon
<1>3. from = at + c
  BY <1>1
<1>4. p \in Seq(Int) /\ IsPiece(p)
  BY RecordFields, Zenon DEF IsRecord
<1> HIDE DEF c, t, w, q, p
<1>5. from \in Nat
  BY <1>2, <1>3
<1>6. ASSUME from + 4 <= at + w PROVE ~(from + 4 + U24(from + 1) <= at + w)
  <2>1. 4 <= t /\ from + 4 <= q
    BY <1>2, <1>3, <1>6
  <2>2. t = Len(p) /\ q = Len(data)
    BY DEF t, q
  <2>3. At(from + 1) = p[1 + 1] /\ At(from + 2) = p[2 + 1] /\ At(from + 3) = p[3 + 1]
    <3>1. t \in Nat /\ q \in Nat
      BY <1>2, Zenon
    <3>2. /\ 1 \in 0..(t - 1) /\ 2 \in 0..(t - 1) /\ 3 \in 0..(t - 1)
          /\ from + 1 < q /\ from + 2 < q /\ from + 3 < q
      BY <1>5, <2>1, <3>1, SMTT(30)
    <3> QED BY <1>2, <1>3, <1>4, <1>5, <2>2, <3>2, SitsReads, Zenon
  <2> DEFINE x == p[2]
             y == p[3]
             z == p[4]
             u == U24(from + 1)
  <2>4. x \in Int /\ y \in Int /\ z \in Int
    <3>1. 2 \in 1..Len(p) /\ 3 \in 1..Len(p) /\ 4 \in 1..Len(p)
      BY <2>1, <2>2
    <3> QED BY <1>4, <3>1, MemberOf, Zenon
  <2>5. t < 4 + 65536 * x + 256 * y + z
    BY <1>4, <2>1, <2>2 DEF IsPiece
  <2>6. At(from + 1) = x /\ At(from + 1 + 1) = y /\ At(from + 1 + 1 + 1) = z
    <3>1. from + 1 + 1 = from + 2 /\ from + 1 + 1 + 1 = from + 3 /\ 1 + 1 = 2 /\ 2 + 1 = 3 /\ 3 + 1 = 4
      BY <1>5
    <3> QED BY <2>3, <3>1, Zenon
  <2> HIDE DEF x, y, z
  <2>7. u = 65536 * x + (256 * y + z)
    BY <2>6 DEF U24, U16
  <2> HIDE DEF u
  <2>8. u \in Int /\ t < 4 + u
    BY <1>2, <2>4, <2>5, <2>7
  <2>9. ~(from + 4 + u <= at + w)
    BY <1>2, <1>3, <2>8, TooLong, Zenon
  <2> QED BY <2>9 DEF u
<1> QED BY <1>5, <1>6, Zenon DEF w

-----------------------------------------------------------------------------
(* A flight *)

LEMMA RecordsWritten ==
  ASSUME NEW f, IsFlight(f)
  PROVE  /\ RecordsOf(f) \in Seq(Seq(Int)) /\ Len(RecordsOf(f)) = Len(f)
         /\ Len(f) \in Nat
         /\ \A i \in 1..Len(f) :
              RecordsOf(f)[i] = RecordBytes(f[i]) /\ f[i] \in Record /\ IsRecord(f[i])
<1> DEFINE n == Len(f)
           t == [i \in 1..n |-> RecordBytes(f[i])]
<1>1. f \in Seq(Record) /\ \A i \in 1..n : IsRecord(f[i])
  BY Zenon DEF IsFlight
<1>2. n \in Nat /\ \A i \in 1..n : f[i] \in Record
  BY <1>1, LengthIsNat, MemberOf, Zenon
<1>3. \A i \in 1..n : RecordBytes(f[i]) \in Seq(Int)
  BY <1>2, RecordWritten, Zenon
<1>4. RecordsOf(f) = t
  BY Zenon DEF RecordsOf
<1> HIDE DEF n
<1>5. t \in [1..n -> Seq(Int)]
  BY <1>3, Zenon
<1>7. \A i \in 1..n : t[i] = RecordBytes(f[i])
  BY Zenon DEF t
<1> HIDE DEF t
<1>6. t \in Seq(Seq(Int)) /\ Len(t) = n
  BY <1>2, <1>5, FunctionIsSequence, Zenon
<1> QED BY <1>1, <1>2, <1>4, <1>6, <1>7, Zenon DEF n

LEMMA OneMore ==
  ASSUME NEW T, NEW k \in Nat, NEW g, \A i \in 1..(k + 1) : g[i] \in T
  PROVE  /\ [i \in 1..k |-> g[i]] \in Seq(T)
         /\ [i \in 1..(k + 1) |-> g[i]] = Append([i \in 1..k |-> g[i]], g[k + 1])
<1> DEFINE h == [i \in 1..k |-> g[i]]
           hh == [i \in 1..(k + 1) |-> g[i]]
<1>1. h \in [1..k -> T] /\ hh \in [1..(k + 1) -> T]
  OBVIOUS
<1>2. \A i \in 1..k : h[i] = g[i] /\ hh[i] = g[i]
  OBVIOUS
<1>3. hh[k + 1] = g[k + 1] /\ g[k + 1] \in T
  OBVIOUS
<1> HIDE DEF h, hh
<1>4. h \in Seq(T) /\ Len(h) = k /\ hh \in Seq(T) /\ Len(hh) = k + 1
  BY <1>1, FunctionIsSequence
<1>5. hh = Append(h, g[k + 1])
  BY <1>2, <1>3, <1>4
<1> QED BY <1>4, <1>5 DEF h, hh

(* Records end one behind the other. *)
LEMMA EndsUnfold ==
  ASSUME NEW f, IsFlight(f)
  PROVE  /\ EndOf(f, 0) = 0
         /\ \A k \in 0..(Len(f) - 1) : EndOf(f, k + 1) = EndOf(f, k) + f[k + 1].size
<1> DEFINE g == [i \in 1..Len(f) |-> f[i].size]
<1>1. Len(f) \in Nat /\ \A i \in 1..Len(f) : f[i].size \in Nat
  BY RecordsWritten, RecordFields, Zenon
<1>2. \A i \in 1..Len(f) : g[i] = f[i].size
  OBVIOUS
<1> HIDE DEF g
<1>3. \A k \in 0..Len(f) : EndOf(f, k) = Total([i \in 1..k |-> g[i]])
  <2> SUFFICES ASSUME NEW k \in 0..Len(f) PROVE EndOf(f, k) = Total([i \in 1..k |-> g[i]])
    OBVIOUS
  <2>1. \A i \in 1..k : i \in 1..Len(f)
    BY <1>1
  <2>2. [i \in 1..k |-> f[i].size] = [i \in 1..k |-> g[i]]
    BY <1>2, <2>1, Zenon
  <2> QED BY <2>2, Zenon DEF EndOf
<1>4. EndOf(f, 0) = 0
  <2>1. [i \in 1..0 |-> g[i]] = <<>>
    OBVIOUS
  <2>2. 0 \in 0..Len(f)
    BY <1>1
  <2> QED BY <1>3, <2>1, <2>2, TotalEmpty, Zenon
<1>5. ASSUME NEW k \in 0..(Len(f) - 1) PROVE EndOf(f, k + 1) = EndOf(f, k) + f[k + 1].size
  <2>1. k \in Nat /\ k \in 0..Len(f) /\ k + 1 \in 0..Len(f) /\ k + 1 \in 1..Len(f)
    BY <1>1
  <2>2. \A i \in 1..(k + 1) : g[i] \in Nat
    <3>1. \A i \in 1..(k + 1) : i \in 1..Len(f)
      BY <1>1
    <3> QED BY <1>1, <1>2, <3>1, Zenon
  <2>3. /\ [i \in 1..k |-> g[i]] \in Seq(Nat)
        /\ [i \in 1..(k + 1) |-> g[i]] = Append([i \in 1..k |-> g[i]], g[k + 1])
    BY <2>1, <2>2, OneMore, Zenon
  <2>4. g[k + 1] = f[k + 1].size /\ g[k + 1] \in Nat
    BY <1>1, <1>2, <2>1, Zenon
  <2> DEFINE h == [i \in 1..k |-> g[i]]
  <2> HIDE DEF h
  <2>5. Total(Append(h, g[k + 1])) = Total(h) + g[k + 1]
    BY <2>3, <2>4, TotalAppend, Zenon DEF h
  <2> QED BY <1>3, <2>1, <2>3, <2>4, <2>5, Zenon DEF h
<1> QED BY <1>4, <1>5

LEMMA EndsAre ==
  ASSUME NEW f, IsFlight(f)
  PROVE  \A k \in 0..Len(f) : EndOf(f, k) \in Nat /\ EndOf(f, k) = Len(Concats(RecordsOf(f))[k])
<1> DEFINE ss == RecordsOf(f)
           X == {k \in Nat : k <= Len(f) => EndOf(f, k) \in Nat /\ EndOf(f, k) = Len(Concats(ss)[k])}
<1>1. /\ ss \in Seq(Seq(Int)) /\ Len(ss) = Len(f) /\ Len(f) \in Nat
      /\ \A i \in 1..Len(f) : ss[i] = RecordBytes(f[i]) /\ f[i] \in Record /\ IsRecord(f[i])
  BY RecordsWritten, Zenon
<1> HIDE DEF ss
<1>2. 0 \in X
  <2>1. EndOf(f, 0) = 0 /\ Concats(ss)[0] = <<>>
    BY <1>1, EndsUnfold, WholeIn, Zenon
  <2> QED BY <2>1
<1>3. ASSUME NEW k \in Nat, k \in X PROVE k + 1 \in X
  <2> SUFFICES ASSUME k + 1 <= Len(f)
               PROVE  EndOf(f, k + 1) \in Nat /\ EndOf(f, k + 1) = Len(Concats(ss)[k + 1])
    OBVIOUS
  <2>1. k \in 0..(Len(f) - 1) /\ k + 1 \in 1..Len(f) /\ k <= Len(f)
    BY <1>1
  <2>2. EndOf(f, k) \in Nat /\ EndOf(f, k) = Len(Concats(ss)[k])
    BY <1>3, <2>1
  <2>3. ss[k + 1] = RecordBytes(f[k + 1]) /\ f[k + 1] \in Record /\ IsRecord(f[k + 1])
    BY <1>1, <2>1, Zenon
  <2>4. f[k + 1].size = Len(ss[k + 1]) /\ f[k + 1].size \in Nat
    BY <2>3, RecordFields, Zenon DEF IsRecord
  <2>5. EndOf(f, k + 1) = EndOf(f, k) + f[k + 1].size
    BY <2>1, EndsUnfold, Zenon
  <2>6. Len(Concats(ss)[k + 1]) = Len(Concats(ss)[k]) + Len(ss[k + 1])
    BY <1>1, <2>1, ConcatHas, Zenon
  <2> DEFINE a == EndOf(f, k)
             b == f[k + 1].size
  <2>7. EndOf(f, k + 1) = a + b /\ Len(Concats(ss)[k + 1]) = a + b /\ a \in Nat /\ b \in Nat
    BY <2>2, <2>4, <2>5, <2>6, Zenon
  <2> HIDE DEF a, b
  <2>8. a + b \in Nat
    BY <2>7
  <2> QED BY <2>7, <2>8, Zenon
<1> HIDE DEF X
<1>4. Nat \subseteq X
  <2>1. \A k \in Nat : k \in X => k + 1 \in X
    BY <1>3
  <2> QED BY <1>2, <2>1, SetInduction, Zenon
<1> QED BY <1>1, <1>4 DEF X, ss

(* A later record ends later. *)
LEMMA EndsGrow ==
  ASSUME NEW f, IsFlight(f), NEW k \in 0..Len(f)
  PROVE  \A l \in Nat : k < l /\ l <= Len(f) => EndOf(f, k) < EndOf(f, l)
<1> DEFINE X == {l \in Nat : k < l /\ l <= Len(f) => EndOf(f, k) < EndOf(f, l)}
<1>1. Len(f) \in Nat /\ \A i \in 0..Len(f) : EndOf(f, i) \in Nat
  BY RecordsWritten, EndsAre, Zenon
<1>2. 0 \in X
  BY <1>1
<1>3. ASSUME NEW l \in Nat, l \in X PROVE l + 1 \in X
  <2> SUFFICES ASSUME k < l + 1, l + 1 <= Len(f) PROVE EndOf(f, k) < EndOf(f, l + 1)
    OBVIOUS
  <2>1. l \in 0..(Len(f) - 1) /\ l + 1 \in 1..Len(f) /\ l \in 0..Len(f)
    BY <1>1
  <2> DEFINE a == EndOf(f, k)
             b == EndOf(f, l)
             c == f[l + 1].size
             d == EndOf(f, l + 1)
             w == Len(RecordBody(f[l + 1]))
  <2>2. a \in Nat /\ b \in Nat /\ d = b + c
    BY <1>1, <2>1, EndsUnfold, Zenon
  <2>3. c = 5 + w /\ w \in Nat
    <3>1. f[l + 1] \in Record /\ IsRecord(f[l + 1])
      BY <2>1, RecordsWritten, Zenon
    <3>2. c = Len(RecordBytes(f[l + 1]))
      BY <3>1, Zenon DEF IsRecord
    <3>3. Len(RecordBytes(f[l + 1])) = 5 + w
      BY <3>1, RecordWritten, Zenon
    <3>4. w \in Nat
      BY <3>1, BodyWritten, Zenon
    <3> QED BY <3>2, <3>3, <3>4, Zenon
  <2>4. k = l \/ k < l
    OBVIOUS
  <2>5. k = l => a = b
    OBVIOUS
  <2>6. k < l => a < b
    BY <1>3, <2>1
  <2> HIDE DEF a, b, c, d, w
  <2>7. a < d
    BY <2>2, <2>3, <2>4, <2>5, <2>6
  <2> QED BY <2>7 DEF a, d
<1> HIDE DEF X
<1>4. Nat \subseteq X
  <2>1. \A l \in Nat : l \in X => l + 1 \in X
    BY <1>3
  <2> QED BY <1>2, <2>1, SetInduction, Zenon
<1> QED BY <1>4 DEF X

(* So there is one number of records that have arrived. *)
LEMMA ArrivedIs ==
  ASSUME NEW f, IsFlight(f), NEW n \in Nat, NEW k \in 0..Len(f),
         EndOf(f, k) <= n, k = Len(f) \/ n < EndOf(f, k + 1)
  PROVE  Arrived(f, n) = k
<1>1. Len(f) \in Nat /\ \A i \in 0..Len(f) : EndOf(f, i) \in Nat
  BY RecordsWritten, EndsAre, Zenon
<1> DEFINE P(l) == EndOf(f, l) <= n /\ (l = Len(f) \/ n < EndOf(f, l + 1))
<1>2. \A i, l \in 0..Len(f) : i <= l => EndOf(f, i) <= EndOf(f, l)
  <2> SUFFICES ASSUME NEW i \in 0..Len(f), NEW l \in 0..Len(f), i <= l PROVE EndOf(f, i) <= EndOf(f, l)
    OBVIOUS
  <2>1. i < l => EndOf(f, i) < EndOf(f, l)
    BY EndsGrow
  <2> QED BY <1>1, <2>1
<1>3. \A l \in 0..Len(f) : P(l) => l = k
  <2> SUFFICES ASSUME NEW l \in 0..Len(f), P(l), l # k PROVE FALSE
    OBVIOUS
  <2>1. l < k \/ k < l
    OBVIOUS
  <2>2. CASE l < k
    <3>1. l + 1 \in 0..Len(f) /\ l + 1 <= k /\ l # Len(f)
      BY <2>2
    <3> QED BY <1>1, <1>2, <3>1
  <2>3. CASE k < l
    <3>1. k + 1 \in 0..Len(f) /\ k + 1 <= l /\ k # Len(f)
      BY <2>3
    <3> QED BY <1>1, <1>2, <3>1
  <2> QED BY <2>1, <2>2, <2>3
<1>4. P(k)
  OBVIOUS
<1> QED BY <1>3, <1>4, Zenon DEF Arrived

(* What has arrived of a flight sits at the start of the buffer. *)
LEMMA FlightSits ==
  ASSUME NEW f, IsFlight(f), Begins(FlightBytes(f)), Len(data) \in Nat
  PROVE  Sits(FlightBytes(f), 0) /\ Len(data) <= EndOf(f, Len(f))
<1> DEFINE s == FlightBytes(f)
<1>1. Len(data) <= Len(s) /\ \A i \in 1..Len(data) : data[i] = s[i]
  BY Zenon DEF Begins
<1>2. EndOf(f, Len(f)) = Len(s)
  <2>1. Len(f) \in Nat /\ Len(RecordsOf(f)) = Len(f)
    BY RecordsWritten, Zenon
  <2>2. Len(f) \in 0..Len(f)
    BY <2>1
  <2> QED BY <2>1, <2>2, EndsAre, Zenon DEF FlightBytes, Concat
<1> HIDE DEF s
<1>3. Sits(s, 0)
  <2> SUFFICES ASSUME NEW i \in 1..Len(s), 0 + i <= Len(data) PROVE At(0 + i - 1) = s[i]
    BY DEF Sits
  <2>1. i \in 1..Len(data) /\ 0 + i - 1 < Len(data) /\ 0 + i - 1 + 1 = i
    OBVIOUS
  <2> QED BY <1>1, <2>1 DEF At
<1> QED BY <1>1, <1>2, <1>3, Zenon DEF s

(* A record among those of a flight. *)
LEMMA RecordAmong ==
  ASSUME NEW f, IsFlight(f), Begins(FlightBytes(f)), Len(data) \in Nat, NEW k \in 0..(Len(f) - 1)
  PROVE  /\ f[k + 1] \in Record /\ IsRecord(f[k + 1])
         /\ EndOf(f, k) \in Nat /\ EndOf(f, k) + 5 \in Nat /\ Len(RecordBody(f[k + 1])) \in Nat
         /\ EndOf(f, k + 1) = EndOf(f, k) + 5 + Len(RecordBody(f[k + 1]))
         /\ EndOf(f, k) + 1 <= Len(data) => At(EndOf(f, k)) = f[k + 1].code
         /\ EndOf(f, k) + 5 <= Len(data) => U16(EndOf(f, k) + 3) = Len(RecordBody(f[k + 1]))
         /\ Sits(RecordBody(f[k + 1]), EndOf(f, k) + 5)
<1> DEFINE ss == RecordsOf(f)
           r == f[k + 1]
           a == EndOf(f, k)
           w == Len(RecordBody(r))
<1>1. /\ ss \in Seq(Seq(Int)) /\ Len(ss) = Len(f) /\ Len(f) \in Nat
      /\ \A i \in 1..Len(f) : ss[i] = RecordBytes(f[i]) /\ f[i] \in Record /\ IsRecord(f[i])
  BY RecordsWritten, Zenon
<1>2. k + 1 \in 1..Len(f) /\ k \in 0..(Len(ss) - 1) /\ k \in 0..Len(f)
  BY <1>1
<1>3. ss[k + 1] = RecordBytes(r) /\ r \in Record /\ IsRecord(r)
  BY <1>1, <1>2, Zenon
<1>4. a \in Nat /\ a = Len(Concats(ss)[k])
  BY <1>2, EndsAre, Zenon
<1>5. r.size = Len(RecordBytes(r)) /\ Len(RecordBytes(r)) = 5 + w /\ w \in Nat
  BY <1>3, RecordWritten, BodyWritten, Zenon DEF IsRecord
<1>6. EndOf(f, k + 1) = a + r.size
  BY EndsUnfold, Zenon
<1>7. Sits(RecordBytes(r), 0 + a)
  <2>1. Sits(Concat(ss), 0) /\ 0 \in Nat
    BY FlightSits, Zenon DEF FlightBytes
  <2> QED BY <1>1, <1>2, <1>3, <1>4, <2>1, SitsAmong, Zenon
<1>8. 0 + a = a
  <2> HIDE DEF a
  <2> QED BY <1>4
<1>9. /\ a + 1 <= Len(data) => At(a) = r.code
      /\ a + 5 <= Len(data) => U16(a + 3) = w
      /\ Sits(RecordBody(r), a + 5)
  BY <1>3, <1>4, <1>7, <1>8, RecordReads, Zenon
<1> HIDE DEF a, r, w
<1>10. EndOf(f, k + 1) = a + 5 + w /\ a + 5 \in Nat
  <2> DEFINE b == EndOf(f, k + 1)
             c == r.size
  <2>1. a \in Nat /\ w \in Nat /\ c = 5 + w /\ b = a + c
    BY <1>4, <1>5, <1>6, Zenon
  <2> HIDE DEF b, c
  <2>2. b = a + 5 + w /\ a + 5 \in Nat
    BY <2>1
  <2> QED BY <2>2, Zenon DEF b
<1> QED BY <1>3, <1>4, <1>5, <1>9, <1>10, Zenon DEF a, r, w

-----------------------------------------------------------------------------
(* The messages read so far *)

LEMMA MessagesUnfold ==
  ASSUME NEW f, IsFlight(f)
  PROVE  /\ Messages(f, 0) = <<>>
         /\ \A k \in 0..(Len(f) - 1) :
              Messages(f, k + 1) = Messages(f, k) \o f[k + 1].messages
         /\ \A k \in 0..Len(f) : Messages(f, k) \in Seq(Message)
<1> DEFINE n == Len(f)
           ss == [i \in 1..n |-> f[i].messages]
<1>1. n \in Nat /\ \A i \in 1..n : f[i].messages \in Seq(Message)
  BY RecordsWritten, RecordFields, Zenon
<1>2. \A k : Messages(f, k) = Concats(ss)[k]
  BY Zenon DEF Messages
<1> HIDE DEF n
<1>3. ss \in [1..n -> Seq(Message)] /\ \A i \in 1..n : ss[i] = f[i].messages
  BY <1>1, Zenon
<1> HIDE DEF ss
<1>4. ss \in Seq(Seq(Message)) /\ Len(ss) = n
  BY <1>1, <1>3, FunctionIsSequence, Zenon
<1>5. /\ Concats(ss)[0] = <<>>
      /\ \A k \in 0..(Len(ss) - 1) : Concats(ss)[k + 1] = Concats(ss)[k] \o ss[k + 1]
  BY <1>1, <1>4, ConcatsUnfold, Zenon
<1>6. \A k \in 0..Len(ss) : Concats(ss)[k] \in Seq(Message)
  BY <1>4, ConcatsIn, Zenon
<1>7. \A k \in 0..(n - 1) : k + 1 \in 1..n
  BY <1>1
<1> QED BY <1>2, <1>3, <1>4, <1>5, <1>6, <1>7, Zenon DEF n

(* The messages of k records of f and j messages of the next. *)
ReadTo(f, k, j) == Messages(f, k) \o SubSeq(f[k + 1].messages, 1, j)

LEMMA FirstOf ==
  ASSUME NEW T, NEW s \in Seq(T)
  PROVE  /\ SubSeq(s, 1, 0) = <<>> /\ SubSeq(s, 1, Len(s)) = s
         /\ \A j \in 0..(Len(s) - 1) : SubSeq(s, 1, j + 1) = Append(SubSeq(s, 1, j), s[j + 1])
         /\ \A j \in 0..Len(s) : SubSeq(s, 1, j) \in Seq(T)
<1>1. SubSeq(s, 1, 0) = <<>>
  OBVIOUS
<1>2. SubSeq(s, 1, Len(s)) = s
  OBVIOUS
<1>3. ASSUME NEW j \in 0..(Len(s) - 1) PROVE SubSeq(s, 1, j + 1) = Append(SubSeq(s, 1, j), s[j + 1])
  OBVIOUS
<1>4. ASSUME NEW j \in 0..Len(s) PROVE SubSeq(s, 1, j) \in Seq(T)
  OBVIOUS
<1> QED BY <1>1, <1>2, <1>3, <1>4, Zenon

LEMMA BehindNothing ==
  ASSUME NEW T, NEW s \in Seq(T)
  PROVE  s \o <<>> = s
OBVIOUS

LEMMA BehindOne ==
  ASSUME NEW T, NEW s \in Seq(T), NEW t \in Seq(T), NEW x \in T
  PROVE  s \o Append(t, x) = Append(s \o t, x)
OBVIOUS

LEMMA ReadToUnfold ==
  ASSUME NEW f, IsFlight(f), NEW k \in 0..(Len(f) - 1)
  PROVE  /\ ReadTo(f, k, 0) = Messages(f, k)
         /\ ReadTo(f, k, Len(f[k + 1].messages)) = Messages(f, k + 1)
         /\ \A j \in 0..(Len(f[k + 1].messages) - 1) :
              /\ ReadTo(f, k, j + 1) = Append(ReadTo(f, k, j), f[k + 1].messages[j + 1])
              /\ ReadTo(f, k, j) \in Seq(Message) /\ f[k + 1].messages[j + 1] \in Message
<1> DEFINE ms == Messages(f, k)
           s == f[k + 1].messages
<1>1. Len(f) \in Nat
  BY RecordsWritten, Zenon
<1>2. k + 1 \in 1..Len(f) /\ k \in 0..Len(f)
  BY <1>1
<1>3. ms \in Seq(Message) /\ s \in Seq(Message)
  BY <1>2, MessagesUnfold, RecordsWritten, RecordFields, Zenon
<1>4. Messages(f, k + 1) = ms \o s /\ \A j : ReadTo(f, k, j) = ms \o SubSeq(s, 1, j)
  BY MessagesUnfold, Zenon DEF ReadTo
<1> HIDE DEF ms, s
<1>5. ms \o SubSeq(s, 1, 0) = ms /\ ms \o SubSeq(s, 1, Len(s)) = ms \o s
  BY <1>3, FirstOf, BehindNothing, Zenon
<1>6. ASSUME NEW j \in 0..(Len(s) - 1)
      PROVE  /\ ms \o SubSeq(s, 1, j + 1) = Append(ms \o SubSeq(s, 1, j), s[j + 1])
             /\ ms \o SubSeq(s, 1, j) \in Seq(Message) /\ s[j + 1] \in Message
  <2>1. Len(s) \in Nat
    BY <1>3, LengthIsNat, Zenon
  <2>2. j \in 0..Len(s) /\ j + 1 \in 1..Len(s)
    BY <2>1
  <2>3. SubSeq(s, 1, j) \in Seq(Message) /\ s[j + 1] \in Message
    BY <1>3, <2>2, FirstOf, MemberOf, Zenon
  <2>4. SubSeq(s, 1, j + 1) = Append(SubSeq(s, 1, j), s[j + 1])
    BY <1>3, FirstOf, Zenon
  <2>5. ms \o Append(SubSeq(s, 1, j), s[j + 1]) = Append(ms \o SubSeq(s, 1, j), s[j + 1])
    <3> DEFINE u == SubSeq(s, 1, j)
               x == s[j + 1]
    <3>1. ms \in Seq(Message) /\ u \in Seq(Message) /\ x \in Message
      BY <1>3, <2>3, Zenon
    <3> HIDE DEF u, x
    <3>2. ms \o Append(u, x) = Append(ms \o u, x)
      BY <3>1, BehindOne, SMTT(30)
    <3> QED BY <3>2 DEF u, x
  <2>6. ms \o SubSeq(s, 1, j) \in Seq(Message)
    BY <1>3, <2>3, BehindIn, Zenon
  <2> QED BY <2>3, <2>4, <2>5, <2>6, Zenon
<1> QED BY <1>4, <1>5, <1>6, Zenon DEF ms, s

LEMMA OneMoreMessage ==
  ASSUME NEW ms \in Seq(Message), NEW m \in Message
  PROVE  /\ Len(ms) \in Nat /\ Len(Append(ms, m)) = Len(ms) + 1
         /\ Append(ms, m)[Len(ms) + 1] = m
         /\ \A i \in 1..Len(ms) : Append(ms, m)[i] = ms[i]
OBVIOUS

(* Of one more message the last hello, *)
LEMMA LastHelloAppend ==
  ASSUME NEW ms \in Seq(Message), NEW m \in Message
  PROVE  LastHello(Append(ms, m)) =
           IF m.kind = "hello" THEN {[version |-> m.version, suite |-> m.suite]} ELSE LastHello(ms)
<1> DEFINE t == Append(ms, m)
           n == Len(ms)
           H == {i \in 1..n : ms[i].kind = "hello"}
           G == {i \in 1..Len(t) : t[i].kind = "hello"}
           Hello(i) == [version |-> t[i].version, suite |-> t[i].suite]
           Was(i) == [version |-> ms[i].version, suite |-> ms[i].suite]
<1>1. n \in Nat /\ Len(t) = n + 1 /\ t[n + 1] = m /\ \A i \in 1..n : t[i] = ms[i]
  BY OneMoreMessage, Zenon
<1>2. LastHello(t) = {Hello(i) : i \in {j \in G : \A l \in G : l <= j}}
  BY Zenon DEF LastHello
<1>3. LastHello(ms) = {Was(i) : i \in {j \in H : \A l \in H : l <= j}}
  BY Zenon DEF LastHello
<1>8. \A i \in 1..n : Hello(i) = Was(i)
  BY <1>1, Zenon
<1>9. Hello(n + 1) = [version |-> m.version, suite |-> m.suite]
  BY <1>1, Zenon
<1>4. G = IF m.kind = "hello" THEN H \cup {n + 1} ELSE H
  <2>1. \A i : i \in 1..Len(t) <=> i \in 1..n \/ i = n + 1
    BY <1>1
  <2> QED BY <1>1, <2>1, Zenon
<1>5. \A i \in H : i \in 1..n /\ i <= n + 1 /\ ~(n + 1 <= i)
  BY <1>1
<1> HIDE DEF t, n, G, H, Hello, Was
<1>6. CASE m.kind = "hello"
  <2>1. n + 1 <= n + 1
    BY <1>1
  <2>2. {j \in G : \A l \in G : l <= j} = {n + 1}
    BY <1>4, <1>5, <1>6, <2>1, Zenon
  <2>3. {Hello(i) : i \in {n + 1}} = {Hello(n + 1)}
    BY Zenon
  <2> QED BY <1>2, <1>6, <1>9, <2>2, <2>3, Zenon DEF t
<1>7. CASE m.kind # "hello"
  <2> DEFINE L == {j \in H : \A l \in H : l <= j}
  <2>1. {j \in G : \A l \in G : l <= j} = L
    BY <1>4, <1>7, Zenon
  <2>2. \A i \in L : Hello(i) = Was(i)
    BY <1>5, <1>8, Zenon
  <2> HIDE DEF L
  <2>3. {Hello(i) : i \in L} = {Was(i) : i \in L}
    BY <2>2, Zenon
  <2> QED BY <1>2, <1>3, <1>7, <2>1, <2>3, Zenon DEF t, L
<1> QED BY <1>6, <1>7

LEMMA NothingFound == LastHello(<<>>) = {} /\ Chain(<<>>) = <<>>
<1>1. Len(<<>>) = 0 /\ 1..0 = {}
  OBVIOUS
<1>2. LastHello(<<>>) = {}
  BY <1>1, Zenon DEF LastHello
<1>3. [i \in {} |-> IF <<>>[i].kind = "certificate" THEN <<>>[i].chain ELSE <<>>] = <<>>
  BY SMT
<1>4. Chain(<<>>) = Concat(<<>>)
  BY <1>1, <1>3 DEF Chain
<1> QED BY <1>2, <1>4, ConcatEmpty, Zenon

(* and all the certificates. *)
LEMMA ChainAppend ==
  ASSUME NEW ms \in Seq(Message), NEW m \in Message
  PROVE  /\ Chain(ms) \in Seq(Seq(Octet))
         /\ Chain(Append(ms, m)) = IF m.kind = "certificate" THEN Chain(ms) \o m.chain ELSE Chain(ms)
<1> DEFINE t == Append(ms, m)
           n == Len(ms)
           C(x) == IF x.kind = "certificate" THEN x.chain ELSE <<>>
           ss == [i \in 1..n |-> C(ms[i])]
           tt == [i \in 1..(n + 1) |-> C(t[i])]
<1>1. n \in Nat /\ Len(t) = n + 1 /\ t[n + 1] = m /\ \A i \in 1..n : t[i] = ms[i] /\ ms[i] \in Message
  BY OneMoreMessage, MemberOf, Zenon
<1>2. \A x \in Message : C(x) \in Seq(Seq(Octet))
  <2>1. <<>> \in Seq(Seq(Octet))
    OBVIOUS
  <2> QED BY <2>1, MessageKinds, CertificateFields, Zenon
<1>3. Chain(ms) = Concat(ss)
  BY Zenon DEF Chain
<1>4. Chain(t) = Concat(tt)
  <2>1. [i \in 1..Len(t) |-> C(t[i])] = tt
    BY <1>1, Zenon
  <2> QED BY <2>1, Zenon DEF Chain
<1> HIDE DEF C, t, n
<1>5. /\ ss \in [1..n -> Seq(Seq(Octet))] /\ \A i \in 1..n : ss[i] = C(ms[i])
      /\ tt[n + 1] = C(m) /\ C(m) \in Seq(Seq(Octet))
      /\ tt \in [1..(n + 1) -> Seq(Seq(Octet))] /\ \A i \in 1..n : tt[i] = C(ms[i])
  <2>1. \A i \in 1..(n + 1) : i \in 1..n \/ i = n + 1
    BY <1>1
  <2>2. n + 1 \in 1..(n + 1) /\ \A i \in 1..n : i \in 1..(n + 1)
    BY <1>1
  <2>3. \A i \in 1..(n + 1) : C(t[i]) \in Seq(Seq(Octet))
    BY <1>1, <1>2, <2>1, Zenon
  <2>4. ss \in [1..n -> Seq(Seq(Octet))] /\ \A i \in 1..n : ss[i] = C(ms[i])
    BY <1>1, <1>2, Zenon
  <2>5. tt[n + 1] = C(m) /\ C(m) \in Seq(Seq(Octet))
    BY <1>1, <1>2, <2>2, Zenon
  <2>6. tt \in [1..(n + 1) -> Seq(Seq(Octet))]
    BY <2>3, Zenon
  <2>7. \A i \in 1..n : tt[i] = C(ms[i])
    BY <1>1, <2>2, Zenon
  <2> QED BY <2>4, <2>5, <2>6, <2>7, Zenon
<1> HIDE DEF ss, tt
<1>6. ss \in Seq(Seq(Seq(Octet))) /\ Len(ss) = n
  BY <1>1, <1>5, FunctionIsSequence, Zenon
<1>7. tt = Append(ss, C(m))
  <2> DEFINE U == Seq(Seq(Octet))
  <2> HIDE DEF U
  <2>1. ss \in [1..n -> U] /\ tt \in [1..(n + 1) -> U] /\ ss \in Seq(U) /\ C(m) \in U
    BY <1>5, <1>6, Zenon DEF U
  <2>2. \A i \in 1..n : tt[i] = ss[i]
    BY <1>5, Zenon
  <2> QED BY <1>1, <1>5, <1>6, <2>1, <2>2
<1>8. Concat(Append(ss, C(m))) = Concat(ss) \o C(m)
  BY <1>5, <1>6, ConcatAppend, Zenon
<1>9. Concat(ss) \in Seq(Seq(Octet))
  <2>1. Len(ss) \in 0..Len(ss)
    BY <1>1, <1>6
  <2> QED BY <1>6, <2>1, ConcatsIn, Zenon DEF Concat
<1>10. m.kind # "certificate" => Concat(ss) \o C(m) = Concat(ss)
  BY <1>9, BehindNothing, Zenon DEF C
<1> QED BY <1>3, <1>4, <1>7, <1>8, <1>9, <1>10, Zenon DEF C, t

-----------------------------------------------------------------------------
(* The inductive invariant *)

(* k records of f are behind the parser, *)
RecordsRead(f, k) ==
  /\ offset = EndOf(f, k)
  /\ \A i \in 1..k : f[i].type # "alert"

(* and j messages of the next one, which has wholly arrived. *)
MessagesRead(f, k, j) ==
  /\ RecordsRead(f, k) /\ k < Len(f)
  /\ f[k + 1].code = 22 /\ EndOf(f, k + 1) <= Len(data)
  /\ j \in 0..Len(f[k + 1].messages)
  /\ hs_offset = offset + 5 + Len(Concats(MessagesOf(f[k + 1]))[j])

(* The version of a ServerHello that e of its extensions tell. *)
VersionAfter(m, e) ==
  IF \E i \in 1..e : SelectsTls13(m.extensions[i]) THEN "Tls13" ELSE HelloVersion(VersionNumber(m.version))

(* The parser is behind e extensions of message m, *)
ExtensionsRead(m, e) ==
  /\ m.kind = "hello" /\ m.extended /\ e \in 0..Len(m.extensions)
  /\ cursor = hs_offset + 44 + Len(m.session_id) + Len(Concats(ExtensionsOf(m))[e])
  /\ limit = hs_offset + 44 + Len(m.session_id) + Len(Concat(ExtensionsOf(m)))
  /\ server_hello = {[version |-> VersionAfter(m, e), suite |-> m.suite]}

(* or behind c of its certificates, with what was found before in chain. *)
CertificatesRead(m, c, chain) ==
  /\ m.kind = "certificate" /\ c \in 0..Len(m.chain)
  /\ cursor = hs_offset + 7 + Len(Concats(CertificatesOf(m))[c])
  /\ limit = hs_offset + 7 + Len(Concat(CertificatesOf(m)))
  /\ certificates = chain \o SubSeq(m.chain, 1, c)

(* What was found is what some messages have. *)
FoundIn(messages) == server_hello = LastHello(messages) /\ certificates = Chain(messages)

(* The parser is in the middle of message j + 1 of record k + 1. *)
InExtensions(f, k, j) ==
  /\ MessagesRead(f, k, j) /\ j < Len(f[k + 1].messages)
  /\ \E e \in 0..Len(f[k + 1].messages[j + 1].extensions) : ExtensionsRead(f[k + 1].messages[j + 1], e)
  /\ certificates = Chain(ReadTo(f, k, j))

InCertificates(f, k, j) ==
  /\ MessagesRead(f, k, j) /\ j < Len(f[k + 1].messages)
  /\ \E c \in 0..Len(f[k + 1].messages[j + 1].chain) :
       CertificatesRead(f[k + 1].messages[j + 1], c, Chain(ReadTo(f, k, j)))
  /\ server_hello = LastHello(ReadTo(f, k, j))

(* What the parser of a flight is at, loop by loop. *)
Reading(f) ==
  /\ pc = "start" => offset = 0 /\ server_hello = {} /\ certificates = <<>> /\ result = {}
  /\ pc = "record" => \E k \in 0..Len(f) : RecordsRead(f, k) /\ FoundIn(Messages(f, k))
  /\ pc = "message" =>
       \E k \in 0..(Len(f) - 1) : \E j \in 0..Len(f[k + 1].messages) :
         MessagesRead(f, k, j) /\ FoundIn(ReadTo(f, k, j))
  /\ pc = "extension" =>
       \E k \in 0..(Len(f) - 1) : \E j \in 0..(Len(f[k + 1].messages) - 1) : InExtensions(f, k, j)
  /\ pc = "certificate" =>
       \E k \in 0..(Len(f) - 1) : \E j \in 0..(Len(f[k + 1].messages) - 1) : InCertificates(f, k, j)
  /\ pc = "done" => result = Understood(f, Len(data))

-----------------------------------------------------------------------------
(* Where the parser of a flight is. *)

(* The record ahead of the parser, if it has wholly arrived. *)
LEMMA AtRecord ==
  ASSUME NEW f, IsFlight(f), Begins(FlightBytes(f)), TypeOK, NEW k \in 0..Len(f), offset = EndOf(f, k)
  PROVE  /\ HasRecord => k < Len(f)
         /\ k < Len(f) =>
              /\ f[k + 1] \in Record /\ IsRecord(f[k + 1])
              /\ HasRecord <=> EndOf(f, k + 1) <= Len(data)
              /\ HasRecord =>
                   /\ At(offset) = f[k + 1].code /\ U16(offset + 3) = Len(RecordBody(f[k + 1]))
                   /\ RecordEnd = EndOf(f, k + 1) /\ RecordEnd = offset + 5 + Len(RecordBody(f[k + 1]))
                   /\ offset + 5 \in Nat /\ Sits(RecordBody(f[k + 1]), offset + 5)
                   /\ Len(RecordBody(f[k + 1])) \in Nat
<1>1. Len(data) \in Nat /\ offset \in Nat /\ RecordEnd \in Nat
  BY Ends DEF TypeOK
<1>2. Len(data) <= EndOf(f, Len(f)) /\ Len(f) \in Nat
  BY <1>1, FlightSits, RecordsWritten, Zenon
<1>3. ASSUME k = Len(f) PROVE ~HasRecord
  BY <1>1, <1>2, <1>3 DEF HasRecord, Fits
<1>4. ASSUME k < Len(f)
      PROVE  /\ f[k + 1] \in Record /\ IsRecord(f[k + 1])
             /\ HasRecord <=> EndOf(f, k + 1) <= Len(data)
             /\ HasRecord =>
                  /\ At(offset) = f[k + 1].code /\ U16(offset + 3) = Len(RecordBody(f[k + 1]))
                  /\ RecordEnd = EndOf(f, k + 1) /\ RecordEnd = offset + 5 + Len(RecordBody(f[k + 1]))
                  /\ offset + 5 \in Nat /\ Sits(RecordBody(f[k + 1]), offset + 5)
                  /\ Len(RecordBody(f[k + 1])) \in Nat
  <2> DEFINE size == Len(RecordBody(f[k + 1]))
             next == EndOf(f, k + 1)
             code == f[k + 1].code
  <2>1. k \in 0..(Len(f) - 1)
    BY <1>2, <1>4
  <2>2. /\ f[k + 1] \in Record /\ IsRecord(f[k + 1])
        /\ size \in Nat /\ next = offset + 5 + size
        /\ offset + 1 <= Len(data) => At(offset) = code
        /\ offset + 5 <= Len(data) => U16(offset + 3) = size
        /\ Sits(RecordBody(f[k + 1]), offset + 5)
    BY <1>1, <2>1, RecordAmong, Zenon
  <2> HIDE DEF size, next, code
  <2>3. HasRecord <=> next <= Len(data)
    BY <1>1, <2>2, SMTT(30) DEF HasRecord, Fits, RecordEnd
  <2>4. HasRecord => At(offset) = code /\ U16(offset + 3) = size /\ RecordEnd = next
    BY <1>1, <2>2 DEF HasRecord, Fits, RecordEnd
  <2>5. offset + 5 \in Nat
    BY <1>1
  <2> QED BY <2>2, <2>3, <2>4, <2>5, Zenon DEF size, next, code
<1>5. k < Len(f) \/ k = Len(f)
  BY <1>2
<1> QED BY <1>3, <1>4, <1>5, Zenon

(* What the parser knows of the record it is in. *)
LEMMA InRecord ==
  ASSUME NEW f, IsFlight(f), Begins(FlightBytes(f)), TypeOK, NEW k, NEW j, k \in 0..(Len(f) - 1),
         MessagesRead(f, k, j)
  PROVE  /\ f[k + 1] \in Record /\ IsRecord(f[k + 1]) /\ f[k + 1].code = 22
         /\ RecordEnd = EndOf(f, k + 1) /\ RecordEnd = offset + 5 + Len(RecordBody(f[k + 1]))
         /\ RecordEnd <= Len(data)
         /\ offset + 5 \in Nat /\ Sits(RecordBody(f[k + 1]), offset + 5)
         /\ Len(RecordBody(f[k + 1])) \in Nat
         /\ hs_offset = offset + 5 + Len(Concats(MessagesOf(f[k + 1]))[j])
<1>1. /\ offset = EndOf(f, k) /\ f[k + 1].code = 22 /\ EndOf(f, k + 1) <= Len(data)
      /\ hs_offset = offset + 5 + Len(Concats(MessagesOf(f[k + 1]))[j])
  BY Zenon DEF MessagesRead, RecordsRead
<1>2. Len(f) \in Nat
  BY RecordsWritten, Zenon
<1>3. k \in 0..Len(f) /\ k < Len(f)
  BY <1>2
<1> QED BY <1>1, <1>3, AtRecord, Zenon

(* Between two messages: the next one is all there, *)
LEMMA MessageAhead ==
  ASSUME NEW f, IsFlight(f), Begins(FlightBytes(f)), TypeOK, NEW k, NEW j, k \in 0..(Len(f) - 1),
         MessagesRead(f, k, j), j \in 0..(Len(f[k + 1].messages) - 1)
  PROVE  /\ hs_offset + 4 \in Nat /\ f[k + 1].messages[j + 1] \in Message
         /\ At(hs_offset) = CodeOf(f[k + 1].messages[j + 1])
         /\ U24(hs_offset + 1) = Len(BodyOf(f[k + 1].messages[j + 1]))
         /\ Sits(BodyOf(f[k + 1].messages[j + 1]), hs_offset + 4)
         /\ hs_offset + 4 + U24(hs_offset + 1) = offset + 5 + Len(Concats(MessagesOf(f[k + 1]))[j + 1])
         /\ hs_offset + 4 + U24(hs_offset + 1) <= RecordEnd
<1> DEFINE r   == f[k + 1]
           at  == offset + 5
<1>1. RecordEnd = at + Len(RecordBody(r))
  BY InRecord, Zenon
<1>2. Len(data) \in Nat
  BY Ends
<1>3. at + Len(RecordBody(r)) <= Len(data)
  BY InRecord, Zenon
<1>4. r \in Record /\ at \in Nat /\ Sits(RecordBody(r), at) /\ j \in 0..(Len(r.messages) - 1)
  BY InRecord, Zenon
<1>5. hs_offset = at + Len(Concats(MessagesOf(r))[j])
  BY InRecord, Zenon
<1> HIDE DEF r, at
<1>6. /\ hs_offset + 4 \in Nat /\ r.messages[j + 1] \in Message
      /\ At(hs_offset) = CodeOf(r.messages[j + 1])
      /\ U24(hs_offset + 1) = Len(BodyOf(r.messages[j + 1]))
      /\ Sits(BodyOf(r.messages[j + 1]), hs_offset + 4)
      /\ hs_offset + 4 + U24(hs_offset + 1) = at + Len(Concats(MessagesOf(r))[j + 1])
      /\ hs_offset + 4 + U24(hs_offset + 1) <= at + Len(RecordBody(r))
  BY <1>2, <1>3, <1>4, <1>5, MessageAmong, Zenon
<1> QED BY <1>1, <1>6, Zenon DEF r, at

LEMMA AtMessage ==
  ASSUME NEW f, IsFlight(f), Begins(FlightBytes(f)), TypeOK, NEW k, NEW j, k \in 0..(Len(f) - 1),
         MessagesRead(f, k, j), j \in 0..(Len(f[k + 1].messages) - 1),
         NEW m, m = f[k + 1].messages[j + 1]
  PROVE  /\ m \in Message /\ IsMessage(m) /\ HasMessage
         /\ At(hs_offset) = CodeOf(m) /\ U24(hs_offset + 1) = Len(BodyOf(m))
         /\ hs_offset + 4 \in Nat /\ Sits(BodyOf(m), hs_offset + 4)
         /\ MessageEnd = hs_offset + 4 + Len(BodyOf(m)) /\ MessageEnd <= Len(data)
         /\ MessageEnd = offset + 5 + Len(Concats(MessagesOf(f[k + 1]))[j + 1])
<1> DEFINE r   == f[k + 1]
           end == offset + 5 + Len(Concats(MessagesOf(f[k + 1]))[j + 1])
           size == Len(BodyOf(m))
<1>1. /\ r \in Record /\ IsRecord(r) /\ RecordEnd = offset + 5 + Len(RecordBody(r)) /\ RecordEnd <= Len(data)
      /\ offset + 5 \in Nat /\ Sits(RecordBody(r), offset + 5)
      /\ hs_offset = offset + 5 + Len(Concats(MessagesOf(f[k + 1]))[j])
  BY InRecord, Zenon
<1>2. Len(data) \in Nat /\ hs_offset \in Nat /\ offset \in Nat /\ RecordEnd \in Nat
  BY Ends DEF TypeOK
<1>3. offset + 5 + Len(RecordBody(r)) <= Len(data)
  BY <1>1, Zenon
<1>4. /\ hs_offset + 4 \in Nat /\ m \in Message /\ At(hs_offset) = CodeOf(m)
      /\ U24(hs_offset + 1) = size /\ Sits(BodyOf(m), hs_offset + 4)
      /\ hs_offset + 4 + U24(hs_offset + 1) = end
      /\ hs_offset + 4 + U24(hs_offset + 1) <= RecordEnd
  <2>1. /\ hs_offset + 4 \in Nat /\ r.messages[j + 1] \in Message
        /\ At(hs_offset) = CodeOf(r.messages[j + 1])
        /\ U24(hs_offset + 1) = Len(BodyOf(r.messages[j + 1]))
        /\ Sits(BodyOf(r.messages[j + 1]), hs_offset + 4)
        /\ hs_offset + 4 + U24(hs_offset + 1) = end
        /\ hs_offset + 4 + U24(hs_offset + 1) <= RecordEnd
    BY MessageAhead, Zenon
  <2>2. m = r.messages[j + 1]
    BY Zenon
  <2> QED BY <2>1, <2>2, Zenon
<1>5. IsMessage(m)
  <2>1. Len(r.messages) \in Nat
    BY <1>1, RecordFields, Zenon
  <2>2. j + 1 \in 1..Len(r.messages)
    BY <2>1
  <2> QED BY <1>1, <2>2, Zenon DEF IsRecord
<1>6. size \in Nat
  BY <1>4, MessageWritten, Zenon
<1> HIDE DEF size, end, r
<1>7. MessageEnd = end /\ MessageEnd = hs_offset + 4 + size
  BY <1>4, Zenon DEF MessageEnd
<1>8. MessageEnd <= RecordEnd
  BY <1>4, Zenon DEF MessageEnd
<1>9. RecordEnd <= Len(data) /\ MessageEnd \in Nat /\ hs_offset + 4 <= MessageEnd
  BY <1>1, Ends, Zenon
<1>10. hs_offset + 4 <= RecordEnd /\ MessageEnd <= Len(data)
  BY <1>2, <1>8, <1>9
<1>11. HasMessage
  BY <1>8, <1>10, Zenon DEF HasMessage, Fits
<1> QED BY <1>4, <1>5, <1>7, <1>10, <1>11, Zenon DEF size, end

(* and behind the last one there is none. *)
LEMMA AtLastMessage ==
  ASSUME NEW f, IsFlight(f), Begins(FlightBytes(f)), TypeOK, NEW k, NEW j, k \in 0..(Len(f) - 1),
         MessagesRead(f, k, j), j = Len(f[k + 1].messages)
  PROVE  ~HasMessage
<1> DEFINE r == f[k + 1]
<1>1. /\ r \in Record /\ IsRecord(r) /\ r.code = 22
      /\ RecordEnd = offset + 5 + Len(RecordBody(r)) /\ RecordEnd <= Len(data)
      /\ offset + 5 \in Nat /\ Sits(RecordBody(r), offset + 5)
      /\ hs_offset = offset + 5 + Len(Concats(MessagesOf(r))[Len(r.messages)])
  BY InRecord, Zenon
<1>2. Len(data) \in Nat
  BY Ends
<1>3. offset + 5 + Len(RecordBody(r)) <= Len(data)
  BY <1>1, Zenon
<1>4. ~(hs_offset + 4 <= RecordEnd /\ hs_offset + 4 + U24(hs_offset + 1) <= RecordEnd)
  BY <1>1, <1>2, <1>3, NoneBehind, Zenon
<1> QED BY <1>4, Zenon DEF HasMessage, Fits, MessageEnd

(* The step behind a message. *)
LEMMA NextMessage ==
  ASSUME NEW f, IsFlight(f), Begins(FlightBytes(f)), TypeOK, NEW k, NEW j, k \in 0..(Len(f) - 1),
         MessagesRead(f, k, j), j \in 0..(Len(f[k + 1].messages) - 1),
         data' = data, offset' = offset, hs_offset' = MessageEnd
  PROVE  j + 1 \in 0..Len(f[k + 1].messages) /\ MessagesRead(f, k, j + 1)'
<1>1. MessageEnd = offset + 5 + Len(Concats(MessagesOf(f[k + 1]))[j + 1])
  BY AtMessage, Zenon
<1>2. f[k + 1] \in Record
  BY InRecord, Zenon
<1>3. Len(f[k + 1].messages) \in Nat
  BY <1>2, RecordFields, Zenon
<1>4. j + 1 \in 0..Len(f[k + 1].messages)
  BY <1>3
<1> QED BY <1>1, <1>4, Zenon DEF MessagesRead, RecordsRead

-----------------------------------------------------------------------------
(* What the parser reads in a message. *)

(* A message m is at hs_offset and has wholly arrived. *)
IsAhead(m) ==
  /\ m \in Message /\ IsMessage(m)
  /\ hs_offset \in Nat /\ Len(data) \in Nat
  /\ At(hs_offset) = CodeOf(m) /\ U24(hs_offset + 1) = Len(BodyOf(m))
  /\ hs_offset + 4 \in Nat /\ Sits(BodyOf(m), hs_offset + 4)
  /\ MessageEnd = hs_offset + 4 + Len(BodyOf(m)) /\ MessageEnd <= Len(data)

LEMMA HelloAhead ==
  ASSUME NEW m, IsAhead(m), m.kind = "hello"
  PROVE  /\ m \in HelloMessage /\ IsHello(m) /\ Len(m.session_id) \in Nat
         /\ U16(hs_offset + 4) = VersionNumber(m.version)
         /\ SessionIdEnd = hs_offset + 39 + Len(m.session_id) /\ SessionIdEnd \in Nat
         /\ U16(SessionIdEnd) = m.suite
         /\ Sits(HelloTail(m), SessionIdEnd + 3)
         /\ Len(HelloTail(m)) \in Nat /\ MessageEnd = SessionIdEnd + 3 + Len(HelloTail(m))
         /\ IsServerHello /\ ~IsCertificate
<1> DEFINE sid  == Len(m.session_id)
           tail == Len(HelloTail(m))
           body == Len(HelloBody(m))
<1>1. m \in HelloMessage /\ BodyOf(m) = HelloBody(m) /\ CodeOf(m) = 2 /\ IsHello(m)
  BY MessageKinds, Zenon DEF IsAhead, IsMessage
<1>2. /\ hs_offset \in Nat /\ Len(data) \in Nat /\ hs_offset + 4 \in Nat /\ Sits(HelloBody(m), hs_offset + 4)
      /\ MessageEnd = hs_offset + 4 + body /\ MessageEnd <= Len(data)
      /\ At(hs_offset) = 2 /\ U24(hs_offset + 1) = body
  BY <1>1, Zenon DEF IsAhead
<1>3. sid \in Nat /\ tail \in Nat
  <2>1. m.session_id \in Seq(Octet) /\ HelloTail(m) \in Seq(Int)
    BY <1>1, HelloFields, TailWritten, Zenon
  <2> QED BY <2>1, LengthIsNat, Zenon
<1>4. body = 38 + sid + tail
  BY <1>1, HelloWritten, Zenon
<1>5. hs_offset + 4 + body <= Len(data)
  BY <1>2, Zenon
<1>6. /\ U16(hs_offset + 4) = VersionNumber(m.version)
      /\ At(hs_offset + 4 + 34) = sid
      /\ U16(hs_offset + 4 + 35 + sid) = m.suite
  BY <1>1, <1>2, <1>5, HelloReads, Zenon
<1>7. Sits(HelloTail(m), hs_offset + 4 + 38 + sid)
  BY <1>1, <1>2, HelloWritten, Zenon
<1> HIDE DEF sid, tail, body
<1>8. hs_offset + 4 + 34 = hs_offset + 38
  BY <1>2
<1>9. SessionIdEnd = hs_offset + 39 + sid
  BY <1>6, <1>8, Zenon DEF SessionIdEnd
<1>10. /\ hs_offset + 4 + 35 + sid = SessionIdEnd /\ SessionIdEnd \in Nat
       /\ hs_offset + 4 + 38 + sid = SessionIdEnd + 3
  BY <1>2, <1>3, <1>9
<1>11. MessageEnd = SessionIdEnd + 3 + tail
  BY <1>2, <1>3, <1>4, <1>9
<1>12. body >= 38 /\ SessionIdEnd + 3 <= MessageEnd
  BY <1>3, <1>4, <1>10, <1>11
<1>13. IsServerHello /\ ~IsCertificate
  BY <1>2, <1>12 DEF IsServerHello, IsCertificate, Fits
<1>14. U16(SessionIdEnd) = m.suite
  BY <1>6, <1>10, Zenon
<1>15. Sits(HelloTail(m), SessionIdEnd + 3)
  BY <1>7, <1>10, Zenon
<1> QED BY <1>1, <1>3, <1>6, <1>9, <1>10, <1>11, <1>13, <1>14, <1>15, Zenon DEF sid, tail

(* Its extensions. *)
LEMMA ExtensionsAhead ==
  ASSUME NEW m, IsAhead(m), m.kind = "hello", m.extended
  PROVE  /\ Fits(SessionIdEnd + 3 + 2, MessageEnd)
         /\ SessionIdEnd + 3 + 2 = hs_offset + 44 + Len(m.session_id)
         /\ hs_offset + 44 + Len(m.session_id) \in Nat
         /\ Smaller(SessionIdEnd + 3 + 2 + U16(SessionIdEnd + 3), MessageEnd)
              = hs_offset + 44 + Len(m.session_id) + Len(Concat(ExtensionsOf(m)))
         /\ hs_offset + 44 + Len(m.session_id) + Len(Concat(ExtensionsOf(m))) <= Len(data)
         /\ Sits(Concat(ExtensionsOf(m)), hs_offset + 44 + Len(m.session_id))
<1> DEFINE sid == Len(m.session_id)
           tail == Len(HelloTail(m))
           all  == Len(Concat(ExtensionsOf(m)))
<1>1. /\ m \in HelloMessage /\ sid \in Nat
      /\ SessionIdEnd = hs_offset + 39 + sid /\ SessionIdEnd \in Nat
      /\ Sits(HelloTail(m), SessionIdEnd + 3)
      /\ tail \in Nat /\ MessageEnd = SessionIdEnd + 3 + tail
  BY HelloAhead, Zenon
<1>2. hs_offset \in Nat /\ Len(data) \in Nat /\ MessageEnd <= Len(data)
  BY Zenon DEF IsAhead
<1>3. SessionIdEnd + 3 \in Nat
  BY <1>1
<1>4. /\ tail = 2 + all
      /\ SessionIdEnd + 3 + 2 <= Len(data) => U16(SessionIdEnd + 3) = all
      /\ Sits(Concat(ExtensionsOf(m)), SessionIdEnd + 3 + 2)
  BY <1>1, <1>2, <1>3, TailReads, Zenon
<1>5. all \in Nat
  <2>1. ExtensionsOf(m) \in Seq(Seq(Int))
    BY <1>1, ExtensionsWritten, Zenon
  <2> QED BY <2>1, WholeIn, LengthIsNat, Zenon
<1> HIDE DEF sid, tail, all
<1>6. SessionIdEnd + 3 + 2 = hs_offset + 44 + sid /\ hs_offset + 44 + sid \in Nat
  BY <1>1, <1>2
<1>7. SessionIdEnd + 3 + 2 <= MessageEnd /\ SessionIdEnd + 3 + 2 <= Len(data)
  BY <1>1, <1>2, <1>4, <1>5
<1>8. U16(SessionIdEnd + 3) = all
  BY <1>4, <1>7, Zenon
<1>9. MessageEnd = hs_offset + 44 + sid + all /\ SessionIdEnd + 3 + 2 + all = hs_offset + 44 + sid + all
  BY <1>1, <1>2, <1>4, <1>5
<1>10. Smaller(SessionIdEnd + 3 + 2 + U16(SessionIdEnd + 3), MessageEnd) = hs_offset + 44 + sid + all
  BY <1>8, <1>9, Zenon DEF Smaller
<1>11. hs_offset + 44 + sid + all <= Len(data)
  BY <1>2, <1>9, Zenon
<1>12. Sits(Concat(ExtensionsOf(m)), hs_offset + 44 + sid)
  BY <1>4, <1>6, Zenon
<1> QED BY <1>6, <1>7, <1>10, <1>11, <1>12, Zenon DEF Fits, sid, all

LEMMA CertificatesAhead ==
  ASSUME NEW m, IsAhead(m), m.kind = "certificate"
  PROVE  /\ m \in CertificateMessage /\ IsCertificate /\ ~IsServerHello
         /\ hs_offset + 7 \in Nat
         /\ Smaller(hs_offset + 7 + U24(hs_offset + 4), MessageEnd)
              = hs_offset + 7 + Len(Concat(CertificatesOf(m)))
         /\ hs_offset + 7 + Len(Concat(CertificatesOf(m))) <= Len(data)
         /\ Sits(Concat(CertificatesOf(m)), hs_offset + 7)
<1> DEFINE all  == Len(Concat(CertificatesOf(m)))
           body == Len(BodyOf(m))
<1>1. m \in CertificateMessage /\ BodyOf(m) = Behind24(Concat(CertificatesOf(m))) /\ CodeOf(m) = 11
  BY MessageKinds, Zenon DEF IsAhead
<1>2. /\ hs_offset \in Nat /\ Len(data) \in Nat /\ hs_offset + 4 \in Nat
      /\ MessageEnd = hs_offset + 4 + body /\ MessageEnd <= Len(data)
      /\ At(hs_offset) = 11 /\ U24(hs_offset + 1) = body
  BY <1>1, Zenon DEF IsAhead
<1>3. Concat(CertificatesOf(m)) \in Seq(Int)
  <2>1. CertificatesOf(m) \in Seq(Seq(Int))
    BY <1>1, CertificatesWritten, Zenon
  <2> QED BY <2>1, WholeIn, Zenon
<1>4. Sits(Behind24(Concat(CertificatesOf(m))), hs_offset + 4)
  BY <1>1, Zenon DEF IsAhead
<1>5. /\ hs_offset + 4 + 3 <= Len(data) => U24(hs_offset + 4) = all
      /\ Sits(Concat(CertificatesOf(m)), hs_offset + 4 + 3)
  BY <1>2, <1>3, <1>4, ReadBehind24, Zenon
<1>6. body = 3 + all /\ all \in Nat
  BY <1>1, <1>3, Written, Zenon
<1> HIDE DEF all, body
<1>7. hs_offset + 4 + 3 = hs_offset + 7 /\ hs_offset + 7 \in Nat
  BY <1>2
<1>8. MessageEnd = hs_offset + 7 + all /\ hs_offset + 4 + 3 <= Len(data) /\ body >= 3
  BY <1>2, <1>6
<1>9. U24(hs_offset + 4) = all
  BY <1>5, <1>8, Zenon
<1>10. Smaller(hs_offset + 7 + U24(hs_offset + 4), MessageEnd) = hs_offset + 7 + all
  BY <1>8, <1>9, Zenon DEF Smaller
<1>11. hs_offset + 7 + all <= Len(data)
  BY <1>2, <1>8, Zenon
<1>12. IsCertificate /\ ~IsServerHello
  BY <1>2, <1>8 DEF IsCertificate, IsServerHello
<1>13. Sits(Concat(CertificatesOf(m)), hs_offset + 7)
  BY <1>5, <1>7, Zenon
<1> QED BY <1>1, <1>7, <1>10, <1>11, <1>12, <1>13, Zenon DEF all

LEMMA OtherAhead ==
  ASSUME NEW m, IsAhead(m), m.kind = "other"
  PROVE  ~IsServerHello /\ ~IsCertificate
<1>1. At(hs_offset) = m.code /\ m.code # 2 /\ m.code # 11
  BY MessageKinds, OtherFields, Zenon DEF IsAhead
<1> QED BY <1>1, Zenon DEF IsServerHello, IsCertificate

LEMMA IsThere ==
  ASSUME NEW f, IsFlight(f), Begins(FlightBytes(f)), TypeOK, NEW k, NEW j, k \in 0..(Len(f) - 1),
         MessagesRead(f, k, j), j \in 0..(Len(f[k + 1].messages) - 1)
  PROVE  IsAhead(f[k + 1].messages[j + 1])
<1>1. hs_offset \in Nat /\ Len(data) \in Nat
  BY Ends DEF TypeOK
<1> QED BY <1>1, AtMessage, Zenon DEF IsAhead

(* The parser takes each extension of a ServerHello, and stops behind them. *)
LEMMA AtExtension ==
  ASSUME NEW m, IsAhead(m), NEW e, ExtensionsRead(m, e), pc = "extension"
  PROVE  /\ HasItem <=> e \in 0..(Len(m.extensions) - 1)
         /\ ~HasItem => e = Len(m.extensions)
         /\ HasItem =>
              /\ e + 1 \in 0..Len(m.extensions)
              /\ ItemEnd = hs_offset + 44 + Len(m.session_id) + Len(Concats(ExtensionsOf(m))[e + 1])
              /\ SaysTls13 <=> SelectsTls13(m.extensions[e + 1])
<1> DEFINE at  == hs_offset + 44 + Len(m.session_id)
           all == Len(Concat(ExtensionsOf(m)))
           n   == Len(m.extensions)
           next == Len(Concats(ExtensionsOf(m))[e + 1])
<1>1. /\ m.kind = "hello" /\ m.extended /\ e \in 0..n
      /\ cursor = at + Len(Concats(ExtensionsOf(m))[e]) /\ limit = at + all
  BY Zenon DEF ExtensionsRead
<1>2. m \in HelloMessage /\ IsHello(m)
  BY <1>1, HelloAhead, Zenon
<1>3. at \in Nat /\ at + all <= Len(data) /\ Sits(Concat(ExtensionsOf(m)), at) /\ Len(data) \in Nat
  BY <1>1, ExtensionsAhead, Zenon DEF IsAhead
<1>4. n \in Nat /\ ExtensionsOf(m) \in Seq(Seq(Int)) /\ Len(ExtensionsOf(m)) = n
  BY <1>2, ExtensionsWritten, Zenon
<1>5. all \in Nat
  BY <1>4, WholeIn, LengthIsNat, Zenon
<1>6. HeaderLen = 4 /\ ItemEnd = cursor + 4 + U16(cursor + 2)
  BY Zenon DEF HeaderLen, ItemEnd
<1>7. ASSUME e \in 0..(n - 1)
      PROVE  HasItem /\ ItemEnd = at + next /\ (SaysTls13 <=> SelectsTls13(m.extensions[e + 1]))
  <2> HIDE DEF at
  <2>1. /\ cursor \in Nat /\ U16(cursor + 2) \in Nat
        /\ cursor + 4 + U16(cursor + 2) = at + next
        /\ cursor + 4 + U16(cursor + 2) <= at + all
        /\ Says13(cursor) <=> SelectsTls13(m.extensions[e + 1])
    BY <1>1, <1>2, <1>3, <1>7, ExtensionAmong, Zenon
  <2> HIDE DEF at, all, n, next
  <2>2. cursor + 4 <= limit
    BY <1>1, <1>3, <1>5, <2>1
  <2>3. HasItem
    BY <1>1, <1>6, <2>1, <2>2, Zenon DEF HasItem, Fits
  <2> QED BY <1>6, <2>1, <2>3, Zenon DEF SaysTls13, Says13
<1>8. ASSUME e = n PROVE ~HasItem
  <2>1. Concats(ExtensionsOf(m))[e] = Concat(ExtensionsOf(m))
    BY <1>4, <1>8, Zenon DEF Concat
  <2>2. cursor = at + all
    BY <1>1, <2>1, Zenon
  <2> HIDE DEF at, all
  <2>3. ~(cursor + 4 <= limit)
    BY <1>1, <1>3, <1>5, <2>2
  <2> QED BY <1>6, <2>3, Zenon DEF HasItem, Fits
<1> HIDE DEF at, all, n, next
<1>9. (e \in 0..(n - 1) \/ e = n) /\ (e \in 0..(n - 1) => e + 1 \in 0..n) /\ (e = n => ~(e \in 0..(n - 1)))
  BY <1>1, <1>4
<1> QED BY <1>7, <1>8, <1>9, Zenon DEF at, n, next

(* And each certificate of a Certificate message. *)
LEMMA AtCertificate ==
  ASSUME NEW m, IsAhead(m), NEW c, NEW chain, CertificatesRead(m, c, chain), pc = "certificate"
  PROVE  /\ HasItem <=> c \in 0..(Len(m.chain) - 1)
         /\ ~HasItem => c = Len(m.chain)
         /\ HasItem =>
              /\ c + 1 \in 0..Len(m.chain)
              /\ ItemEnd = hs_offset + 7 + Len(Concats(CertificatesOf(m))[c + 1])
              /\ Slice(cursor + 3, ItemEnd) = m.chain[c + 1]
<1> DEFINE at  == hs_offset + 7
           all == Len(Concat(CertificatesOf(m)))
           n   == Len(m.chain)
           next == Len(Concats(CertificatesOf(m))[c + 1])
<1>1. /\ m.kind = "certificate" /\ c \in 0..n
      /\ cursor = at + Len(Concats(CertificatesOf(m))[c]) /\ limit = at + all
  BY Zenon DEF CertificatesRead
<1>2. /\ m \in CertificateMessage
      /\ at \in Nat /\ at + all <= Len(data) /\ Sits(Concat(CertificatesOf(m)), at) /\ Len(data) \in Nat
  BY <1>1, CertificatesAhead, Zenon DEF IsAhead
<1>4. n \in Nat /\ CertificatesOf(m) \in Seq(Seq(Int)) /\ Len(CertificatesOf(m)) = n
  BY <1>2, CertificatesWritten, Zenon
<1>5. all \in Nat
  BY <1>4, WholeIn, LengthIsNat, Zenon
<1>6. HeaderLen = 3 /\ ItemEnd = cursor + 3 + U24(cursor)
  BY Zenon DEF HeaderLen, ItemEnd
<1>7. ASSUME c \in 0..(n - 1)
      PROVE  HasItem /\ ItemEnd = at + next /\ Slice(cursor + 3, ItemEnd) = m.chain[c + 1]
  <2>1. /\ cursor \in Nat /\ U24(cursor) \in Nat
        /\ cursor + 3 + U24(cursor) = at + next
        /\ cursor + 3 + U24(cursor) <= at + all
        /\ Slice(cursor + 3, cursor + 3 + U24(cursor)) = m.chain[c + 1]
    BY <1>1, <1>2, <1>7, CertificateAmong, Zenon
  <2> HIDE DEF at, all, n, next
  <2>2. cursor + 3 <= limit
    BY <1>1, <1>2, <1>5, <2>1
  <2>3. HasItem
    BY <1>1, <1>6, <2>1, <2>2, Zenon DEF HasItem, Fits
  <2> QED BY <1>6, <2>1, <2>3, Zenon
<1>8. ASSUME c = n PROVE ~HasItem
  <2>1. Concats(CertificatesOf(m))[c] = Concat(CertificatesOf(m))
    BY <1>4, <1>8, Zenon DEF Concat
  <2>2. cursor = at + all
    BY <1>1, <2>1, Zenon
  <2> HIDE DEF at, all
  <2>3. ~(cursor + 3 <= limit)
    BY <1>1, <1>2, <1>5, <2>2
  <2> QED BY <1>6, <2>3, Zenon DEF HasItem, Fits
<1> HIDE DEF at, all, n, next
<1>9. (c \in 0..(n - 1) \/ c = n) /\ (c \in 0..(n - 1) => c + 1 \in 0..n) /\ (c = n => ~(c \in 0..(n - 1)))
  BY <1>1, <1>4
<1> QED BY <1>7, <1>8, <1>9, Zenon DEF at, n, next

-----------------------------------------------------------------------------
(* Every step of the parser keeps Reading. *)

LEMMA NowAtRecord ==
  ASSUME NEW f, NEW k \in 0..Len(f), pc' = "record",
         offset' = EndOf(f, k), \A i \in 1..k : f[i].type # "alert",
         server_hello' = LastHello(Messages(f, k)), certificates' = Chain(Messages(f, k))
  PROVE  Reading(f)'
<1>1. RecordsRead(f, k)' /\ FoundIn(Messages(f, k))'
  BY Zenon DEF RecordsRead, FoundIn
<1> QED BY <1>1, Zenon DEF Reading

LEMMA NowAtMessage ==
  ASSUME NEW f, NEW k \in 0..(Len(f) - 1), NEW j \in 0..Len(f[k + 1].messages), pc' = "message",
         MessagesRead(f, k, j)',
         server_hello' = LastHello(ReadTo(f, k, j)), certificates' = Chain(ReadTo(f, k, j))
  PROVE  Reading(f)'
<1>1. FoundIn(ReadTo(f, k, j))'
  BY Zenon DEF FoundIn
<1> QED BY <1>1, Zenon DEF Reading

LEMMA NowDone ==
  ASSUME NEW f, pc' = "done", data' = data, result' = Understood(f, Len(data))
  PROVE  Reading(f)'
BY Zenon DEF Reading

(* A record that has wholly arrived counts. *)
LEMMA ArrivedAtLeast ==
  ASSUME NEW f, IsFlight(f), NEW n \in Nat, NEW l \in 0..Len(f), EndOf(f, l) <= n
  PROVE  Arrived(f, n) \in 0..Len(f) /\ l <= Arrived(f, n)
<1> DEFINE top == Len(f)
           Later == {i \in 0..top : EndOf(f, i) > n}
           Stays(i) == EndOf(f, i) <= n /\ (i = top \/ n < EndOf(f, i + 1))
<1>1. top \in Nat /\ \A i \in 0..top : EndOf(f, i) \in Nat
  BY RecordsWritten, EndsAre, Zenon
<1>2. EndOf(f, 0) = 0
  BY EndsUnfold, Zenon
<1> HIDE DEF top
<1>3. \E i \in 0..top : Stays(i)
  <2>1. CASE Later = {}
    <3>1. top \in 0..top
      BY <1>1
    <3>2. EndOf(f, top) <= n
      BY <1>1, <2>1, <3>1
    <3> QED BY <3>1, <3>2
  <2>2. CASE Later # {}
    <3>1. Later \subseteq Nat
      BY <1>1
    <3>2. PICK i \in Later : \A o \in Later : i <= o
      BY <2>2, <3>1, NatMin, Zenon
    <3>3. i \in 0..top /\ EndOf(f, i) > n /\ i # 0
      BY <1>2, <3>2
    <3>4. i - 1 \in 0..top /\ i - 1 + 1 = i /\ ~(i <= i - 1)
      BY <1>1, <3>3
    <3>5. i - 1 \notin Later
      BY <3>2, <3>4, Zenon
    <3>6. EndOf(f, i - 1) <= n
      BY <1>1, <3>4, <3>5
    <3>7. n < EndOf(f, i - 1 + 1)
      BY <1>1, <3>3, <3>4
    <3> QED BY <3>4, <3>6, <3>7, Zenon
  <2> QED BY <2>1, <2>2
<1>4. PICK i \in 0..top : Stays(i)
  BY <1>3, Zenon
<1>5. Arrived(f, n) = i
  BY <1>4, ArrivedIs, Zenon DEF top
<1>6. l <= i
  <2> SUFFICES ASSUME ~(l <= i) PROVE FALSE
    OBVIOUS
  <2>1. l \in 0..top
    BY Zenon DEF top
  <2>2. i + 1 \in 0..top /\ i # top /\ (i + 1 = l \/ i + 1 < l) /\ l \in Nat
    BY <1>1, <1>4, <2>1
  <2>3. n < EndOf(f, i + 1) /\ EndOf(f, i + 1) \in Nat /\ EndOf(f, l) \in Nat
    BY <1>1, <1>4, <2>1, <2>2, Zenon
  <2>4. l <= Len(f)
    BY <1>1, <2>1 DEF top
  <2>5. EndOf(f, i + 1) = EndOf(f, l) \/ EndOf(f, i + 1) < EndOf(f, l)
    BY <2>2, <2>4, EndsGrow, Zenon DEF top
  <2> QED BY <2>3, <2>5
<1> QED BY <1>4, <1>5, <1>6, Zenon DEF top

(* A record that is no handshake has no messages. *)
LEMMA NoMessages ==
  ASSUME NEW r \in Record, IsRecord(r), r.code # 22
  PROVE  r.messages = <<>> /\ Len(r.rest) = Len(RecordBody(r))
<1>1. r.messages = <<>>
  BY Zenon DEF IsRecord
<1>2. MessagesOf(r) \in Seq(Seq(Int)) /\ Len(MessagesOf(r)) = Len(r.messages)
  BY MessagesWritten, Zenon
<1>3. Len(r.messages) = 0
  BY <1>1
<1>4. Concat(MessagesOf(r)) = <<>>
  BY <1>2, <1>3, WholeIn, Zenon DEF Concat
<1>5. Len(Concat(MessagesOf(r))) = 0
  BY <1>4
<1>6. Len(RecordBody(r)) = Len(Concat(MessagesOf(r))) + Len(r.rest) /\ Len(r.rest) \in Nat
  BY BodyWritten, Zenon
<1> QED BY <1>1, <1>5, <1>6

LEMMA StartReads ==
  ASSUME NEW f, IsFlight(f), Begins(FlightBytes(f)), IInv, Reading(f), ParseSsl2 \/ Start
  PROVE  Reading(f)'
<1>1. /\ TypeOK /\ Len(data) \in Nat /\ data \in Buffers /\ data \in Seq(Byte)
  BY Ends, BuffersAssumption DEF IInv, TypeOK
<1>2. Len(f) \in Nat /\ EndOf(f, 0) = 0 /\ Messages(f, 0) = <<>>
  BY RecordsWritten, EndsUnfold, MessagesUnfold, Zenon
<1>3. pc = "start" /\ offset = 0 /\ server_hello = {} /\ certificates = <<>> /\ result = {}
  BY Zenon DEF Reading, ParseSsl2, Start
<1>4. 0 \in 0..Len(f)
  BY <1>2
<1>5. ~IsSsl2
  <2> SUFFICES ASSUME IsSsl2 PROVE FALSE
    OBVIOUS
  <2>1. Len(data) >= 11 /\ At(0) >= 128
    BY DEF IsSsl2
  <2>2. Len(data) <= EndOf(f, Len(f))
    BY <1>1, FlightSits, Zenon
  <2>3. Len(f) # 0
    <3> SUFFICES ASSUME Len(f) = 0 PROVE FALSE
      OBVIOUS
    <3>1. Len(data) <= 0
      BY <1>2, <2>2, Zenon
    <3> QED BY <1>1, <2>1, <3>1
  <2>4. 0 \in 0..(Len(f) - 1)
    BY <1>2, <2>3
  <2>5. f[0 + 1] \in Record /\ (EndOf(f, 0) + 1 <= Len(data) => At(EndOf(f, 0)) = f[0 + 1].code)
    BY <1>1, <2>4, RecordAmong, Zenon
  <2>6. EndOf(f, 0) + 1 <= Len(data)
    BY <1>1, <1>2, <2>1
  <2>7. At(0) = f[0 + 1].code
    BY <1>2, <2>5, <2>6, Zenon
  <2>8. f[0 + 1].code \in 20..24
    BY <2>5, RecordFields, Zenon
  <2> QED BY <2>1, <2>7, <2>8
<1>6. Start
  BY <1>5, Zenon DEF ParseSsl2
<1>7. CASE data = <<>>
  <2>1. pc' = "done" /\ data' = data /\ result' = {}
    BY <1>3, <1>6, <1>7, Zenon DEF Start
  <2>2. Len(data) = 0
    BY <1>7
  <2>3. EndOf(f, 0) <= Len(data)
    BY <1>2, <2>2
  <2>4. 0 = Len(f) \/ Len(data) < EndOf(f, 0 + 1)
    <3> SUFFICES ASSUME 0 # Len(f) PROVE Len(data) < EndOf(f, 0 + 1)
      OBVIOUS
    <3>1. 0 < 1 /\ 1 <= Len(f) /\ 1 \in Nat /\ 0 + 1 = 1
      BY <1>2
    <3>2. EndOf(f, 0) < EndOf(f, 1)
      BY <1>4, <3>1, EndsGrow, Zenon
    <3> QED BY <1>2, <2>2, <3>1, <3>2
  <2>5. Arrived(f, Len(data)) = 0
    BY <1>1, <1>4, <2>3, <2>4, ArrivedIs, Zenon
  <2>6. ~\E i \in 1..0 : f[i].type = "alert"
    OBVIOUS
  <2>7. LastHello(<<>>) = {} /\ Chain(<<>>) = <<>>
    BY NothingFound, Zenon
  <2>8. Understood(f, Len(data)) = {}
    BY <1>2, <2>5, <2>6, <2>7, Zenon DEF Understood
  <2> QED BY <2>1, <2>8, NowDone, Zenon
<1>8. CASE data # <<>>
  <2>1. pc' = "record" /\ offset' = 0 /\ server_hello' = {} /\ certificates' = <<>>
    BY <1>3, <1>6, <1>8, Zenon DEF Start, foundVars
  <2>2. \A i \in 1..0 : f[i].type # "alert"
    OBVIOUS
  <2>3. offset' = EndOf(f, 0)
    BY <1>2, <2>1, Zenon
  <2>4. server_hello' = LastHello(Messages(f, 0)) /\ certificates' = Chain(Messages(f, 0))
    BY <1>2, <2>1, NothingFound, Zenon
  <2> QED BY <1>4, <2>1, <2>2, <2>3, <2>4, NowAtRecord, Zenon
<1> QED BY <1>7, <1>8

(* The steps over records. *)
LEMMA AlertReads ==
  ASSUME NEW f, IsFlight(f), Begins(FlightBytes(f)), IInv, Reading(f), ParseAlert
  PROVE  Reading(f)'
<1>1. TypeOK /\ Len(data) \in Nat
  BY Ends DEF IInv
<1>2. /\ pc = "record" /\ HasRecord /\ At(offset) = 21 /\ U16(offset + 3) >= 2
      /\ pc' = "done" /\ data' = data /\ result' = {Response("alert", "none", {}, <<>>)}
  BY Zenon DEF ParseAlert
<1>3. PICK k \in 0..Len(f) : RecordsRead(f, k) /\ FoundIn(Messages(f, k))
  BY <1>2, Zenon DEF Reading
<1>4. k < Len(f) /\ f[k + 1] \in Record /\ IsRecord(f[k + 1])
  BY <1>1, <1>2, <1>3, AtRecord, Zenon DEF RecordsRead
<1>5. f[k + 1].code = 21 /\ U16(offset + 3) = Len(RecordBody(f[k + 1])) /\ EndOf(f, k + 1) <= Len(data)
  BY <1>1, <1>2, <1>3, <1>4, AtRecord, Zenon DEF RecordsRead
<1>6. f[k + 1].type = "alert"
  <2>1. f[k + 1].code # 22
    BY <1>5
  <2>2. Len(f[k + 1].rest) = Len(RecordBody(f[k + 1]))
    BY <1>4, <2>1, NoMessages, Zenon
  <2>3. Len(f[k + 1].rest) >= 2
    BY <1>2, <1>5, <2>2, Zenon
  <2> QED BY <1>4, <1>5, <2>1, <2>3, Zenon DEF IsRecord
<1>7. Len(f) \in Nat
  BY RecordsWritten, Zenon
<1>8. k + 1 \in 0..Len(f)
  BY <1>4, <1>7
<1>9. Arrived(f, Len(data)) \in 0..Len(f) /\ k + 1 <= Arrived(f, Len(data))
  BY <1>1, <1>5, <1>8, ArrivedAtLeast, Zenon
<1>10. k + 1 \in 1..Arrived(f, Len(data))
  BY <1>7, <1>9
<1>11. \E i \in 1..Arrived(f, Len(data)) : f[i].type = "alert"
  BY <1>6, <1>10, Zenon
<1>12. Understood(f, Len(data)) = {Alert}
  BY <1>11, Zenon DEF Understood
<1>13. Alert = Response("alert", "none", {}, <<>>)
  BY Zenon DEF Alert, Promised, Response
<1>14. result' = Understood(f, Len(data))
  BY <1>2, <1>12, <1>13, Zenon
<1> QED BY <1>2, <1>14, NowDone, Zenon

LEMMA EnterRecordReads ==
  ASSUME NEW f, IsFlight(f), Begins(FlightBytes(f)), IInv, Reading(f), EnterRecord
  PROVE  Reading(f)'
<1>1. TypeOK /\ Len(data) \in Nat /\ offset \in Nat
  BY Ends DEF IInv, TypeOK
<1>2. /\ pc = "record" /\ HasRecord /\ At(offset) = 22
      /\ pc' = "message" /\ data' = data /\ offset' = offset /\ hs_offset' = offset + 5
      /\ server_hello' = server_hello /\ certificates' = certificates
  BY Zenon DEF EnterRecord, foundVars
<1>3. PICK k \in 0..Len(f) : RecordsRead(f, k) /\ FoundIn(Messages(f, k))
  BY <1>2, Zenon DEF Reading
<1>4. k < Len(f) /\ f[k + 1] \in Record
  BY <1>1, <1>2, <1>3, AtRecord, Zenon DEF RecordsRead
<1>5. f[k + 1].code = 22 /\ EndOf(f, k + 1) <= Len(data)
  BY <1>1, <1>2, <1>3, <1>4, AtRecord, Zenon DEF RecordsRead
<1>6. Len(f) \in Nat /\ Len(f[k + 1].messages) \in Nat
  BY <1>4, RecordsWritten, RecordFields, Zenon
<1>7. k \in 0..(Len(f) - 1) /\ 0 \in 0..Len(f[k + 1].messages)
  BY <1>4, <1>6
<1>8. hs_offset' = offset + 5 + Len(Concats(MessagesOf(f[k + 1]))[0])
  <2>1. MessagesOf(f[k + 1]) \in Seq(Seq(Int))
    BY <1>4, MessagesWritten, Zenon
  <2>2. Concats(MessagesOf(f[k + 1]))[0] = <<>>
    BY <2>1, WholeIn, Zenon
  <2>3. Len(Concats(MessagesOf(f[k + 1]))[0]) = 0
    BY <2>2
  <2>4. offset + 5 = offset + 5 + 0
    BY <1>1
  <2> QED BY <1>2, <2>3, <2>4, Zenon
<1>9. MessagesRead(f, k, 0)'
  BY <1>2, <1>3, <1>4, <1>5, <1>7, <1>8, Zenon DEF MessagesRead, RecordsRead
<1>10. server_hello' = LastHello(ReadTo(f, k, 0)) /\ certificates' = Chain(ReadTo(f, k, 0))
  BY <1>2, <1>3, <1>7, ReadToUnfold, Zenon DEF FoundIn
<1> QED BY <1>2, <1>7, <1>9, <1>10, NowAtMessage, Zenon

(* Behind a record that is no alert. *)
LEMMA NextRecord ==
  ASSUME NEW f, IsFlight(f), NEW k \in 0..(Len(f) - 1), RecordsRead(f, k), f[k + 1].type # "alert"
  PROVE  k + 1 \in 0..Len(f) /\ \A i \in 1..(k + 1) : f[i].type # "alert"
<1>1. Len(f) \in Nat
  BY RecordsWritten, Zenon
<1>2. k + 1 \in 0..Len(f) /\ \A i \in 1..(k + 1) : i \in 1..k \/ i = k + 1
  BY <1>1
<1> QED BY <1>2, Zenon DEF RecordsRead

LEMMA SkipRecordReads ==
  ASSUME NEW f, IsFlight(f), Begins(FlightBytes(f)), IInv, Reading(f), SkipRecord
  PROVE  Reading(f)'
<1>1. TypeOK
  BY DEF IInv
<1>2. /\ pc = "record" /\ HasRecord /\ At(offset) # 22
      /\ ~(At(offset) = 21 /\ U16(offset + 3) >= 2)
      /\ pc' = "record" /\ offset' = RecordEnd
      /\ server_hello' = server_hello /\ certificates' = certificates
  BY Zenon DEF SkipRecord, foundVars
<1>3. PICK k \in 0..Len(f) : RecordsRead(f, k) /\ FoundIn(Messages(f, k))
  BY <1>2, Zenon DEF Reading
<1>4. k < Len(f) /\ f[k + 1] \in Record /\ IsRecord(f[k + 1])
  BY <1>1, <1>2, <1>3, AtRecord, Zenon DEF RecordsRead
<1>5. /\ At(offset) = f[k + 1].code /\ U16(offset + 3) = Len(RecordBody(f[k + 1]))
      /\ RecordEnd = EndOf(f, k + 1)
  BY <1>1, <1>2, <1>3, <1>4, AtRecord, Zenon DEF RecordsRead
<1>6. Len(f) \in Nat
  BY RecordsWritten, Zenon
<1>7. k \in 0..(Len(f) - 1)
  BY <1>4, <1>6
<1>8. f[k + 1].code # 22
  BY <1>2, <1>5, Zenon
<1>9. f[k + 1].messages = <<>> /\ Len(f[k + 1].rest) = Len(RecordBody(f[k + 1]))
  BY <1>4, <1>8, NoMessages, Zenon
<1>10. f[k + 1].type # "alert"
  BY <1>2, <1>4, <1>5, <1>8, <1>9, Zenon DEF IsRecord
<1>11. Messages(f, k + 1) = Messages(f, k)
  <2>1. Messages(f, k + 1) = Messages(f, k) \o <<>> /\ Messages(f, k) \in Seq(Message)
    BY <1>3, <1>7, <1>9, MessagesUnfold, Zenon
  <2> QED BY <2>1, BehindNothing, Zenon
<1>12. k + 1 \in 0..Len(f) /\ \A i \in 1..(k + 1) : f[i].type # "alert"
  BY <1>3, <1>7, <1>10, NextRecord, Zenon
<1>13. offset' = EndOf(f, k + 1)
  BY <1>2, <1>5, Zenon
<1>14. server_hello' = LastHello(Messages(f, k + 1)) /\ certificates' = Chain(Messages(f, k + 1))
  BY <1>2, <1>3, <1>11, Zenon DEF FoundIn
<1> QED BY <1>2, <1>12, <1>13, <1>14, NowAtRecord, Zenon

LEMMA FinishReads ==
  ASSUME NEW f, IsFlight(f), Begins(FlightBytes(f)), IInv, Reading(f), Finish
  PROVE  Reading(f)'
<1>1. TypeOK /\ Len(data) \in Nat
  BY Ends DEF IInv
<1>2. /\ pc = "record" /\ ~HasRecord /\ pc' = "done" /\ data' = data
      /\ result' = (IF server_hello = {} /\ certificates # <<>>
                      THEN {Response("hello", "Tls12", {0}, certificates)}
                      ELSE {Response("hello", h.version, {h.suite}, certificates) : h \in server_hello})
  BY Zenon DEF Finish
<1>3. PICK k \in 0..Len(f) : RecordsRead(f, k) /\ FoundIn(Messages(f, k))
  BY <1>2, Zenon DEF Reading
<1>4. offset = EndOf(f, k) /\ offset <= Len(data)
  BY <1>2, <1>3, Zenon DEF RecordsRead, IInv, Nested
<1>5. Len(f) \in Nat /\ \A i \in 0..Len(f) : EndOf(f, i) \in Nat
  BY RecordsWritten, EndsAre, Zenon
<1>6. k = Len(f) \/ Len(data) < EndOf(f, k + 1)
  <2> SUFFICES ASSUME k # Len(f) PROVE Len(data) < EndOf(f, k + 1)
    OBVIOUS
  <2>1. k < Len(f) /\ k + 1 \in 0..Len(f)
    BY <1>5
  <2>2. ~(EndOf(f, k + 1) <= Len(data))
    BY <1>1, <1>2, <1>4, <2>1, AtRecord, Zenon
  <2>3. EndOf(f, k + 1) \in Nat
    BY <1>5, <2>1
  <2> QED BY <1>1, <2>2, <2>3
<1>7. EndOf(f, k) <= Len(data)
  BY <1>4, Zenon
<1>8. Arrived(f, Len(data)) = k
  BY <1>1, <1>6, <1>7, ArrivedIs, Zenon
<1>9. ~\E i \in 1..k : f[i].type = "alert"
  BY <1>3, Zenon DEF RecordsRead
<1>10. server_hello = LastHello(Messages(f, k)) /\ certificates = Chain(Messages(f, k))
  BY <1>3, Zenon DEF FoundIn
<1>11. Understood(f, Len(data)) =
         IF server_hello = {} /\ certificates # <<>> THEN {ServerHello("Tls12", 0, certificates)}
         ELSE {ServerHello(h.version, h.suite, certificates) : h \in server_hello}
  BY <1>8, <1>9, <1>10, Zenon DEF Understood
<1>12. \A v, s, c : ServerHello(v, s, c) = Response("hello", v, {s}, c)
  BY Zenon DEF ServerHello, Promised, Response
<1>13. result' = Understood(f, Len(data))
  BY <1>2, <1>11, <1>12
<1> QED BY <1>2, <1>13, NowDone, Zenon

(* The steps over messages. *)

(* A message tells more of the flight, and the parser is behind it. *)
LEMMA MessageRead ==
  ASSUME NEW f, IsFlight(f), Begins(FlightBytes(f)), TypeOK,
         NEW k \in 0..(Len(f) - 1), NEW j \in 0..(Len(f[k + 1].messages) - 1), MessagesRead(f, k, j),
         data' = data, offset' = offset, hs_offset' = MessageEnd, pc' = "message",
         server_hello' = LastHello(Append(ReadTo(f, k, j), f[k + 1].messages[j + 1])),
         certificates' = Chain(Append(ReadTo(f, k, j), f[k + 1].messages[j + 1]))
  PROVE  Reading(f)'
<1>1. j + 1 \in 0..Len(f[k + 1].messages) /\ MessagesRead(f, k, j + 1)'
  BY NextMessage, Zenon
<1>2. ReadTo(f, k, j + 1) = Append(ReadTo(f, k, j), f[k + 1].messages[j + 1])
  BY ReadToUnfold, Zenon
<1>3. /\ server_hello' = LastHello(ReadTo(f, k, j + 1))
      /\ certificates' = Chain(ReadTo(f, k, j + 1))
  BY <1>2, Zenon
<1> QED BY <1>1, <1>3, NowAtMessage, Zenon

(* Where a parser that finds a message is. *)
LEMMA WhichMessage ==
  ASSUME NEW f, IsFlight(f), Begins(FlightBytes(f)), TypeOK, Reading(f), pc = "message", HasMessage
  PROVE  \E k \in 0..(Len(f) - 1) : \E j \in 0..(Len(f[k + 1].messages) - 1) :
           /\ MessagesRead(f, k, j) /\ FoundIn(ReadTo(f, k, j))
           /\ IsAhead(f[k + 1].messages[j + 1])
<1>1. PICK k \in 0..(Len(f) - 1) : \E j \in 0..Len(f[k + 1].messages) :
             MessagesRead(f, k, j) /\ FoundIn(ReadTo(f, k, j))
  BY Zenon DEF Reading
<1>2. PICK j \in 0..Len(f[k + 1].messages) : MessagesRead(f, k, j) /\ FoundIn(ReadTo(f, k, j))
  BY <1>1, Zenon
<1>3. j # Len(f[k + 1].messages)
  BY <1>2, AtLastMessage, Zenon
<1>4. f[k + 1] \in Record
  BY <1>2, InRecord, Zenon
<1>5. Len(f[k + 1].messages) \in Nat
  BY <1>4, RecordFields, Zenon
<1>6. j \in 0..(Len(f[k + 1].messages) - 1)
  BY <1>3, <1>5
<1>7. IsAhead(f[k + 1].messages[j + 1])
  BY <1>2, <1>6, IsThere, Zenon
<1> QED BY <1>2, <1>6, <1>7, Zenon

(* The version that stands in the body of a ServerHello. *)
LEMMA VersionStands ==
  ASSUME NEW m \in HelloMessage, IsHello(m)
  PROVE  /\ VersionAfter(m, 0) = HelloVersion(VersionNumber(m.version))
         /\ VersionAfter(m, Len(m.extensions)) = m.version
<1>1. ~\E i \in 1..0 : SelectsTls13(m.extensions[i])
  OBVIOUS
<1>2. VersionAfter(m, 0) = HelloVersion(VersionNumber(m.version))
  BY <1>1, Zenon DEF VersionAfter
<1>3. m.version = "Tls13" <=> \E i \in 1..Len(m.extensions) : SelectsTls13(m.extensions[i])
  BY Zenon DEF IsHello
<1>4. m.version \in {"Ssl3", "Tls10", "Tls11", "Tls12", "Tls13"}
  BY HelloFields, Zenon
<1>5. m.version # "Tls13" => HelloVersion(VersionNumber(m.version)) = m.version
  <2> DEFINE v == m.version
  <2>1. v \in {"Ssl3", "Tls10", "Tls11", "Tls12", "Tls13"}
    BY <1>4, Zenon
  <2> HIDE DEF v
  <2>2. v # "Tls13" => HelloVersion(VersionNumber(v)) = v
    BY <2>1 DEF HelloVersion, VersionNumber
  <2> QED BY <2>2, Zenon DEF v
<1> QED BY <1>2, <1>3, <1>5, Zenon DEF VersionAfter

LEMMA ServerHelloReads ==
  ASSUME NEW f, IsFlight(f), Begins(FlightBytes(f)), IInv, Reading(f), ParseServerHello
  PROVE  Reading(f)'
<1>1. TypeOK
  BY DEF IInv
<1>2. /\ pc = "message" /\ HasMessage /\ IsServerHello
      /\ data' = data /\ offset' = offset /\ certificates' = certificates
      /\ server_hello' = Found(HelloVersion(U16(hs_offset + 4)), U16(SessionIdEnd))
  BY Zenon DEF ParseServerHello
<1>3. PICK k \in 0..(Len(f) - 1) : \E j \in 0..(Len(f[k + 1].messages) - 1) :
           /\ MessagesRead(f, k, j) /\ FoundIn(ReadTo(f, k, j))
           /\ IsAhead(f[k + 1].messages[j + 1])
  BY <1>1, <1>2, WhichMessage, Zenon
<1>4. PICK j \in 0..(Len(f[k + 1].messages) - 1) :
           /\ MessagesRead(f, k, j) /\ FoundIn(ReadTo(f, k, j))
           /\ IsAhead(f[k + 1].messages[j + 1])
  BY <1>3, Zenon
<1> DEFINE m == f[k + 1].messages[j + 1]
<1>5. IsAhead(m) /\ m \in Message
  BY <1>4, Zenon DEF IsAhead
<1>6. m.kind = "hello"
  BY <1>2, <1>5, MessageKinds, CertificatesAhead, OtherAhead, Zenon
<1>7. m \in HelloMessage /\ IsHello(m)
  BY <1>5, <1>6, HelloAhead, Zenon
<1>8. server_hello' = {[version |-> VersionAfter(m, 0), suite |-> m.suite]}
  <2>1. U16(hs_offset + 4) = VersionNumber(m.version) /\ U16(SessionIdEnd) = m.suite
    BY <1>5, <1>6, HelloAhead, Zenon
  <2>2. VersionAfter(m, 0) = HelloVersion(VersionNumber(m.version))
    BY <1>7, VersionStands, Zenon
  <2> QED BY <1>2, <2>1, <2>2, Zenon DEF Found
<1>9. ReadTo(f, k, j) \in Seq(Message)
  BY ReadToUnfold, Zenon
<1>10. CASE m.extended
  <2>1. /\ Fits(SessionIdEnd + 3 + 2, MessageEnd)
        /\ SessionIdEnd + 3 + 2 = hs_offset + 44 + Len(m.session_id)
        /\ hs_offset + 44 + Len(m.session_id) \in Nat
        /\ Smaller(SessionIdEnd + 3 + 2 + U16(SessionIdEnd + 3), MessageEnd)
             = hs_offset + 44 + Len(m.session_id) + Len(Concat(ExtensionsOf(m)))
    BY <1>5, <1>6, <1>10, ExtensionsAhead, Zenon
  <2>2. /\ pc' = "extension" /\ hs_offset' = hs_offset
        /\ cursor' = SessionIdEnd + 3 + 2
        /\ limit' = Smaller(SessionIdEnd + 3 + 2 + U16(SessionIdEnd + 3), MessageEnd)
    BY <2>1, Zenon DEF ParseServerHello
  <2>3. ExtensionsOf(m) \in Seq(Seq(Int)) /\ Len(m.extensions) \in Nat
    BY <1>7, ExtensionsWritten, Zenon
  <2>4. Len(Concats(ExtensionsOf(m))[0]) = 0
    <3>1. Concats(ExtensionsOf(m))[0] = <<>>
      BY <2>3, WholeIn, Zenon
    <3> QED BY <3>1
  <2>5. 0 \in 0..Len(m.extensions)
    BY <2>3
  <2>6. cursor' = hs_offset + 44 + Len(m.session_id) + Len(Concats(ExtensionsOf(m))[0])
    <3> DEFINE at == hs_offset + 44 + Len(m.session_id)
    <3>1. at \in Nat /\ cursor' = at
      BY <2>1, <2>2, Zenon
    <3> HIDE DEF at
    <3>2. cursor' = at + 0
      BY <3>1
    <3> QED BY <2>4, <3>2, Zenon DEF at
  <2>7. limit' = hs_offset + 44 + Len(m.session_id) + Len(Concat(ExtensionsOf(m)))
    BY <2>1, <2>2, Zenon
  <2> HIDE DEF m
  <2>8. ExtensionsRead(m, 0)'
    BY <1>6, <1>8, <1>10, <2>2, <2>5, <2>6, <2>7, Zenon DEF ExtensionsRead
  <2>9. MessagesRead(f, k, j)'
    BY <1>2, <1>4, <2>2, Zenon DEF MessagesRead, RecordsRead
  <2>10. certificates' = Chain(ReadTo(f, k, j))
    BY <1>2, <1>4, Zenon DEF FoundIn
  <2>11. j < Len(f[k + 1].messages)
    <3>1. Len(f[k + 1].messages) \in Nat
      BY <1>1, <1>4, InRecord, RecordFields, Zenon
    <3> QED BY <3>1
  <2>12. InExtensions(f, k, j)'
    BY <2>5, <2>8, <2>9, <2>10, <2>11, Zenon DEF InExtensions, m
  <2> QED BY <2>2, <2>12, Zenon DEF Reading
<1>11. CASE ~m.extended
  <2>1. HelloTail(m) = <<>>
    BY <1>11, Zenon DEF HelloTail
  <2>2. MessageEnd = SessionIdEnd + 3 + Len(HelloTail(m)) /\ SessionIdEnd \in Nat
    BY <1>5, <1>6, HelloAhead, Zenon
  <2>3. ~Fits(SessionIdEnd + 3 + 2, MessageEnd)
    <3>1. Len(HelloTail(m)) = 0
      BY <2>1
    <3>2. MessageEnd = SessionIdEnd + 3 + 0
      BY <2>2, <3>1, Zenon
    <3> HIDE DEF m
    <3> QED BY <2>2, <3>2 DEF Fits
  <2>4. pc' = "message" /\ hs_offset' = MessageEnd
    BY <1>2, <2>3, Zenon DEF ParseServerHello
  <2>5. m.version = VersionAfter(m, 0)
    <3>1. m.extensions = <<>>
      BY <1>7, <1>11, Zenon DEF IsHello
    <3>2. Len(m.extensions) = 0
      BY <3>1
    <3> QED BY <1>7, <3>2, VersionStands, Zenon
  <2>6. server_hello' = LastHello(Append(ReadTo(f, k, j), m))
    BY <1>5, <1>6, <1>8, <1>9, <2>5, LastHelloAppend, Zenon
  <2>7. certificates' = Chain(Append(ReadTo(f, k, j), m))
    <3>1. m.kind # "certificate"
      BY <1>6
    <3>2. Chain(Append(ReadTo(f, k, j), m)) = Chain(ReadTo(f, k, j))
      BY <1>5, <1>9, <3>1, ChainAppend, Zenon
    <3> QED BY <1>2, <1>4, <3>2, Zenon DEF FoundIn
  <2> QED BY <1>1, <1>2, <1>4, <2>4, <2>6, <2>7, MessageRead, Zenon
<1> QED BY <1>10, <1>11, Zenon

LEMMA EnterCertificatesReads ==
  ASSUME NEW f, IsFlight(f), Begins(FlightBytes(f)), IInv, Reading(f), EnterCertificates
  PROVE  Reading(f)'
<1>1. TypeOK
  BY DEF IInv
<1>2. /\ pc = "message" /\ HasMessage /\ IsCertificate /\ pc' = "certificate"
      /\ data' = data /\ offset' = offset /\ hs_offset' = hs_offset
      /\ server_hello' = server_hello /\ certificates' = certificates
      /\ cursor' = hs_offset + 7
      /\ limit' = Smaller(hs_offset + 7 + U24(hs_offset + 4), MessageEnd)
  BY Zenon DEF EnterCertificates, foundVars
<1>3. PICK k \in 0..(Len(f) - 1) : \E j \in 0..(Len(f[k + 1].messages) - 1) :
           /\ MessagesRead(f, k, j) /\ FoundIn(ReadTo(f, k, j))
           /\ IsAhead(f[k + 1].messages[j + 1])
  BY <1>1, <1>2, WhichMessage, Zenon
<1>4. PICK j \in 0..(Len(f[k + 1].messages) - 1) :
           /\ MessagesRead(f, k, j) /\ FoundIn(ReadTo(f, k, j))
           /\ IsAhead(f[k + 1].messages[j + 1])
  BY <1>3, Zenon
<1> DEFINE m == f[k + 1].messages[j + 1]
           chain == Chain(ReadTo(f, k, j))
<1>5. IsAhead(m) /\ m \in Message
  BY <1>4, Zenon DEF IsAhead
<1>6. m.kind = "certificate"
  BY <1>2, <1>5, MessageKinds, HelloAhead, OtherAhead, Zenon
<1>7. /\ m \in CertificateMessage
      /\ limit' = hs_offset + 7 + Len(Concat(CertificatesOf(m)))
      /\ hs_offset + 7 \in Nat
  BY <1>2, <1>5, <1>6, CertificatesAhead, Zenon
<1>8. CertificatesOf(m) \in Seq(Seq(Int)) /\ Len(m.chain) \in Nat /\ m.chain \in Seq(Seq(Octet))
  BY <1>7, CertificatesWritten, CertificateFields, Zenon
<1>9. 0 \in 0..Len(m.chain)
  BY <1>8
<1>10. cursor' = hs_offset + 7 + Len(Concats(CertificatesOf(m))[0])
  <2> DEFINE at == hs_offset + 7
  <2>1. Concats(CertificatesOf(m))[0] = <<>>
    BY <1>8, WholeIn, Zenon
  <2>2. Len(Concats(CertificatesOf(m))[0]) = 0
    BY <2>1
  <2>3. at \in Nat /\ cursor' = at
    BY <1>2, <1>7, Zenon
  <2> HIDE DEF at
  <2>4. cursor' = at + 0
    BY <2>3
  <2> QED BY <2>2, <2>4, Zenon DEF at
<1>11. certificates' = chain \o SubSeq(m.chain, 1, 0)
  <2>1. ReadTo(f, k, j) \in Seq(Message)
    BY ReadToUnfold, Zenon
  <2>2. chain \in Seq(Seq(Octet))
    BY <1>5, <2>1, ChainAppend, Zenon
  <2>3. certificates' = chain
    BY <1>2, <1>4, Zenon DEF FoundIn
  <2>4. SubSeq(m.chain, 1, 0) = <<>>
    BY <1>8, FirstOf, Zenon
  <2> HIDE DEF chain
  <2>5. chain \o <<>> = chain
    BY <2>2, BehindNothing, Zenon
  <2> QED BY <2>3, <2>4, <2>5, Zenon
<1> HIDE DEF m
<1>12. CertificatesRead(m, 0, chain)'
  BY <1>2, <1>6, <1>7, <1>9, <1>10, <1>11, Zenon DEF CertificatesRead
<1>13. MessagesRead(f, k, j)'
  BY <1>2, <1>4, Zenon DEF MessagesRead, RecordsRead
<1>14. server_hello' = LastHello(ReadTo(f, k, j))
  BY <1>2, <1>4, Zenon DEF FoundIn
<1>15. j < Len(f[k + 1].messages)
  <2>1. Len(f[k + 1].messages) \in Nat
    BY <1>1, <1>4, InRecord, RecordFields, Zenon
  <2> QED BY <2>1
<1>16. InCertificates(f, k, j)'
  BY <1>9, <1>12, <1>13, <1>14, <1>15, Zenon DEF InCertificates, m
<1> QED BY <1>2, <1>16, Zenon DEF Reading

LEMMA SkipMessageReads ==
  ASSUME NEW f, IsFlight(f), Begins(FlightBytes(f)), IInv, Reading(f), SkipMessage
  PROVE  Reading(f)'
<1>1. TypeOK
  BY DEF IInv
<1>2. /\ pc = "message" /\ HasMessage /\ ~IsServerHello /\ ~IsCertificate /\ pc' = "message"
      /\ data' = data /\ offset' = offset /\ hs_offset' = MessageEnd
      /\ server_hello' = server_hello /\ certificates' = certificates
  BY Zenon DEF SkipMessage, foundVars
<1>3. PICK k \in 0..(Len(f) - 1) : \E j \in 0..(Len(f[k + 1].messages) - 1) :
           /\ MessagesRead(f, k, j) /\ FoundIn(ReadTo(f, k, j))
           /\ IsAhead(f[k + 1].messages[j + 1])
  BY <1>1, <1>2, WhichMessage, Zenon
<1>4. PICK j \in 0..(Len(f[k + 1].messages) - 1) :
           /\ MessagesRead(f, k, j) /\ FoundIn(ReadTo(f, k, j))
           /\ IsAhead(f[k + 1].messages[j + 1])
  BY <1>3, Zenon
<1> DEFINE m == f[k + 1].messages[j + 1]
<1>5. IsAhead(m) /\ m \in Message
  BY <1>4, Zenon DEF IsAhead
<1>6. m.kind # "hello" /\ m.kind # "certificate"
  BY <1>2, <1>5, HelloAhead, CertificatesAhead, Zenon
<1>7. ReadTo(f, k, j) \in Seq(Message)
  BY ReadToUnfold, Zenon
<1>8. /\ LastHello(Append(ReadTo(f, k, j), m)) = LastHello(ReadTo(f, k, j))
      /\ Chain(Append(ReadTo(f, k, j), m)) = Chain(ReadTo(f, k, j))
  BY <1>5, <1>6, <1>7, LastHelloAppend, ChainAppend, Zenon
<1>9. /\ server_hello' = LastHello(Append(ReadTo(f, k, j), m))
      /\ certificates' = Chain(Append(ReadTo(f, k, j), m))
  BY <1>2, <1>4, <1>8, Zenon DEF FoundIn
<1> QED BY <1>1, <1>2, <1>4, <1>9, MessageRead, Zenon

LEMMA LeaveRecordReads ==
  ASSUME NEW f, IsFlight(f), Begins(FlightBytes(f)), IInv, Reading(f), LeaveRecord
  PROVE  Reading(f)'
<1>1. TypeOK
  BY DEF IInv
<1>2. /\ pc = "message" /\ ~HasMessage /\ pc' = "record" /\ offset' = RecordEnd
      /\ server_hello' = server_hello /\ certificates' = certificates
  BY Zenon DEF LeaveRecord, foundVars
<1>3. PICK k \in 0..(Len(f) - 1) : \E j \in 0..Len(f[k + 1].messages) :
             MessagesRead(f, k, j) /\ FoundIn(ReadTo(f, k, j))
  BY <1>2, Zenon DEF Reading
<1>4. PICK j \in 0..Len(f[k + 1].messages) : MessagesRead(f, k, j) /\ FoundIn(ReadTo(f, k, j))
  BY <1>3, Zenon
<1>5. /\ f[k + 1] \in Record /\ IsRecord(f[k + 1]) /\ f[k + 1].code = 22
      /\ RecordEnd = EndOf(f, k + 1)
  BY <1>1, <1>4, InRecord, Zenon
<1>6. j = Len(f[k + 1].messages)
  <2> SUFFICES ASSUME j # Len(f[k + 1].messages) PROVE FALSE
    OBVIOUS
  <2>1. Len(f[k + 1].messages) \in Nat
    BY <1>5, RecordFields, Zenon
  <2>2. j \in 0..(Len(f[k + 1].messages) - 1)
    BY <2>1
  <2>3. HasMessage
    BY <1>1, <1>4, <2>2, AtMessage, Zenon
  <2> QED BY <1>2, <2>3
<1>7. f[k + 1].type # "alert"
  <2>1. f[k + 1].type = "handshake"
    BY <1>5, Zenon DEF IsRecord
  <2> QED BY <2>1
<1>8. RecordsRead(f, k)
  BY <1>4, Zenon DEF MessagesRead
<1>9. k + 1 \in 0..Len(f) /\ \A i \in 1..(k + 1) : f[i].type # "alert"
  BY <1>7, <1>8, NextRecord, Zenon
<1>10. ReadTo(f, k, j) = Messages(f, k + 1)
  BY <1>6, ReadToUnfold, Zenon
<1>11. server_hello' = LastHello(Messages(f, k + 1)) /\ certificates' = Chain(Messages(f, k + 1))
  BY <1>2, <1>4, <1>10, Zenon DEF FoundIn
<1>12. offset' = EndOf(f, k + 1)
  BY <1>2, <1>5, Zenon
<1> QED BY <1>2, <1>9, <1>11, <1>12, NowAtRecord, Zenon

(* The steps over the extensions of a ServerHello. *)

LEMMA NewVersion ==
  \A v, w, s : [[version |-> v, suite |-> s] EXCEPT !.version = w] = [version |-> w, suite |-> s]
OBVIOUS

LEMMA ExtensionReadsOn ==
  ASSUME NEW f, IsFlight(f), Begins(FlightBytes(f)), IInv, Reading(f), ParseExtension
  PROVE  Reading(f)'
<1>1. TypeOK
  BY DEF IInv
<1>2. /\ pc = "extension" /\ HasItem /\ pc' = "extension" /\ cursor' = ItemEnd
      /\ data' = data /\ offset' = offset /\ hs_offset' = hs_offset /\ limit' = limit
      /\ certificates' = certificates
      /\ server_hello' = {IF SaysTls13 THEN [h EXCEPT !.version = "Tls13"] ELSE h : h \in server_hello}
  BY Zenon DEF ParseExtension
<1>3. PICK k \in 0..(Len(f) - 1) : \E j \in 0..(Len(f[k + 1].messages) - 1) : InExtensions(f, k, j)
  BY <1>2, Zenon DEF Reading
<1>4. PICK j \in 0..(Len(f[k + 1].messages) - 1) : InExtensions(f, k, j)
  BY <1>3, Zenon
<1> DEFINE m == f[k + 1].messages[j + 1]
<1>5. /\ MessagesRead(f, k, j) /\ j < Len(f[k + 1].messages)
      /\ certificates = Chain(ReadTo(f, k, j))
  BY <1>4, Zenon DEF InExtensions
<1>6. PICK e \in 0..Len(m.extensions) : ExtensionsRead(m, e)
  BY <1>4, Zenon DEF InExtensions
<1>7. IsAhead(m)
  BY <1>1, <1>5, IsThere, Zenon
<1> HIDE DEF m
<1>8. /\ e + 1 \in 0..Len(m.extensions)
      /\ ItemEnd = hs_offset + 44 + Len(m.session_id) + Len(Concats(ExtensionsOf(m))[e + 1])
      /\ SaysTls13 <=> SelectsTls13(m.extensions[e + 1])
  BY <1>2, <1>6, <1>7, AtExtension, Zenon
<1>9. server_hello' = {[version |-> VersionAfter(m, e + 1), suite |-> m.suite]}
  <2>1. server_hello = {[version |-> VersionAfter(m, e), suite |-> m.suite]}
    BY <1>6, Zenon DEF ExtensionsRead
  <2>2. VersionAfter(m, e + 1) = IF SelectsTls13(m.extensions[e + 1]) THEN "Tls13" ELSE VersionAfter(m, e)
    <3>1. m.kind = "hello"
      BY <1>6, Zenon DEF ExtensionsRead
    <3>2. Len(m.extensions) \in Nat
      BY <1>7, <3>1, HelloAhead, ExtensionsWritten, Zenon
    <3>3. \A i \in 1..(e + 1) : i \in 1..e \/ i = e + 1
      BY <3>2
    <3>4. e + 1 \in 1..(e + 1) /\ \A i \in 1..e : i \in 1..(e + 1)
      BY <3>2
    <3> QED BY <3>3, <3>4, Zenon DEF VersionAfter
  <2> DEFINE h0 == [version |-> VersionAfter(m, e), suite |-> m.suite]
             h1 == [version |-> VersionAfter(m, e + 1), suite |-> m.suite]
  <2>3. (IF SaysTls13 THEN [h0 EXCEPT !.version = "Tls13"] ELSE h0) = h1
    <3>1. [h0 EXCEPT !.version = "Tls13"] = [version |-> "Tls13", suite |-> m.suite]
      BY NewVersion, Zenon
    <3> QED BY <1>8, <2>2, <3>1, Zenon
  <2>4. server_hello = {h0}
    BY <2>1, Zenon
  <2> HIDE DEF h0, h1
  <2>5. server_hello' = {IF SaysTls13 THEN [h0 EXCEPT !.version = "Tls13"] ELSE h0}
    BY <1>2, <2>4
  <2>6. server_hello' = {h1}
    BY <2>3, <2>5, Zenon
  <2> QED BY <2>6, Zenon DEF h1
<1>10. ExtensionsRead(m, e + 1)'
  <2>1. m.kind = "hello" /\ m.extended
        /\ limit = hs_offset + 44 + Len(m.session_id) + Len(Concat(ExtensionsOf(m)))
    BY <1>6, Zenon DEF ExtensionsRead
  <2> QED BY <1>2, <1>8, <1>9, <2>1, Zenon DEF ExtensionsRead
<1>11. MessagesRead(f, k, j)'
  BY <1>2, <1>5, Zenon DEF MessagesRead, RecordsRead
<1>12. certificates' = Chain(ReadTo(f, k, j))
  BY <1>2, <1>5, Zenon
<1>13. InExtensions(f, k, j)'
  BY <1>5, <1>8, <1>10, <1>11, <1>12, Zenon DEF InExtensions, m
<1> QED BY <1>2, <1>13, Zenon DEF Reading

LEMMA ExtensionsEnd ==
  ASSUME NEW f, IsFlight(f), Begins(FlightBytes(f)), IInv, Reading(f), LeaveMessage, pc = "extension"
  PROVE  Reading(f)'
<1>1. TypeOK
  BY DEF IInv
<1>2. /\ ~HasItem /\ pc' = "message" /\ data' = data /\ offset' = offset /\ hs_offset' = MessageEnd
      /\ server_hello' = server_hello /\ certificates' = certificates
  BY Zenon DEF LeaveMessage, foundVars
<1>3. PICK k \in 0..(Len(f) - 1) : \E j \in 0..(Len(f[k + 1].messages) - 1) : InExtensions(f, k, j)
  BY Zenon DEF Reading
<1>4. PICK j \in 0..(Len(f[k + 1].messages) - 1) : InExtensions(f, k, j)
  BY <1>3, Zenon
<1> DEFINE m == f[k + 1].messages[j + 1]
<1>5. MessagesRead(f, k, j) /\ certificates = Chain(ReadTo(f, k, j))
  BY <1>4, Zenon DEF InExtensions
<1>6. PICK e \in 0..Len(m.extensions) : ExtensionsRead(m, e)
  BY <1>4, Zenon DEF InExtensions
<1>7. IsAhead(m) /\ m \in Message
  BY <1>1, <1>5, IsThere, Zenon DEF IsAhead
<1>8. m.kind = "hello" /\ server_hello = {[version |-> VersionAfter(m, e), suite |-> m.suite]}
  BY <1>6, Zenon DEF ExtensionsRead
<1>9. e = Len(m.extensions)
  BY <1>2, <1>6, <1>7, AtExtension, Zenon
<1>10. VersionAfter(m, e) = m.version
  BY <1>7, <1>8, <1>9, HelloAhead, VersionStands, Zenon
<1>11. ReadTo(f, k, j) \in Seq(Message)
  BY ReadToUnfold, Zenon
<1>12. server_hello' = LastHello(Append(ReadTo(f, k, j), m))
  BY <1>2, <1>7, <1>8, <1>10, <1>11, LastHelloAppend, Zenon
<1>13. certificates' = Chain(Append(ReadTo(f, k, j), m))
  <2>1. m.kind # "certificate"
    BY <1>8
  <2> QED BY <1>2, <1>5, <1>7, <1>11, <2>1, ChainAppend, Zenon
<1> QED BY <1>1, <1>2, <1>5, <1>12, <1>13, MessageRead, Zenon

(* The steps over the certificates of a chain. *)

LEMMA OneCertificate ==
  ASSUME NEW s \in Seq(Seq(Octet)), NEW t \in Seq(Seq(Octet)), NEW x \in Seq(Octet)
  PROVE  s \o Append(t, x) = Append(s \o t, x)
BY BehindOne, SMTT(30)

LEMMA CertificateReadsOn ==
  ASSUME NEW f, IsFlight(f), Begins(FlightBytes(f)), IInv, Reading(f), ParseCertificate
  PROVE  Reading(f)'
<1>1. TypeOK
  BY DEF IInv
<1>2. /\ pc = "certificate" /\ HasItem /\ pc' = "certificate" /\ cursor' = ItemEnd
      /\ data' = data /\ offset' = offset /\ hs_offset' = hs_offset /\ limit' = limit
      /\ server_hello' = server_hello
      /\ certificates' = Append(certificates, Slice(cursor + 3, ItemEnd))
  BY Zenon DEF ParseCertificate
<1>3. PICK k \in 0..(Len(f) - 1) : \E j \in 0..(Len(f[k + 1].messages) - 1) : InCertificates(f, k, j)
  BY <1>2, Zenon DEF Reading
<1>4. PICK j \in 0..(Len(f[k + 1].messages) - 1) : InCertificates(f, k, j)
  BY <1>3, Zenon
<1> DEFINE m == f[k + 1].messages[j + 1]
           chain == Chain(ReadTo(f, k, j))
<1>5. /\ MessagesRead(f, k, j) /\ j < Len(f[k + 1].messages)
      /\ server_hello = LastHello(ReadTo(f, k, j))
  BY <1>4, Zenon DEF InCertificates
<1>6. PICK c \in 0..Len(m.chain) : CertificatesRead(m, c, chain)
  BY <1>4, Zenon DEF InCertificates
<1>7. IsAhead(m) /\ m \in Message
  BY <1>1, <1>5, IsThere, Zenon DEF IsAhead
<1>8. ReadTo(f, k, j) \in Seq(Message)
  BY ReadToUnfold, Zenon
<1>9. chain \in Seq(Seq(Octet))
  BY <1>7, <1>8, ChainAppend, Zenon
<1> HIDE DEF m, chain
<1>10. /\ c + 1 \in 0..Len(m.chain) /\ c \in 0..(Len(m.chain) - 1)
       /\ ItemEnd = hs_offset + 7 + Len(Concats(CertificatesOf(m))[c + 1])
       /\ Slice(cursor + 3, ItemEnd) = m.chain[c + 1]
  BY <1>2, <1>6, <1>7, AtCertificate, Zenon
<1>11. /\ m.kind = "certificate" /\ certificates = chain \o SubSeq(m.chain, 1, c)
       /\ limit = hs_offset + 7 + Len(Concat(CertificatesOf(m)))
  BY <1>6, Zenon DEF CertificatesRead
<1>12. m.chain \in Seq(Seq(Octet))
  BY <1>7, <1>11, CertificatesAhead, CertificateFields, Zenon
<1>13. certificates' = chain \o SubSeq(m.chain, 1, c + 1)
  <2>1. Len(m.chain) \in Nat
    BY <1>12, LengthIsNat, Zenon
  <2>2. c + 1 \in 1..Len(m.chain)
    BY <1>10, <2>1
  <2>3. m.chain[c + 1] \in Seq(Octet)
    BY <1>12, <2>2, MemberOf, Zenon
  <2>4. /\ SubSeq(m.chain, 1, c + 1) = Append(SubSeq(m.chain, 1, c), m.chain[c + 1])
        /\ SubSeq(m.chain, 1, c) \in Seq(Seq(Octet))
    BY <1>10, <1>12, FirstOf, Zenon
  <2>5. chain \o Append(SubSeq(m.chain, 1, c), m.chain[c + 1])
          = Append(chain \o SubSeq(m.chain, 1, c), m.chain[c + 1])
    <3> DEFINE u == SubSeq(m.chain, 1, c)
               x == m.chain[c + 1]
    <3>1. u \in Seq(Seq(Octet)) /\ x \in Seq(Octet)
      BY <2>3, <2>4, Zenon
    <3> HIDE DEF u, x
    <3>2. chain \o Append(u, x) = Append(chain \o u, x)
      BY <1>9, <3>1, OneCertificate, Zenon
    <3> QED BY <3>2, Zenon DEF u, x
  <2>6. certificates' = Append(chain \o SubSeq(m.chain, 1, c), m.chain[c + 1])
    BY <1>2, <1>10, <1>11, Zenon
  <2> QED BY <2>4, <2>5, <2>6, Zenon
<1>14. CertificatesRead(m, c + 1, chain)'
  BY <1>2, <1>10, <1>11, <1>13, Zenon DEF CertificatesRead
<1>15. MessagesRead(f, k, j)'
  BY <1>2, <1>5, Zenon DEF MessagesRead, RecordsRead
<1>16. server_hello' = LastHello(ReadTo(f, k, j))
  BY <1>2, <1>5, Zenon
<1>17. InCertificates(f, k, j)'
  BY <1>5, <1>10, <1>14, <1>15, <1>16, Zenon DEF InCertificates, m, chain
<1> QED BY <1>2, <1>17, Zenon DEF Reading

LEMMA CertificatesEnd ==
  ASSUME NEW f, IsFlight(f), Begins(FlightBytes(f)), IInv, Reading(f), LeaveMessage, pc = "certificate"
  PROVE  Reading(f)'
<1>1. TypeOK
  BY DEF IInv
<1>2. /\ ~HasItem /\ pc' = "message" /\ data' = data /\ offset' = offset /\ hs_offset' = MessageEnd
      /\ server_hello' = server_hello /\ certificates' = certificates
  BY Zenon DEF LeaveMessage, foundVars
<1>3. PICK k \in 0..(Len(f) - 1) : \E j \in 0..(Len(f[k + 1].messages) - 1) : InCertificates(f, k, j)
  BY Zenon DEF Reading
<1>4. PICK j \in 0..(Len(f[k + 1].messages) - 1) : InCertificates(f, k, j)
  BY <1>3, Zenon
<1> DEFINE m == f[k + 1].messages[j + 1]
           chain == Chain(ReadTo(f, k, j))
<1>5. MessagesRead(f, k, j) /\ server_hello = LastHello(ReadTo(f, k, j))
  BY <1>4, Zenon DEF InCertificates
<1>6. PICK c \in 0..Len(m.chain) : CertificatesRead(m, c, chain)
  BY <1>4, Zenon DEF InCertificates
<1>7. IsAhead(m) /\ m \in Message
  BY <1>1, <1>5, IsThere, Zenon DEF IsAhead
<1>8. m.kind = "certificate" /\ certificates = chain \o SubSeq(m.chain, 1, c)
  BY <1>6, Zenon DEF CertificatesRead
<1>9. c = Len(m.chain)
  BY <1>2, <1>6, <1>7, AtCertificate, Zenon
<1>10. SubSeq(m.chain, 1, c) = m.chain
  BY <1>7, <1>8, <1>9, CertificatesAhead, CertificateFields, FirstOf, Zenon
<1>11. ReadTo(f, k, j) \in Seq(Message)
  BY ReadToUnfold, Zenon
<1>12. certificates' = Chain(Append(ReadTo(f, k, j), m))
  BY <1>2, <1>7, <1>8, <1>10, <1>11, ChainAppend, Zenon
<1>13. server_hello' = LastHello(Append(ReadTo(f, k, j), m))
  <2>1. m.kind # "hello"
    BY <1>8
  <2> QED BY <1>2, <1>5, <1>7, <1>11, <2>1, LastHelloAppend, Zenon
<1> QED BY <1>1, <1>2, <1>5, <1>12, <1>13, MessageRead, Zenon

-----------------------------------------------------------------------------
(* Reading is an invariant. *)

LEMMA ReadingInit ==
  ASSUME NEW f, Init
  PROVE  Reading(f)
<1>1. pc = "start" /\ offset = 0 /\ server_hello = {} /\ certificates = <<>> /\ result = {}
  BY DEF Init
<1>2. pc # "record" /\ pc # "message" /\ pc # "extension" /\ pc # "certificate" /\ pc # "done"
  BY <1>1
<1> QED BY <1>1, <1>2, Zenon DEF Reading

LEMMA ReadingNext ==
  ASSUME NEW f, IsFlight(f), Begins(FlightBytes(f)), IInv, Reading(f), [Next]_vars
  PROVE  Reading(f)'
<1>1. CASE UNCHANGED vars
  <2>1. /\ data' = data /\ pc' = pc /\ offset' = offset /\ hs_offset' = hs_offset
        /\ cursor' = cursor /\ limit' = limit /\ server_hello' = server_hello
        /\ certificates' = certificates /\ result' = result
    BY <1>1, Zenon DEF vars, foundVars
  <2>2. \A k : RecordsRead(f, k)' <=> RecordsRead(f, k)
    BY <2>1, Zenon DEF RecordsRead
  <2>3. \A k, j : MessagesRead(f, k, j)' <=> MessagesRead(f, k, j)
    BY <2>1, <2>2, Zenon DEF MessagesRead
  <2>4. \A ms : FoundIn(ms)' <=> FoundIn(ms)
    BY <2>1, Zenon DEF FoundIn
  <2>5. \A m, e : ExtensionsRead(m, e)' <=> ExtensionsRead(m, e)
    BY <2>1, Zenon DEF ExtensionsRead
  <2>6. \A m, c, chain : CertificatesRead(m, c, chain)' <=> CertificatesRead(m, c, chain)
    BY <2>1, Zenon DEF CertificatesRead
  <2>7. \A k, j : InExtensions(f, k, j)' <=> InExtensions(f, k, j)
    BY <2>1, <2>3, <2>5, Zenon DEF InExtensions
  <2>8. \A k, j : InCertificates(f, k, j)' <=> InCertificates(f, k, j)
    BY <2>1, <2>3, <2>6, Zenon DEF InCertificates
  <2> QED BY <2>1, <2>2, <2>3, <2>4, <2>7, <2>8, Zenon DEF Reading
<1>2. CASE LeaveMessage
  <2>1. pc = "extension" \/ pc = "certificate"
    BY <1>2 DEF LeaveMessage
  <2> QED BY <1>2, <2>1, ExtensionsEnd, CertificatesEnd, Zenon
<1> QED BY <1>1, <1>2, StartReads, AlertReads, EnterRecordReads, SkipRecordReads, FinishReads,
      ServerHelloReads, EnterCertificatesReads, SkipMessageReads, LeaveRecordReads,
      ExtensionReadsOn, CertificateReadsOn, Zenon DEF Next, Terminating

(***************************************************************************)
(* On what has arrived of any flight of any server that keeps to the       *)
(* format, cut off at any byte, parse_server_response finds what Responses *)
(* promises.                                                               *)
(***************************************************************************)
THEOREM UnderstandsFlights == Spec => []Understands
<1> DEFINE AllRead == \A f \in Flights : Begins(FlightBytes(f)) => Reading(f)
<1>1. Init => AllRead
  BY ReadingInit, Zenon
<1>2. IInv /\ AllRead /\ [Next]_vars => AllRead'
  <2> SUFFICES ASSUME IInv, AllRead, [Next]_vars PROVE AllRead'
    OBVIOUS
  <2>1. data' = data
    BY DEF Next, ParseSsl2, Start, ParseAlert, EnterRecord, SkipRecord, Finish, ParseServerHello,
       EnterCertificates, SkipMessage, LeaveRecord, ParseExtension, ParseCertificate, LeaveMessage, Terminating, vars
  <2>2. ASSUME NEW f \in Flights, Begins(FlightBytes(f))' PROVE Reading(f)'
    <3>1. Begins(FlightBytes(f))
      BY <2>1, <2>2, Zenon DEF Begins
    <3>2. IsFlight(f)
      BY FlightsAreWritten, Zenon
    <3> QED BY <3>1, <3>2, ReadingNext, Zenon
  <2> QED BY <2>2, Zenon
<1>3. AllRead => Understands
  BY Zenon DEF Understands, BytesOf, Reading
<1> QED BY Invariance, <1>1, <1>2, <1>3, PTL DEF Spec

-----------------------------------------------------------------------------
(* SSLv2 *)

LEMMA SecondOfSeven ==
  ASSUME NEW a \in Seq(Int), NEW b \in Seq(Int), NEW c \in Seq(Int), NEW d \in Seq(Int),
         NEW e \in Seq(Int), NEW g \in Seq(Int), NEW x \in Seq(Int),
         NEW at \in Nat, Sits(a \o b \o c \o d \o e \o g \o x, at)
  PROVE  Sits(a, at) /\ Sits(b, at + Len(a))
<1>1. a \o b \in Seq(Int)
  BY BehindIn, Zenon
<1>2. a \o b \o c \in Seq(Int)
  BY <1>1, BehindIn, Zenon
<1>3. a \o b \o c \o d \in Seq(Int)
  BY <1>2, BehindIn, Zenon
<1>4. a \o b \o c \o d \o e \in Seq(Int)
  BY <1>3, BehindIn, Zenon
<1>5. a \o b \o c \o d \o e \o g \in Seq(Int)
  BY <1>4, BehindIn, Zenon
<1>6. Sits(a \o b \o c \o d \o e \o g, at)
  BY <1>5, SitsSplit, Zenon
<1>7. Sits(a \o b \o c \o d \o e, at)
  BY <1>4, <1>6, SitsSplit, Zenon
<1>8. Sits(a \o b \o c \o d, at)
  BY <1>3, <1>7, SitsSplit, Zenon
<1>9. Sits(a \o b \o c, at)
  BY <1>2, <1>8, SitsSplit, Zenon
<1>10. Sits(a \o b, at)
  BY <1>1, <1>9, SitsSplit, Zenon
<1> QED BY <1>10, SitsSplit, Zenon

LEMMA Ssl2Fields ==
  ASSUME NEW h \in Ssl2Hello
  PROVE  /\ h.hit \in {0, 1}
         /\ h.certificate \in Seq(Int) /\ h.specs \in Seq(Int) /\ h.connection_id \in Seq(Int)
<1>1. /\ h.hit \in {0, 1} /\ h.certificate \in Seq(Octet)
      /\ h.specs \in Seq(Octet) /\ h.connection_id \in Seq(Octet)
  BY Zenon DEF Ssl2Hello
<1> QED BY <1>1, OctetsAreInts, Zenon

(* Its header has the first bit set. *)
LEMMA Ssl2Header ==
  ASSUME NEW h, Len(Ssl2Body(h)) \in Nat
  PROVE  \E n \in Nat : n \div 256 >= 128 /\ Ssl2Bytes(h) = N16(n) \o Ssl2Body(h)
<1> DEFINE size == Len(Ssl2Body(h))
           n    == 32768 + size
<1>1. size \in Nat
  BY Zenon
<1>2. Ssl2Bytes(h) = N16(n) \o Ssl2Body(h)
  BY DEF Ssl2Bytes
<1> HIDE DEF size
<1>3. n >= 32768
  BY <1>1
<1>4. n \in Nat
  BY <1>1
<1> HIDE DEF n
<1>5. n \div 256 \in Nat /\ n % 256 \in Nat /\ 256 * (n \div 256) + (n % 256) = n
  BY <1>4, Parts16, Zenon
<1>6. n % 256 < 256
  BY <1>4
<1>7. n \div 256 >= 128
  <2> DEFINE q == n \div 256
             r == n % 256
  <2>1. q \in Nat /\ r \in Nat /\ 256 * q + r = n /\ r < 256
    BY <1>5, <1>6, Zenon
  <2> HIDE DEF q, r
  <2>2. q >= 128
    BY <1>3, <1>4, <2>1
  <2> QED BY <2>2, Zenon DEF q
<1> QED BY <1>2, <1>4, <1>7, Zenon

LEMMA Ssl2Written ==
  ASSUME NEW h \in Ssl2Hello
  PROVE  /\ Ssl2Body(h) \in Seq(Int) /\ Len(Ssl2Body(h)) \in Nat
         /\ Ssl2Bytes(h) \in Seq(Int)
         /\ \A at \in Nat : Sits(Ssl2Body(h), at) =>
              Sits(<<4, h.hit, 1, 0, 2>>, at) /\ Sits(N16(Len(h.certificate)), at + 5)
<1> DEFINE a == <<4, h.hit, 1, 0, 2>>
           b == N16(Len(h.certificate))
           c == N16(Len(h.specs))
           d == N16(Len(h.connection_id))
           x == h.certificate
           y == h.specs
           z == h.connection_id
<1>1. x \in Seq(Int) /\ y \in Seq(Int) /\ z \in Seq(Int)
  BY Ssl2Fields, Zenon
<1>2. a \in Seq(Int) /\ Len(a) = 5
  <2> DEFINE hit == h.hit
  <2>1. h.hit \in {0, 1}
    BY Ssl2Fields, Zenon
  <2>2. hit \in Int
    BY <2>1
  <2> HIDE DEF hit
  <2>3. <<4, hit, 1, 0, 2>> \in Seq(Int) /\ Len(<<4, hit, 1, 0, 2>>) = 5
    BY <2>2
  <2> QED BY <2>3, Zenon DEF hit
<1>3. Len(x) \in Nat /\ Len(y) \in Nat /\ Len(z) \in Nat
  BY <1>1, LengthIsNat, Zenon
<1>4. b \in Seq(Int) /\ c \in Seq(Int) /\ d \in Seq(Int)
  BY <1>3, Sized16, Zenon
<1>5. Ssl2Body(h) = a \o b \o c \o d \o x \o y \o z
  BY Zenon DEF Ssl2Body
<1> HIDE DEF a, b, c, d, x, y, z
<1>6. IsSeven(a, b, c, d, x, y, z, a \o b \o c \o d \o x \o y \o z)
  BY <1>1, <1>2, <1>4, SevenParts, Zenon
<1>7. Ssl2Body(h) \in Seq(Int)
  BY <1>5, <1>6, Zenon DEF IsSeven
<1>8. Len(Ssl2Body(h)) \in Nat
  BY <1>7, LengthIsNat, Zenon
<1>9. Ssl2Bytes(h) \in Seq(Int)
  <2>1. PICK n \in Nat : n \div 256 >= 128 /\ Ssl2Bytes(h) = N16(n) \o Ssl2Body(h)
    BY <1>8, Ssl2Header, Zenon
  <2>2. N16(n) \in Seq(Int)
    BY Sized16, Zenon
  <2> QED BY <1>7, <2>1, <2>2, BehindIn, Zenon
<1>10. ASSUME NEW at \in Nat, Sits(Ssl2Body(h), at)
       PROVE  Sits(a, at) /\ Sits(b, at + 5)
  <2>1. Sits(a \o b \o c \o d \o x \o y \o z, at)
    BY <1>5, <1>10, Zenon
  <2>2. Sits(a, at) /\ Sits(b, at + Len(a))
    BY <1>1, <1>2, <1>4, <2>1, SecondOfSeven, Zenon
  <2> QED BY <1>2, <2>2, Zenon
<1> QED BY <1>7, <1>8, <1>9, <1>10, Zenon DEF a, b, x

LEMMA BeginsSits ==
  ASSUME NEW s \in Seq(Int), Begins(s), Len(data) \in Nat
  PROVE  Sits(s, 0)
BY DEF Begins, Sits, At

(* What stands in the head of an SSLv2 ServerHello, as far as it is there. *)
LEMMA Ssl2Reads ==
  ASSUME NEW h \in Ssl2Hello, Begins(Ssl2Bytes(h)), Len(data) \in Nat
  PROVE  /\ 1 <= Len(data) => At(0) >= 128
         /\ 3 <= Len(data) => At(2) = 4
         /\ 5 <= Len(data) => At(4) = 1
         /\ 9 <= Len(data) => U16(7) = Len(h.certificate)
<1> DEFINE body == Ssl2Body(h)
           a    == <<4, h.hit, 1, 0, 2>>
           size == Len(h.certificate)
<1>1. body \in Seq(Int) /\ Len(body) \in Nat /\ Ssl2Bytes(h) \in Seq(Int)
  BY Ssl2Written, Zenon
<1>2. PICK n \in Nat : n \div 256 >= 128 /\ Ssl2Bytes(h) = N16(n) \o body
  BY <1>1, Ssl2Header, Zenon
<1>3. Sits(Ssl2Bytes(h), 0)
  BY <1>1, BeginsSits, Zenon
<1>5. N16(n) \in Seq(Int) /\ Len(N16(n)) = 2 /\ N16(n)[1] = n \div 256
  BY Written16, Zenon
<1> HIDE DEF body
<1>6. Sits(N16(n), 0) /\ Sits(body, 0 + Len(N16(n)))
  <2>1. 0 \in Nat
    OBVIOUS
  <2> QED BY <1>1, <1>2, <1>3, <1>5, <2>1, SitsSplit, Zenon
<1>7. 0 + Len(N16(n)) = 2 /\ 2 \in Nat
  BY <1>5
<1>8. Sits(body, 2)
  BY <1>6, <1>7, Zenon
<1>9. Sits(a, 2) /\ Sits(N16(size), 2 + 5)
  BY <1>7, <1>8, Ssl2Written, Zenon DEF body
<1>11. 1 <= Len(data) => At(0) >= 128
  <2> SUFFICES ASSUME 1 <= Len(data) PROVE At(0) >= 128
    OBVIOUS
  <2>1. 1 \in 1..Len(N16(n)) /\ 0 + 1 <= Len(data) /\ 0 + 1 - 1 = 0
    BY <1>5
  <2>2. At(0) = N16(n)[1]
    BY <1>6, <2>1, Zenon DEF Sits
  <2> QED BY <1>2, <1>5, <2>2, Zenon
<1>12. /\ 3 <= Len(data) => At(2) = 4
       /\ 5 <= Len(data) => At(4) = 1
  <2>1. Len(a) = 5 /\ a[1] = 4 /\ a[3] = 1
    OBVIOUS
  <2> HIDE DEF a
  <2>2. 1 \in 1..Len(a) /\ 3 \in 1..Len(a) /\ 2 + 1 - 1 = 2 /\ 2 + 3 - 1 = 4 /\ 2 + 1 = 3 /\ 2 + 3 = 5
    BY <2>1
  <2> QED BY <1>9, <2>1, <2>2, Zenon DEF Sits
<1>13. 9 <= Len(data) => U16(7) = size
  <2>1. h.certificate \in Seq(Int)
    BY Ssl2Fields, Zenon
  <2>2. size \in Nat
    BY <2>1, LengthIsNat, Zenon
  <2>3. 2 + 5 = 7 /\ 7 \in Nat /\ 7 + 2 = 9
    OBVIOUS
  <2> HIDE DEF size
  <2>4. Sits(N16(size), 7)
    BY <1>9, <2>3, Zenon
  <2> QED BY <2>2, <2>3, <2>4, Read16, Zenon
<1> QED BY <1>11, <1>12, <1>13, Zenon

(* What the parser of an SSLv2 ServerHello is at.  Without enough of it to *)
(* be known it is read as a record of another type, behind which there is  *)
(* no other.                                                               *)
Ssl2Reading(h) ==
  /\ pc \in {"start", "record", "done"}
  /\ server_hello = {} /\ certificates = <<>>
  /\ pc \in {"start", "record"} => result = {}
  /\ pc = "record" => Len(data) < 11 /\ (offset = 0 \/ offset >= 6)
  /\ pc = "done" =>
       {[r EXCEPT !.suites = {}] : r \in result} = Ssl2Understood(Ssl2Contents(h), Len(data))

(* Too little of it is nothing. *)
LEMMA Ssl2Nothing ==
  ASSUME NEW h, NEW n \in Nat, n < 11
  PROVE  Ssl2Understood(Ssl2Contents(h), n) = {}
BY DEF Ssl2Understood, Ssl2Contents

LEMMA Ssl2Cut ==
  ASSUME NEW s \in Seq(Int), Begins(s), Len(data) \in Nat, NEW n \in Nat, 11 + n <= Len(data)
  PROVE  Slice(11, 11 + n) = SubSeq(s, 12, 11 + n)
<1>1. Len(s) \in Nat /\ 11 + n <= Len(s)
  BY DEF Begins
<1>2. SubSeq(s, 12, 11 + n) = [i \in 1..n |-> s[11 + i]]
  BY <1>1
<1>3. Slice(11, 11 + n) = [i \in 1..n |-> s[11 + i]]
  <2>1. ASSUME NEW i \in 1..n PROVE At(11 + i - 1) = s[11 + i]
    <3>1. 11 + i \in 1..Len(data) /\ 11 + i - 1 < Len(data) /\ 11 + i - 1 + 1 = 11 + i
      OBVIOUS
    <3> QED BY <3>1, Zenon DEF At, Begins
  <2>2. (11 + n) - 11 = n
    OBVIOUS
  <2>3. Slice(11, 11 + n) = [i \in 1..n |-> At(11 + i - 1)]
    BY <2>2, Zenon DEF Slice
  <2> QED BY <2>1, <2>3
<1> QED BY <1>2, <1>3, Zenon

LEMMA ParseSsl2Reads ==
  ASSUME NEW h \in Ssl2Hello, Begins(Ssl2Bytes(h)), IInv, Ssl2Reading(h), ParseSsl2
  PROVE  Ssl2Reading(h)'
<1>1. Len(data) \in Nat
  BY Ends DEF IInv
<1> DEFINE size     == Len(h.certificate)
           cert_end == 11 + U16(7)
           has_cert == U16(7) > 0 /\ Fits(cert_end, Len(data))
           from     == IF has_cert THEN cert_end ELSE 11
           to       == from + U16(9)
           suites   == IF Fits(to, Len(data)) THEN {U24(from + 3 * k) : k \in 0..(U16(9) \div 3) - 1} ELSE {}
           chain    == IF has_cert THEN <<Slice(11, cert_end)>> ELSE <<>>
           told     == Ssl2Contents(h).chain
<1>2. /\ result' = {Response("ssl2", "Ssl2", suites, chain)}
      /\ pc' = "done" /\ data' = data /\ server_hello' = server_hello /\ certificates' = certificates
  BY Zenon DEF ParseSsl2, foundVars
<1>3. Len(data) >= 11
  BY DEF ParseSsl2, IsSsl2
<1>4. h.certificate \in Seq(Int) /\ size \in Nat /\ Ssl2Bytes(h) \in Seq(Int)
  BY Ssl2Fields, Ssl2Written, LengthIsNat, Zenon
<1>5. U16(7) = size
  <2>1. 9 <= Len(data)
    BY <1>1, <1>3
  <2> QED BY <1>1, <2>1, Ssl2Reads, Zenon
<1>6. h.certificate = <<>> <=> size = 0
  BY <1>4
<1> HIDE DEF suites
<1>7. Response("ssl2", "Ssl2", {}, chain) = Promised("ssl2", "Ssl2", {}, chain)
  BY Zenon DEF Response, Promised
<1>8. {[r EXCEPT !.suites = {}] : r \in result'} = {Promised("ssl2", "Ssl2", {}, chain)}
  <2> HIDE DEF chain
  <2>1. [Response("ssl2", "Ssl2", suites, chain) EXCEPT !.suites = {}] = Promised("ssl2", "Ssl2", {}, chain)
    BY DEF Response, Promised
  <2> QED BY <1>2, <2>1
<1>9. /\ Ssl2Contents(h).head = 11 /\ Ssl2Contents(h).cert_len = size
      /\ told = IF h.certificate = <<>> THEN <<>> ELSE <<SubSeq(Ssl2Bytes(h), 12, 11 + size)>>
  BY Zenon DEF Ssl2Contents
<1> HIDE DEF told, size
<1>10. Ssl2Understood(Ssl2Contents(h), Len(data)) =
         {Promised("ssl2", "Ssl2", {}, IF Len(data) < 11 + size THEN <<>> ELSE told)}
  <2>1. ~(Len(data) < 11)
    BY <1>1, <1>3
  <2> QED BY <1>9, <2>1, Zenon DEF Ssl2Understood, told
<1>11. chain = IF Len(data) < 11 + size THEN <<>> ELSE told
  <2>1. CASE size = 0
    <3>1. told = <<>> /\ ~(U16(7) > 0)
      BY <1>5, <1>6, <1>9, <2>1
    <3> QED BY <3>1, Zenon
  <2>2. CASE Len(data) < 11 + size
    <3>1. ~Fits(cert_end, Len(data))
      BY <1>1, <1>4, <1>5, <2>2 DEF Fits
    <3> QED BY <2>2, <3>1, Zenon
  <2>3. CASE size # 0 /\ ~(Len(data) < 11 + size)
    <3>1. 11 + size <= Len(data) /\ size > 0
      BY <1>1, <1>4, <2>3
    <3>2. has_cert
      BY <1>5, <3>1, Zenon DEF Fits
    <3>3. chain = <<Slice(11, 11 + size)>>
      BY <1>5, <3>2, Zenon
    <3>4. Slice(11, 11 + size) = SubSeq(Ssl2Bytes(h), 12, 11 + size)
      BY <1>1, <1>4, <3>1, Ssl2Cut, Zenon
    <3>5. told = <<SubSeq(Ssl2Bytes(h), 12, 11 + size)>>
      BY <1>6, <1>9, <2>3, Zenon
    <3> QED BY <2>3, <3>3, <3>4, <3>5, Zenon
  <2> QED BY <2>1, <2>2, <2>3, Zenon
<1> HIDE DEF chain
<1>12. {[r EXCEPT !.suites = {}] : r \in result'} = Ssl2Understood(Ssl2Contents(h), Len(data))
  BY <1>8, <1>10, <1>11, Zenon
<1> QED BY <1>2, <1>12, Zenon DEF Ssl2Reading

LEMMA Ssl2Next ==
  ASSUME NEW h \in Ssl2Hello, Begins(Ssl2Bytes(h)), IInv, Ssl2Reading(h), [Next]_vars
  PROVE  Ssl2Reading(h)'
<1>1. TypeOK /\ Len(data) \in Nat /\ offset \in Nat /\ data \in Seq(Byte)
  BY Ends, BuffersAssumption DEF IInv, TypeOK
<1>2. pc \in {"start", "record", "done"} /\ server_hello = {} /\ certificates = <<>>
  BY Zenon DEF Ssl2Reading
<1>3. /\ 1 <= Len(data) => At(0) >= 128
      /\ 3 <= Len(data) => At(2) = 4
      /\ 5 <= Len(data) => At(4) = 1
  BY <1>1, Ssl2Reads, Zenon
<1>4. At(3) \in Nat /\ At(0) \in Nat
  BY Fields DEF IInv, TypeOK
<1>5. pc = "record" /\ HasRecord => offset = 0 /\ 5 <= Len(data)
  <2> SUFFICES ASSUME pc = "record", HasRecord PROVE offset = 0 /\ 5 <= Len(data)
    OBVIOUS
  <2>1. offset + 5 <= Len(data)
    BY DEF HasRecord, Fits
  <2>2. Len(data) < 11 /\ (offset = 0 \/ offset >= 6)
    BY Zenon DEF Ssl2Reading
  <2> QED BY <1>1, <2>1, <2>2
<1>6. CASE ParseSsl2
  BY <1>6, ParseSsl2Reads, Zenon
<1>7. CASE Start
  <2>1. Len(data) < 11
    <3>1. ~IsSsl2
      BY <1>7, Zenon DEF Start
    <3> QED BY <1>1, <1>3, <3>1 DEF IsSsl2
  <2>2. pc = "start"
    BY <1>7, Zenon DEF Start
  <2>3. offset = 0 /\ result = {}
    BY <2>2 DEF IInv, Nested, Ssl2Reading
  <2>4. /\ pc' = "record" \/ pc' = "done"
        /\ data' = data /\ offset' = offset /\ server_hello' = server_hello
        /\ certificates' = certificates /\ result' = result
    BY <1>7, Zenon DEF Start, foundVars
  <2>5. {[r EXCEPT !.suites = {}] : r \in result'} = Ssl2Understood(Ssl2Contents(h), Len(data))
    <3>1. Ssl2Understood(Ssl2Contents(h), Len(data)) = {}
      BY <1>1, <2>1, Ssl2Nothing, Zenon
    <3> QED BY <2>3, <2>4, <3>1
  <2> QED BY <1>2, <2>1, <2>3, <2>4, <2>5, Zenon DEF Ssl2Reading
<1>8. CASE ParseAlert \/ EnterRecord
  <2>1. pc = "record" /\ HasRecord /\ (At(offset) = 21 \/ At(offset) = 22)
    BY <1>8, Zenon DEF ParseAlert, EnterRecord
  <2>2. At(0) = 21 \/ At(0) = 22
    BY <1>5, <2>1, Zenon
  <2>3. At(0) >= 128
    BY <1>1, <1>3, <1>5, <2>1
  <2> QED BY <2>2, <2>3
<1>9. CASE SkipRecord
  <2>1. /\ pc = "record" /\ HasRecord /\ pc' = pc /\ offset' = RecordEnd
        /\ data' = data /\ server_hello' = server_hello /\ certificates' = certificates /\ result' = result
    BY <1>9, Zenon DEF SkipRecord, foundVars
  <2>2. offset = 0 /\ 5 <= Len(data)
    BY <1>5, <2>1, Zenon
  <2>3. RecordEnd = 0 + 5 + U16(0 + 3) /\ U16(0 + 3) = 256 * At(0 + 3) + At(0 + 3 + 1)
    BY <2>2, Zenon DEF RecordEnd, U16
  <2>4. 0 + 3 = 3 /\ 0 + 3 + 1 = 4
    OBVIOUS
  <2>5. RecordEnd = 5 + (256 * At(3) + 1)
    BY <1>3, <1>4, <2>2, <2>3, <2>4
  <2>6. offset' >= 6
    BY <1>4, <2>1, <2>5
  <2>7. Len(data) < 11 /\ result = {}
    BY <2>1, Zenon DEF Ssl2Reading
  <2> QED BY <1>2, <2>1, <2>6, <2>7 DEF Ssl2Reading
<1>10. CASE Finish
  <2>1. /\ pc = "record" /\ pc' = "done" /\ data' = data
        /\ server_hello' = server_hello /\ certificates' = certificates
        /\ result' = (IF server_hello = {} /\ certificates # <<>>
                        THEN {Response("hello", "Tls12", {0}, certificates)}
                        ELSE {Response("hello", h0.version, {h0.suite}, certificates) : h0 \in server_hello})
    BY <1>10, Zenon DEF Finish, foundVars
  <2>2. result' = {}
    BY <1>2, <2>1
  <2>3. Len(data) < 11
    BY <2>1, Zenon DEF Ssl2Reading
  <2>4. Ssl2Understood(Ssl2Contents(h), Len(data)) = {}
    BY <1>1, <2>3, Ssl2Nothing, Zenon
  <2>5. {[r EXCEPT !.suites = {}] : r \in result'} = Ssl2Understood(Ssl2Contents(h), Len(data))
    BY <2>2, <2>4
  <2> QED BY <1>2, <2>1, <2>5, Zenon DEF Ssl2Reading
<1>11. CASE \/ ParseServerHello \/ EnterCertificates \/ SkipMessage \/ LeaveRecord
            \/ ParseExtension \/ ParseCertificate \/ LeaveMessage
  <2>1. pc \in {"message", "extension", "certificate"}
    BY <1>11 DEF ParseServerHello, EnterCertificates, SkipMessage, LeaveRecord,
       ParseExtension, ParseCertificate, LeaveMessage
  <2> QED BY <1>2, <2>1
<1>12. CASE UNCHANGED vars
  BY <1>12, Zenon DEF Ssl2Reading, vars, foundVars
<1> QED BY <1>6, <1>7, <1>8, <1>9, <1>10, <1>11, <1>12, Zenon DEF Next, Terminating

(***************************************************************************)
(* On what has arrived of any SSLv2 ServerHello, cut off at any byte,      *)
(* parse_server_response knows it from its first eleven bytes on, and its  *)
(* certificate is what Wire says the parser takes for it, or none.         *)
(***************************************************************************)
THEOREM UnderstandsSsl2Hellos == Spec => []UnderstandsSsl2
<1> DEFINE AllRead == \A h \in Ssl2Hellos : Begins(Ssl2Bytes(h)) => Ssl2Reading(h)
<1>1. Init => AllRead
  BY DEF Init, Ssl2Reading
<1>2. IInv /\ AllRead /\ [Next]_vars => AllRead'
  <2> SUFFICES ASSUME IInv, AllRead, [Next]_vars PROVE AllRead'
    OBVIOUS
  <2>1. data' = data
    BY DEF Next, ParseSsl2, Start, ParseAlert, EnterRecord, SkipRecord, Finish, ParseServerHello,
       EnterCertificates, SkipMessage, LeaveRecord, ParseExtension, ParseCertificate, LeaveMessage, Terminating, vars
  <2>2. ASSUME NEW h \in Ssl2Hellos, Begins(Ssl2Bytes(h))' PROVE Ssl2Reading(h)'
    <3>1. Begins(Ssl2Bytes(h))
      BY <2>1, <2>2, Zenon DEF Begins
    <3>2. h \in Ssl2Hello
      BY Ssl2HellosAreWritten DEF IsSsl2Hello
    <3> QED BY <3>1, <3>2, Ssl2Next, Zenon
  <2> QED BY <2>2, Zenon
<1>3. AllRead => UnderstandsSsl2
  BY Zenon DEF UnderstandsSsl2, Ssl2BytesOf, Ssl2Reading
<1> QED BY Invariance, <1>1, <1>2, <1>3, PTL DEF Spec

-----------------------------------------------------------------------------
(* What a probe relies on: FlightsAssumption of ProtocolProbe *)

Probe == INSTANCE Probes

(***************************************************************************)
(* A server says hello once, in one record, and sends at most one chain,   *)
(* behind its hello.  (A hello cut over two records is a rest of both and  *)
(* no message; what follows it would be a chain without a hello.)          *)
(***************************************************************************)
Hellos(ms)       == {i \in 1..Len(ms) : ms[i].kind = "hello"}
Certificates(ms) == {i \in 1..Len(ms) : ms[i].kind = "certificate"}

IsOrderly(ms) ==
  /\ \A i, j \in Hellos(ms) : i = j
  /\ \A i, j \in Certificates(ms) : i = j
  /\ \A c \in Certificates(ms) : \E h \in Hellos(ms) : h < c

Sent(f) == Messages(f, Len(f))

IsCalm(f) == \A k \in 1..Len(f) : f[k].type # "alert"

(* Either by a set of at most one. *)
Chains(chain) == IF chain = <<>> THEN {} ELSE {chain}
Answer(f)     == {[version |-> h.version, certificate |-> Chains(Chain(Sent(f)))] : h \in LastHello(Sent(f))}
Ssl2Answer(h) == {[version |-> "Ssl2", certificate |-> Chains(Ssl2Contents(h).chain)]}

LEMMA NothingBefore ==
  ASSUME NEW T, NEW s \in Seq(T)
  PROVE  <<>> \o s = s
OBVIOUS

(* Among the first n messages the hello is found if it is one of them, *)
LEMMA FirstHello ==
  ASSUME NEW ms \in Seq(Message), \A i, j \in Hellos(ms) : i = j, NEW n \in Nat
  PROVE  n <= Len(ms) =>
           /\ Hellos(ms) = {} => LastHello(SubSeq(ms, 1, n)) = {}
           /\ \A h \in Hellos(ms) : LastHello(SubSeq(ms, 1, n)) =
                IF h <= n THEN {[version |-> ms[h].version, suite |-> ms[h].suite]} ELSE {}
<1> DEFINE Named(h) == {[version |-> ms[h].version, suite |-> ms[h].suite]}
           Is(i) == LastHello(SubSeq(ms, 1, i))
           H == Hellos(ms)
           Claim(i) == i <= Len(ms) =>
             /\ H = {} => Is(i) = {}
             /\ \A h \in H : Is(i) = IF h <= i THEN Named(h) ELSE {}
           X == {i \in Nat : Claim(i)}
<1>1. Len(ms) \in Nat /\ Is(0) = {}
  BY FirstOf, LengthIsNat, NothingFound, Zenon
<1>2. \A i : i \in H <=> i \in 1..Len(ms) /\ ms[i].kind = "hello"
  BY Zenon DEF Hellos
<1>3. \A i, j \in H : i = j
  OBVIOUS
<1> HIDE DEF Named, Is, H
<1>4. Claim(0)
  <2>1. \A h \in H : ~(h <= 0)
    BY <1>1, <1>2
  <2> QED BY <1>1, <2>1, Zenon
<1>5. ASSUME NEW i \in Nat, Claim(i), i + 1 <= Len(ms)
      PROVE  /\ H = {} => Is(i + 1) = {}
             /\ \A h \in H : Is(i + 1) = IF h <= i + 1 THEN Named(h) ELSE {}
  <2> DEFINE m == ms[i + 1]
  <2>1. i \in 0..(Len(ms) - 1) /\ i \in 0..Len(ms) /\ i + 1 \in 1..Len(ms) /\ i <= Len(ms)
    BY <1>1, <1>5
  <2>2. /\ SubSeq(ms, 1, i + 1) = Append(SubSeq(ms, 1, i), m)
        /\ SubSeq(ms, 1, i) \in Seq(Message) /\ m \in Message
    BY <2>1, FirstOf, MemberOf, Zenon
  <2>3. Is(i + 1) = IF m.kind = "hello" THEN Named(i + 1) ELSE Is(i)
    BY <2>2, LastHelloAppend, Zenon DEF Is, Named
  <2>4. m.kind = "hello" <=> i + 1 \in H
    BY <1>2, <2>1, Zenon
  <2>5. CASE i + 1 \in H
    <3>1. \A h \in H : h = i + 1
      BY <1>3, <2>5, Zenon
    <3>2. i + 1 <= i + 1
      BY <1>5
    <3> QED BY <2>3, <2>4, <2>5, <3>1, <3>2, Zenon
  <2>6. CASE i + 1 \notin H
    <3>1. Is(i + 1) = Is(i)
      BY <2>3, <2>4, <2>6, Zenon
    <3>2. \A h \in H : h <= i + 1 <=> h <= i
      <4> SUFFICES ASSUME NEW h \in H PROVE h <= i + 1 <=> h <= i
        OBVIOUS
      <4>1. h \in Nat /\ h # i + 1
        BY <1>2, <2>6
      <4> QED BY <1>5, <4>1
    <3> QED BY <1>5, <2>1, <3>1, <3>2, Zenon
  <2> QED BY <2>5, <2>6
<1> HIDE DEF X
<1>6. Nat \subseteq X
  <2>1. 0 \in X /\ \A i \in Nat : i \in X => i + 1 \in X
    BY <1>4, <1>5 DEF X
  <2> QED BY <2>1, SetInduction, Zenon
<1>7. Claim(n)
  BY <1>6 DEF X
<1> QED BY <1>7, Zenon DEF Named, Is, H

(* and the chain is. *)
LEMMA FirstChain ==
  ASSUME NEW ms \in Seq(Message), \A i, j \in Certificates(ms) : i = j, NEW n \in Nat
  PROVE  n <= Len(ms) =>
           /\ Certificates(ms) = {} => Chain(SubSeq(ms, 1, n)) = <<>>
           /\ \A c \in Certificates(ms) : Chain(SubSeq(ms, 1, n)) = IF c <= n THEN ms[c].chain ELSE <<>>
<1> DEFINE Is(i) == Chain(SubSeq(ms, 1, i))
           C == Certificates(ms)
           Claim(i) == i <= Len(ms) =>
             /\ C = {} => Is(i) = <<>>
             /\ \A c \in C : Is(i) = IF c <= i THEN ms[c].chain ELSE <<>>
           X == {i \in Nat : Claim(i)}
<1>1. Len(ms) \in Nat /\ Is(0) = <<>>
  BY FirstOf, LengthIsNat, NothingFound, Zenon
<1>2. \A i : i \in C <=> i \in 1..Len(ms) /\ ms[i].kind = "certificate"
  BY Zenon DEF Certificates
<1>3. \A i, j \in C : i = j
  OBVIOUS
<1> HIDE DEF Is, C
<1>4. Claim(0)
  <2>1. \A c \in C : ~(c <= 0)
    BY <1>1, <1>2
  <2> QED BY <1>1, <2>1, Zenon
<1>5. ASSUME NEW i \in Nat, Claim(i), i + 1 <= Len(ms)
      PROVE  /\ C = {} => Is(i + 1) = <<>>
             /\ \A c \in C : Is(i + 1) = IF c <= i + 1 THEN ms[c].chain ELSE <<>>
  <2> DEFINE m == ms[i + 1]
  <2>1. i \in 0..(Len(ms) - 1) /\ i \in 0..Len(ms) /\ i + 1 \in 1..Len(ms) /\ i <= Len(ms)
    BY <1>1, <1>5
  <2>2. /\ SubSeq(ms, 1, i + 1) = Append(SubSeq(ms, 1, i), m)
        /\ SubSeq(ms, 1, i) \in Seq(Message) /\ m \in Message
    BY <2>1, FirstOf, MemberOf, Zenon
  <2>3. Is(i + 1) = IF m.kind = "certificate" THEN Is(i) \o m.chain ELSE Is(i)
    BY <2>2, ChainAppend, Zenon DEF Is
  <2>4. m.kind = "certificate" <=> i + 1 \in C
    BY <1>2, <2>1, Zenon
  <2>5. CASE i + 1 \in C
    <3>1. \A c \in C : c = i + 1
      BY <1>3, <2>5, Zenon
    <3>2. i + 1 <= i + 1 /\ ~(i + 1 <= i)
      BY <1>5
    <3>3. Is(i) = <<>>
      BY <1>5, <2>1, <2>5, <3>2, Zenon
    <3>4. m.chain \in Seq(Seq(Octet))
      BY <2>2, <2>4, <2>5, MessageKinds, CertificateFields, Zenon
    <3>5. <<>> \o m.chain = m.chain
      BY <3>4, NothingBefore, Zenon
    <3> QED BY <2>3, <2>4, <2>5, <3>1, <3>2, <3>3, <3>5, Zenon
  <2>6. CASE i + 1 \notin C
    <3>1. Is(i + 1) = Is(i)
      BY <2>3, <2>4, <2>6, Zenon
    <3>2. \A c \in C : c <= i + 1 <=> c <= i
      <4> SUFFICES ASSUME NEW c \in C PROVE c <= i + 1 <=> c <= i
        OBVIOUS
      <4>1. c \in Nat /\ c # i + 1
        BY <1>2, <2>6
      <4> QED BY <1>5, <4>1
    <3> QED BY <1>5, <2>1, <3>1, <3>2, Zenon
  <2> QED BY <2>5, <2>6
<1> HIDE DEF X
<1>6. Nat \subseteq X
  <2>1. 0 \in X /\ \A i \in Nat : i \in X => i + 1 \in X
    BY <1>4, <1>5 DEF X
  <2> QED BY <2>1, SetInduction, Zenon
<1>7. Claim(n)
  BY <1>6 DEF X
<1> QED BY <1>7, Zenon DEF Is, C

(* What has arrived of a flight is its first messages. *)
LEMMA ArrivedAreFirst ==
  ASSUME NEW f, IsFlight(f), NEW k \in 0..Len(f)
  PROVE  \E n \in 0..Len(Sent(f)) : Messages(f, k) = SubSeq(Sent(f), 1, n)
<1> DEFINE ss == [i \in 1..Len(f) |-> f[i].messages]
           ms == Messages(f, k)
           all == Sent(f)
<1>1. Len(f) \in Nat /\ \A i \in 1..Len(f) : f[i].messages \in Seq(Message)
  BY RecordsWritten, RecordFields, Zenon
<1>2. ms = Concats(ss)[k] /\ all = Concats(ss)[Len(f)]
  BY Zenon DEF Messages, Sent
<1>3. ss \in Seq(Seq(Message)) /\ Len(ss) = Len(f)
  <2>1. ss \in [1..Len(f) -> Seq(Message)]
    BY <1>1, Zenon
  <2> HIDE DEF ss
  <2> QED BY <1>1, <2>1, FunctionIsSequence, Zenon
<1>4. ms \in Seq(Message) /\ all \in Seq(Message)
  <2>1. Len(f) \in 0..Len(f)
    BY <1>1
  <2> QED BY <2>1, MessagesUnfold, Zenon DEF Sent
<1> HIDE DEF ss, ms, all
<1>5. Len(ms) <= Len(all) /\ \A i \in 1..Len(ms) : all[i] = ms[i]
  <2>1. k <= Len(f) /\ Len(f) <= Len(ss) /\ k \in 0..Len(ss)
    BY <1>1, <1>3
  <2> QED BY <1>1, <1>2, <1>3, <2>1, ConcatsBegin, Zenon
<1>6. Len(ms) \in 0..Len(all)
  BY <1>4, <1>5
<1>7. ms = SubSeq(all, 1, Len(ms))
  BY <1>4, <1>5
<1> QED BY <1>6, <1>7, Zenon DEF ms, all

(* Sent is the last of them. *)
LEMMA SentIs ==
  ASSUME NEW f, IsFlight(f)
  PROVE  /\ Sent(f) \in Seq(Message) /\ Len(Sent(f)) \in Nat
         /\ SubSeq(Sent(f), 1, Len(Sent(f))) = Sent(f)
         /\ Size(f) \in Nat /\ Arrived(f, Size(f)) = Len(f)
<1>1. Len(f) \in Nat
  BY RecordsWritten, Zenon
<1>2. Len(f) \in 0..Len(f)
  BY <1>1
<1>3. Sent(f) \in Seq(Message)
  BY <1>2, MessagesUnfold, Zenon DEF Sent
<1>4. Size(f) \in Nat /\ EndOf(f, Len(f)) = Size(f)
  BY <1>2, EndsAre, Zenon DEF Size
<1>5. EndOf(f, Len(f)) <= Size(f)
  BY <1>4
<1>6. Arrived(f, Size(f)) = Len(f)
  BY <1>2, <1>4, <1>5, ArrivedIs, Zenon
<1> QED BY <1>3, <1>4, <1>6, FirstOf, LengthIsNat, Zenon

(***************************************************************************)
(* What the messages that have arrived amount to, of a flight that says    *)
(* hello once: nothing, or the hello with no chain or with all of it.      *)
(***************************************************************************)
LEMMA FoundOfOrderly ==
  ASSUME NEW f, IsFlight(f), IsOrderly(Sent(f)), NEW k \in 0..Len(f)
  PROVE  LET ms == Messages(f, k)
         IN /\ LastHello(ms) = {} => Chain(ms) = <<>>
            /\ LastHello(ms) # {} => LastHello(ms) = LastHello(Sent(f))
            /\ Chain(ms) \in {<<>>, Chain(Sent(f))}
<1> DEFINE all == Sent(f)
           H == Hellos(all)
           C == Certificates(all)
<1>1. /\ all \in Seq(Message) /\ Len(all) \in Nat
      /\ SubSeq(all, 1, Len(all)) = all
  BY SentIs, Zenon
<1>2. PICK n \in 0..Len(all) : Messages(f, k) = SubSeq(all, 1, n)
  BY ArrivedAreFirst, Zenon
<1>3. /\ \A i, j \in H : i = j
      /\ \A i, j \in C : i = j
      /\ \A c \in C : \E h \in H : h < c
  BY Zenon DEF IsOrderly
<1>4. n \in Nat /\ n <= Len(all) /\ Len(all) <= Len(all)
  BY <1>1
<1>5. \A h \in H \cup C : h \in Nat /\ h <= Len(all)
  BY <1>1 DEF Hellos, Certificates
<1> DEFINE Named(h) == {[version |-> all[h].version, suite |-> all[h].suite]}
           ms == SubSeq(all, 1, n)
<1>6. /\ H = {} => LastHello(ms) = {} /\ LastHello(all) = {}
      /\ \A h \in H : /\ LastHello(ms) = IF h <= n THEN Named(h) ELSE {}
                      /\ LastHello(all) = IF h <= Len(all) THEN Named(h) ELSE {}
  BY <1>1, <1>3, <1>4, FirstHello, Zenon
<1>7. /\ C = {} => Chain(ms) = <<>>
      /\ \A c \in C : /\ Chain(ms) = IF c <= n THEN all[c].chain ELSE <<>>
                      /\ Chain(all) = IF c <= Len(all) THEN all[c].chain ELSE <<>>
  BY <1>1, <1>3, <1>4, FirstChain, Zenon
<1> HIDE DEF all, H, C, Named, ms
<1>8. \A h : Named(h) # {}
  BY Zenon DEF Named
<1>9. LastHello(ms) = {} => Chain(ms) = <<>>
  <2> SUFFICES ASSUME LastHello(ms) = {}, NEW c \in C PROVE ~(c <= n)
    BY <1>7, Zenon
  <2>1. PICK h \in H : h < c
    BY <1>3, Zenon
  <2>2. ~(h <= n)
    BY <1>6, <1>8, Zenon
  <2>3. h \in Nat /\ c \in Nat
    BY <1>5, Zenon
  <2> QED BY <1>4, <2>1, <2>2, <2>3
<1>10. LastHello(ms) # {} => LastHello(ms) = LastHello(all)
  <2> SUFFICES ASSUME LastHello(ms) # {} PROVE LastHello(ms) = LastHello(all)
    OBVIOUS
  <2>1. PICK h \in H : LastHello(ms) = IF h <= n THEN Named(h) ELSE {}
    BY <1>6, Zenon
  <2>2. h <= Len(all)
    BY <1>5, Zenon
  <2> QED BY <1>6, <2>1, <2>2, Zenon
<1>11. Chain(ms) \in {<<>>, Chain(all)}
  <2>1. CASE C = {}
    BY <1>7, <2>1, Zenon
  <2>2. ASSUME NEW c \in C PROVE Chain(ms) \in {<<>>, Chain(all)}
    BY <1>5, <1>7, Zenon
  <2> QED BY <2>1, <2>2, Zenon
<1> QED BY <1>2, <1>9, <1>10, <1>11, Zenon DEF all, ms

(* A chain as the parser's response has it, and as an answer does. *)
LEMMA CertsAre ==
  ASSUME NEW kind, NEW version, NEW suites, NEW chain
  PROVE  /\ Promised(kind, version, suites, chain).kind = kind
         /\ Promised(kind, version, suites, chain).version = version
         /\ Probe!Certs(Promised(kind, version, suites, chain)) = Chains(chain)
BY DEF Promised, Probe!Certs, Chains

(* No TLS server says hello with SSLv2. *)
LEMMA VersionOfHello ==
  ASSUME NEW ms \in Seq(Message), NEW h \in LastHello(ms)
  PROVE  h.version # "Ssl2"
<1>1. PICK i \in 1..Len(ms) : ms[i].kind = "hello" /\ h = [version |-> ms[i].version, suite |-> ms[i].suite]
  BY Zenon DEF LastHello
<1>2. ms[i] \in HelloMessage
  BY <1>1, MemberOf, MessageKinds, Zenon
<1>3. ms[i].version \in {"Ssl3", "Tls10", "Tls11", "Tls12", "Tls13"}
  BY <1>2, HelloFields, Zenon
<1>4. h.version = ms[i].version
  BY <1>1
<1> QED BY <1>3, <1>4

(* There is at most one last hello. *)
LEMMA OneLastHello ==
  ASSUME NEW ms \in Seq(Message), NEW g \in LastHello(ms), NEW h \in LastHello(ms)
  PROVE  g = h
<1> DEFINE H == {i \in 1..Len(ms) : ms[i].kind = "hello"}
           Top == {j \in H : \A l \in H : l <= j}
           Named(i) == [version |-> ms[i].version, suite |-> ms[i].suite]
<1>1. PICK i \in Top : g = Named(i)
  BY Zenon DEF LastHello
<1>2. PICK j \in Top : h = Named(j)
  BY Zenon DEF LastHello
<1>3. i <= j /\ j <= i /\ i \in Nat /\ j \in Nat
  BY <1>1, <1>2
<1>4. i = j
  BY <1>3
<1> QED BY <1>1, <1>2, <1>4, Zenon

(***************************************************************************)
(* What the parser understands of whatever has come of an orderly flight   *)
(* is what a probe may rely on (FlightsAssumption of ProtocolProbe): one   *)
(* response at most, that refuses or says what the whole flight says, its  *)
(* chain perhaps excepted; and of all of a flight without alerts, all.     *)
(***************************************************************************)
THEOREM FlightsAreReliable ==
  ASSUME NEW f, IsFlight(f), IsOrderly(Sent(f))
  PROVE  /\ Size(f) \in Nat
         /\ \A a, b \in Answer(f) : a = b
         /\ \A n \in 0..Size(f) : Probe!Reliable(Understood(f, n), Answer(f))
         /\ IsCalm(f) => Probe!Telling(Understood(f, Size(f)), Answer(f))
<1> DEFINE all == Sent(f)
           Said(h) == [version |-> h.version, certificate |-> Chains(Chain(all))]
<1>1. /\ all \in Seq(Message) /\ Size(f) \in Nat /\ Arrived(f, Size(f)) = Len(f) /\ Len(f) \in Nat
      /\ Answer(f) = {Said(h) : h \in LastHello(all)}
  BY SentIs, RecordsWritten, Zenon DEF Answer
<1>2. \A a, b \in Answer(f) : a = b
  BY <1>1, OneLastHello, Zenon
<1>3. ASSUME NEW h \in LastHello(all), NEW chain \in {<<>>, Chain(all)}
      PROVE  LET r == ServerHello(h.version, h.suite, chain)
             IN Probe!Says(r, Said(h)) /\ (chain = Chain(all) => Probe!Certs(r) = Said(h).certificate)
  <2> DEFINE r == ServerHello(h.version, h.suite, chain)
             a == Said(h)
  <2>1. r.kind = "hello" /\ r.version = h.version /\ Probe!Certs(r) = Chains(chain)
    BY CertsAre DEF ServerHello
  <2>2. a.version = h.version /\ a.certificate = Chains(Chain(all))
    OBVIOUS
  <2>3. h.version # "Ssl2"
    BY <1>1, VersionOfHello, Zenon
  <2>4. Chains(<<>>) = {}
    BY Zenon DEF Chains
  <2> HIDE DEF r, a, all
  <2>5. Probe!Says(r, a)
    BY <2>1, <2>2, <2>3, <2>4, <1>3, Zenon DEF Probe!Says
  <2> QED BY <2>1, <2>2, <2>5, Zenon DEF r, a
<1>4. ASSUME NEW n \in 0..Size(f) PROVE Probe!Reliable(Understood(f, n), Answer(f))
  <2> DEFINE k == Arrived(f, n)
             ms == Messages(f, k)
  <2>1. k \in 0..Len(f)
    <3>1. n \in Nat /\ 0 \in 0..Len(f)
      BY <1>1
    <3>2. EndOf(f, 0) <= n
      BY <3>1, EndsUnfold
    <3> QED BY <3>1, <3>2, ArrivedAtLeast, Zenon
  <2>2. /\ LastHello(ms) = {} => Chain(ms) = <<>>
        /\ LastHello(ms) # {} => LastHello(ms) = LastHello(all)
        /\ Chain(ms) \in {<<>>, Chain(all)}
    BY <2>1, FoundOfOrderly, Zenon
  <2>3. Understood(f, n) =
          IF \E i \in 1..k : f[i].type = "alert" THEN {Alert}
          ELSE IF LastHello(ms) = {} /\ Chain(ms) # <<>> THEN {ServerHello("Tls12", 0, Chain(ms))}
          ELSE {ServerHello(h.version, h.suite, Chain(ms)) : h \in LastHello(ms)}
    BY Zenon DEF Understood
  <2> HIDE DEF k, ms, all, Said
  <2>4. CASE \E i \in 1..k : f[i].type = "alert"
    <3>1. Understood(f, n) = {Alert}
      BY <2>3, <2>4, Zenon
    <3>2. Alert.kind = "alert"
      BY DEF Alert, Promised
    <3> QED BY <3>1, <3>2, Zenon DEF Probe!Reliable
  <2>5. CASE ~\E i \in 1..k : f[i].type = "alert"
    <3>1. Understood(f, n) = {ServerHello(h.version, h.suite, Chain(ms)) : h \in LastHello(ms)}
      BY <2>2, <2>3, <2>5, Zenon
    <3>2. ASSUME NEW r \in Understood(f, n)
          PROVE  \E h \in LastHello(all) : r = ServerHello(h.version, h.suite, Chain(ms)) /\ Probe!Says(r, Said(h))
      BY <1>3, <2>2, <3>1, <3>2, Zenon
    <3>3. \A r \in Understood(f, n) : \E a \in Answer(f) : Probe!Says(r, a)
      BY <1>1, <3>2, Zenon
    <3>4. ASSUME NEW r \in Understood(f, n), NEW s \in Understood(f, n) PROVE r = s
      <4>1. PICK g \in LastHello(all) : r = ServerHello(g.version, g.suite, Chain(ms))
        BY <3>2, Zenon
      <4>2. PICK h \in LastHello(all) : s = ServerHello(h.version, h.suite, Chain(ms))
        BY <3>2, Zenon
      <4>3. g = h
        BY <4>1, <4>2, <1>1, OneLastHello, Zenon
      <4> QED BY <4>1, <4>2, <4>3, Zenon
    <3> QED BY <3>3, <3>4, Zenon DEF Probe!Reliable
  <2> QED BY <2>4, <2>5
<1>5. ASSUME IsCalm(f) PROVE Probe!Telling(Understood(f, Size(f)), Answer(f))
  <2>1. ~\E i \in 1..Arrived(f, Size(f)) : f[i].type = "alert"
    BY <1>1, <1>5, Zenon DEF IsCalm
  <2>2. Messages(f, Arrived(f, Size(f))) = all
    BY <1>1, Zenon DEF Sent
  <2> HIDE DEF all, Said
  <2>3. ASSUME NEW a \in Answer(f) PROVE \E r \in Understood(f, Size(f)) : Probe!Says(r, a) /\ Probe!Certs(r) = a.certificate
    <3>1. PICK h \in LastHello(all) : a = Said(h)
      BY <1>1, Zenon
    <3>2. ServerHello(h.version, h.suite, Chain(all)) \in Understood(f, Size(f))
      BY <2>1, <2>2, Zenon DEF Understood
    <3> QED BY <1>3, <3>1, <3>2, Zenon
  <2> QED BY <2>3, Zenon DEF Probe!Telling
<1> QED BY <1>1, <1>2, <1>4, <1>5, Zenon

LEMMA Ssl2Length ==
  ASSUME NEW h \in Ssl2Hello
  PROVE  /\ Len(Ssl2Bytes(h)) \in Nat /\ Len(h.certificate) \in Nat
         /\ 11 + Len(h.certificate) <= Len(Ssl2Bytes(h))
<1> DEFINE a == <<4, h.hit, 1, 0, 2>>
           b == N16(Len(h.certificate))
           c == N16(Len(h.specs))
           d == N16(Len(h.connection_id))
           x == h.certificate
           y == h.specs
           z == h.connection_id
           body == Ssl2Body(h)
<1>1. x \in Seq(Int) /\ y \in Seq(Int) /\ z \in Seq(Int)
  BY Ssl2Fields, Zenon
<1>2. Len(x) \in Nat /\ Len(y) \in Nat /\ Len(z) \in Nat
  BY <1>1, LengthIsNat, Zenon
<1>3. b \in Seq(Int) /\ c \in Seq(Int) /\ d \in Seq(Int) /\ Len(b) = 2 /\ Len(c) = 2 /\ Len(d) = 2
  BY <1>2, Sized16, Zenon
<1>4. a \in Seq(Int) /\ Len(a) = 5
  <2> DEFINE hit == h.hit
  <2>1. h.hit \in {0, 1}
    BY Ssl2Fields, Zenon
  <2>2. hit \in Int
    BY <2>1
  <2> HIDE DEF hit
  <2>3. <<4, hit, 1, 0, 2>> \in Seq(Int) /\ Len(<<4, hit, 1, 0, 2>>) = 5
    BY <2>2
  <2> QED BY <2>3, Zenon DEF hit
<1>5. body = a \o b \o c \o d \o x \o y \o z
  BY Zenon DEF Ssl2Body
<1>6. body \in Seq(Int) /\ Len(body) \in Nat
  BY Ssl2Written, Zenon
<1>7. PICK n \in Nat : Ssl2Bytes(h) = N16(n) \o body
  BY <1>6, Ssl2Header, Zenon
<1>8. N16(n) \in Seq(Int) /\ Len(N16(n)) = 2
  BY Sized16, Zenon
<1> HIDE DEF a, b, c, d, x, y, z, body
<1>9. Len(body) = Len(a) + Len(b) + Len(c) + Len(d) + Len(x) + Len(y) + Len(z)
  <2>1. IsSeven(a, b, c, d, x, y, z, a \o b \o c \o d \o x \o y \o z)
    BY <1>1, <1>3, <1>4, SevenParts, Zenon
  <2> QED BY <1>5, <2>1, Zenon DEF IsSeven
<1>10. Len(Ssl2Bytes(h)) = 2 + Len(body)
  BY <1>6, <1>7, <1>8, BehindLen, Zenon
<1>11. Len(Ssl2Bytes(h)) \in Nat /\ 11 + Len(x) <= Len(Ssl2Bytes(h))
  BY <1>2, <1>3, <1>4, <1>6, <1>9, <1>10
<1> QED BY <1>2, <1>11, Zenon DEF x

(***************************************************************************)
(* It is so of every SSLv2 ServerHello too, if its answer is the           *)
(* certificate that the parser takes from it.                              *)
(***************************************************************************)
THEOREM Ssl2HellosAreReliable ==
  ASSUME NEW h, IsSsl2Hello(h)
  PROVE  /\ \A n \in Nat : Probe!Reliable(Ssl2Understood(Ssl2Contents(h), n), Ssl2Answer(h))
         /\ Probe!Telling(Ssl2Understood(Ssl2Contents(h), Len(Ssl2Bytes(h))), Ssl2Answer(h))
<1> DEFINE c == Ssl2Contents(h)
           a == [version |-> "Ssl2", certificate |-> Chains(c.chain)]
           n == Len(Ssl2Bytes(h))
<1>1. Ssl2Answer(h) = {a}
  BY Zenon DEF Ssl2Answer
<1>2. ASSUME NEW chain \in {<<>>, c.chain}
      PROVE  LET r == Promised("ssl2", "Ssl2", {}, chain)
             IN Probe!Says(r, a) /\ (chain = c.chain => Probe!Certs(r) = a.certificate)
  <2> DEFINE r == Promised("ssl2", "Ssl2", {}, chain)
  <2>1. r.kind = "ssl2" /\ r.version = "Ssl2" /\ Probe!Certs(r) = Chains(chain)
    BY CertsAre
  <2>2. a.version = "Ssl2" /\ a.certificate = Chains(c.chain)
    OBVIOUS
  <2>3. Chains(<<>>) = {}
    BY Zenon DEF Chains
  <2> HIDE DEF r, a, c
  <2>4. Probe!Says(r, a)
    BY <1>2, <2>1, <2>2, <2>3, Zenon DEF Probe!Says
  <2> QED BY <2>1, <2>2, <2>4, Zenon DEF r
<1>3. h \in Ssl2Hello
  BY DEF IsSsl2Hello
<1>4. ~(n < c.head + c.cert_len) /\ ~(n < c.head)
  <2>1. c.head = 11 /\ c.cert_len = Len(h.certificate)
    BY Zenon DEF Ssl2Contents
  <2> HIDE DEF a, c, n
  <2>2. n \in Nat /\ Len(h.certificate) \in Nat /\ 11 + Len(h.certificate) <= n
    BY <1>3, Ssl2Length, Zenon DEF n
  <2> QED BY <2>1, <2>2
<1> HIDE DEF a, c, n
<1>5. ASSUME NEW m \in Nat PROVE Probe!Reliable(Ssl2Understood(c, m), {a})
  <2>1. Ssl2Understood(c, m) \subseteq
          {Promised("ssl2", "Ssl2", {}, IF m < c.head + c.cert_len THEN <<>> ELSE c.chain)}
    BY Zenon DEF Ssl2Understood
  <2> QED BY <1>2, <2>1, Zenon DEF Probe!Reliable
<1>6. Probe!Telling(Ssl2Understood(c, n), {a})
  <2>1. Promised("ssl2", "Ssl2", {}, c.chain) \in Ssl2Understood(c, n)
    BY <1>4, Zenon DEF Ssl2Understood
  <2> QED BY <1>2, <2>1, Zenon DEF Probe!Telling
<1> QED BY <1>1, <1>5, <1>6, Zenon DEF c, n
=============================================================================

------------------------ MODULE ProtocolProbeProofs ------------------------
(***************************************************************************)
(* Proofs about ProtocolProbe: for flights of every size, cut anywhere,    *)
(* and buffers of every capacity, under FlightsAssumption.                 *)
(***************************************************************************)
EXTENDS ProtocolProbe, TLAPS

(* Nothing is read before the first read. *)
Unread == pc \in {"connect", "write", "read"} => total_read = 0 /\ taken = 0

IInv == TypeOK /\ Unread /\ VerdictSound /\ ExactWhenReadWhole

-----------------------------------------------------------------------------
(* Lemmas about the flight and about what a response means *)

LEMMA Sizes ==
  ASSUME TypeOK
  PROVE  /\ Length(flight) \in Nat
         /\ Capacity(probe) \in Nat \ {0}
         /\ sent \in Nat /\ sent <= Length(flight)
         /\ total_read \in Nat /\ taken \in Nat
         /\ total_read <= taken /\ taken <= sent /\ taken <= Capacity(probe)
         /\ total_read <= Length(flight)
<1>1. Length(flight) \in Nat /\ Capacity(probe) \in Nat \ {0}
  BY FlightsAssumption, ProbedAssumption DEF TypeOK
<1>2. sent \in 0..Length(flight)
  BY DEF TypeOK
<1>3. total_read \in 0..Smaller(sent, Capacity(probe))
  BY DEF TypeOK
<1>4. taken \in total_read..Smaller(sent, Capacity(probe))
  BY DEF TypeOK
<1> QED BY <1>1, <1>2, <1>3, <1>4 DEF Smaller

(* The response parsed is the only one. *)
LEMMA OneResponse ==
  ASSUME TypeOK, NEW r \in Parsed(flight, total_read), NEW s \in Parsed(flight, total_read)
  PROVE  r = s
<1>1. flight \in Flights /\ total_read \in 0..Length(flight)
  <2>1. flight \in Flights
    BY DEF TypeOK
  <2>2. /\ Length(flight) \in Nat /\ total_read \in Nat /\ total_read <= Length(flight)
    BY Sizes
  <2> QED BY <2>1, <2>2
<1> QED BY <1>1, FlightsAssumption DEF Reliable

(* A response is an alert or says the server's one answer. *)
LEMMA ResponseSays ==
  ASSUME TypeOK, NEW r \in Parsed(flight, total_read), r.kind # "alert"
  PROVE  \E a \in flight.answer : Says(r, a) /\ flight.answer = {a}
<1>1. flight \in Flights /\ total_read \in 0..Length(flight)
  <2>1. flight \in Flights
    BY DEF TypeOK
  <2>2. /\ Length(flight) \in Nat /\ total_read \in Nat /\ total_read <= Length(flight)
    BY Sizes
  <2> QED BY <2>1, <2>2
<1>2. PICK a \in flight.answer : Says(r, a)
  BY <1>1, FlightsAssumption DEF Reliable
<1>3. flight.answer = {a}
  BY <1>1, <1>2, FlightsAssumption
<1> QED BY <1>2, <1>3

(* A verdict that is not the default comes from a response of the kind probed. *)
LEMMA KindOfVerdict ==
  ASSUME NEW p, NEW r, r.kind = "alert"
  PROVE  VerdictOf(p, r) = NotSupported
BY DEF VerdictOf

(***************************************************************************)
(* What Parse makes of a response that says a: support if a is of the      *)
(* version probed, and in that case or for a lower version a's chain.      *)
(***************************************************************************)
LEMMA VerdictSays ==
  ASSUME NEW p, NEW r, NEW a, Says(r, a)
  PROVE  /\ VerdictOf(p, r).supported <=> IsMatch(p, a.version)
         /\ VerdictOf(p, r).certs \in {{}, Certs(r)}
         /\ IsMatch(p, a.version) => VerdictOf(p, r).certs = Certs(r)
         /\ VerdictOf(p, r) \in [supported : {IsMatch(p, a.version)}, certs : {{}, a.certificate}]
<1>1. r.version = a.version /\ r.kind = (IF a.version = "Ssl2" THEN "ssl2" ELSE "hello")
  BY DEF Says
<1>2. Certs(r) \in {{}, a.certificate}
  BY DEF Says
<1>3. CASE r.kind = (IF p = "Ssl2" THEN "ssl2" ELSE "hello")
  <2>1. VerdictOf(p, r) = [supported |-> IsMatch(p, r.version), certs |-> Certs(r)]
    BY <1>3 DEF VerdictOf
  <2> QED BY <1>1, <1>2, <2>1
<1>4. CASE r.kind # (IF p = "Ssl2" THEN "ssl2" ELSE "hello")
  <2>1. VerdictOf(p, r) = [supported |-> FALSE, certs |-> {}]
    BY <1>4 DEF VerdictOf, NotSupported
  <2>2. IsMatch(p, a.version) = FALSE
    BY <1>1, <1>4 DEF IsMatch
  <2>3. FALSE = IsMatch(p, a.version)
    BY <2>2
  <2>4. VerdictOf(p, r).supported = FALSE /\ VerdictOf(p, r).certs = {}
    BY <2>1
  <2>5. VerdictOf(p, r) \in [supported : {FALSE}, certs : {{}, a.certificate}]
    BY <2>1
  <2> QED BY <2>2, <2>3, <2>4, <2>5
<1> QED BY <1>3, <1>4

-----------------------------------------------------------------------------
(* The invariant *)

LEMMA InitInv == Init => IInv
<1> SUFFICES ASSUME Init PROVE IInv
  OBVIOUS
<1>1. probe \in Probed /\ flight \in Flights
  BY DEF Init
<1>2. Length(flight) \in Nat /\ Capacity(probe) \in Nat \ {0}
  BY <1>1, FlightsAssumption, ProbedAssumption
<1>3. sent = 0 /\ total_read = 0 /\ taken = 0 /\ pc = "connect" /\ closed = FALSE /\ verdict = {}
  BY DEF Init
<1>4. 0 \in 0..Length(flight) /\ 0 \in 0..Smaller(0, Capacity(probe))
  BY <1>2 DEF Smaller
<1>5. TypeOK
  BY <1>1, <1>3, <1>4 DEF TypeOK
<1> QED BY <1>5 DEF Init, IInv, Unread, VerdictSound, ExactWhenReadWhole

(* A step of the server or the network changes nothing the probe has. *)
LEMMA PeerInv ==
  ASSUME IInv, Deliver \/ Close
  PROVE  IInv'
<1>1. TypeOK
  BY DEF IInv
<1>2. /\ UNCHANGED <<probe, flight, pc, taken, total_read, verdict>>
      /\ pc # "done" /\ closed' \in BOOLEAN
  BY <1>1 DEF Deliver, Close, TypeOK
<1>3. Length(flight) \in Nat /\ sent \in Nat /\ sent <= Length(flight)
  BY <1>1, Sizes
<1>4. sent' \in Nat /\ sent <= sent' /\ sent' <= Length(flight)
  <2>1. CASE Deliver
    <3>1. sent' \in (sent + 1)..Length(flight)
      BY <2>1 DEF Deliver
    <3> QED BY <1>3, <3>1
  <2>2. CASE Close
    <3>1. sent' = sent
      BY <2>2 DEF Close
    <3> QED BY <1>3, <3>1
  <2> QED BY <2>1, <2>2
<1>5. total_read \in 0..Smaller(sent', Capacity(probe)) /\ taken \in total_read..Smaller(sent', Capacity(probe))
  BY <1>1, <1>4, Sizes DEF Smaller
<1>6. sent' \in 0..Length(flight)
  BY <1>3, <1>4
<1>7. TypeOK'
  BY <1>1, <1>2, <1>5, <1>6 DEF TypeOK
<1>8. Unread' /\ VerdictSound' /\ ExactWhenReadWhole'
  BY <1>2 DEF IInv, Unread, VerdictSound, ExactWhenReadWhole
<1> QED BY <1>7, <1>8 DEF IInv

(* A step of the probe that returns nothing. *)
LEMMA ReadInv ==
  ASSUME IInv, Connect \/ Write \/ Read \/ ReadMore
  PROVE  IInv'
<1>1. TypeOK
  BY DEF IInv
<1>2. UNCHANGED <<probe, flight, peerVars, verdict>> /\ pc # "done" /\ pc' # "done"
  BY DEF Connect, Write, Read, ReadMore
<1>3. pc' \in {"connect", "write", "read", "read more", "parse", "done"}
  BY DEF Connect, Write, Read, ReadMore
<1>4. total_read' \in 0..Smaller(sent, Capacity(probe)) /\ taken' \in total_read'..Smaller(sent, Capacity(probe))
  <2> DEFINE most == Smaller(sent, Capacity(probe))
  <2>1. most \in Nat /\ total_read \in 0..most /\ taken \in total_read..most
    BY <1>1, Sizes DEF Smaller
  <2>2. CASE UNCHANGED <<total_read, taken>>
    BY <2>1, <2>2
  <2>3. CASE total_read' = most /\ taken' = most
    BY <2>1, <2>3
  <2>4. CASE total_read' = total_read /\ taken' \in {taken, most}
    BY <2>1, <2>4
  <2>5. \/ UNCHANGED <<total_read, taken>>
        \/ total_read' = most /\ taken' = most
        \/ total_read' = total_read /\ taken' \in {taken, most}
    BY DEF Connect, Write, Read, ReadMore
  <2> QED BY <2>2, <2>3, <2>4, <2>5
<1>5. TypeOK'
  BY <1>1, <1>2, <1>3, <1>4 DEF TypeOK, peerVars
<1>6. Unread'
  BY DEF IInv, Unread, Connect, Write, Read, ReadMore
<1>7. VerdictSound' /\ ExactWhenReadWhole'
  BY <1>2 DEF IInv, VerdictSound, ExactWhenReadWhole
<1> QED BY <1>5, <1>6, <1>7 DEF IInv

(* An error is "not supported", and nothing had been read. *)
LEMMA FailInv ==
  ASSUME IInv, FailIO
  PROVE  IInv'
<1>1. TypeOK /\ Unread
  BY DEF IInv
<1>2. /\ UNCHANGED <<probe, flight, peerVars, taken, total_read>>
      /\ pc' = "done" /\ verdict' = {NotSupported} /\ total_read = 0
  BY <1>1 DEF FailIO, Unread
<1>3. TypeOK'
  BY <1>1, <1>2 DEF TypeOK, peerVars
<1>4. VerdictSound'
  BY <1>2 DEF VerdictSound, NotSupported
<1>5. Unread' /\ ExactWhenReadWhole'
  BY <1>2 DEF Unread, ExactWhenReadWhole
<1> QED BY <1>3, <1>4, <1>5 DEF IInv

(* Parse returns one verdict, that of the response if there is one. *)
LEMMA ParseReturns ==
  ASSUME TypeOK, Parse
  PROVE  \/ Parsed(flight, total_read) = {} /\ verdict' = {NotSupported}
         \/ \E r \in Parsed(flight, total_read) : verdict' = {VerdictOf(probe, r)}
<1>1. CASE Parsed(flight, total_read) = {}
  BY <1>1 DEF Parse
<1>2. CASE Parsed(flight, total_read) # {}
  <2>1. PICK r \in Parsed(flight, total_read) : TRUE
    BY <1>2
  <2>2. verdict' = {VerdictOf(probe, s) : s \in Parsed(flight, total_read)}
    BY <1>2 DEF Parse
  <2>3. \A s \in Parsed(flight, total_read) : s = r
    BY <2>1, OneResponse
  <2> QED BY <2>1, <2>2, <2>3
<1> QED BY <1>1, <1>2

LEMMA ParseInv ==
  ASSUME IInv, Parse
  PROVE  IInv'
<1>1. TypeOK
  BY DEF IInv
<1>2. UNCHANGED <<probe, flight, peerVars, taken, total_read>> /\ pc' = "done"
  BY DEF Parse
<1>3. PICK w : verdict' = {w}
  BY <1>1, ParseReturns
<1>4. TypeOK'
  BY <1>1, <1>2, <1>3 DEF TypeOK, peerVars
<1>5. Unread'
  BY <1>2 DEF Unread
<1>6. VerdictSound'
  <2>1. CASE verdict' = {NotSupported}
    BY <2>1 DEF VerdictSound, NotSupported
  <2>2. ASSUME NEW r \in Parsed(flight, total_read), verdict' = {VerdictOf(probe, r)}, r.kind # "alert"
        PROVE  VerdictSound'
    <3>1. PICK a \in flight.answer : Says(r, a) /\ flight.answer = {a}
      BY <1>1, <2>2, ResponseSays
    <3>2. /\ VerdictOf(probe, r).supported => a.version = probe
          /\ \A chain \in VerdictOf(probe, r).certs : chain \in a.certificate
      <4>1. VerdictOf(probe, r).supported <=> IsMatch(probe, a.version)
        BY <3>1, VerdictSays
      <4>2. VerdictOf(probe, r).certs \in {{}, Certs(r)}
        BY <3>1, VerdictSays
      <4> QED BY <3>1, <4>1, <4>2 DEF IsMatch, Says
    <3> QED BY <1>2, <2>2, <3>1, <3>2 DEF VerdictSound
  <2>3. ASSUME NEW r \in Parsed(flight, total_read), verdict' = {VerdictOf(probe, r)}, r.kind = "alert"
        PROVE  verdict' = {NotSupported}
    BY <2>3, KindOfVerdict
  <2> QED BY <1>1, <2>1, <2>2, <2>3, ParseReturns
<1>7. ExactWhenReadWhole'
  <2> SUFFICES ASSUME flight.ordinary, total_read = Length(flight)
               PROVE  \A v \in verdict' :
                        /\ \A a \in flight.answer : IsMatch(probe, a.version) => v.supported /\ v.certs = a.certificate
                        /\ v.supported <=> \E a \in flight.answer : IsMatch(probe, a.version)
    BY <1>2 DEF ExactWhenReadWhole
  <2>1. \A a \in flight.answer : \E r \in Parsed(flight, total_read) : Says(r, a) /\ Certs(r) = a.certificate
    BY <1>1, FlightsAssumption DEF TypeOK, Telling
  <2>2. CASE flight.answer = {}
    <3>1. verdict' = {NotSupported}
      <4>1. ASSUME NEW r \in Parsed(flight, total_read) PROVE VerdictOf(probe, r) = NotSupported
        BY <1>1, <2>2, ResponseSays, KindOfVerdict
      <4> QED BY <1>1, <4>1, ParseReturns
    <3> QED BY <2>2, <3>1 DEF NotSupported
  <2>3. ASSUME NEW a \in flight.answer
        PROVE  \A v \in verdict' :
                 /\ IsMatch(probe, a.version) => v.supported /\ v.certs = a.certificate
                 /\ v.supported <=> IsMatch(probe, a.version)
    <3>1. PICK r \in Parsed(flight, total_read) : Says(r, a) /\ Certs(r) = a.certificate
      BY <2>1, <2>3
    <3>2. verdict' = {VerdictOf(probe, r)}
      BY <1>1, <3>1, ParseReturns, OneResponse
    <3>3. VerdictOf(probe, r).supported <=> IsMatch(probe, a.version)
      BY <3>1, VerdictSays
    <3>4. IsMatch(probe, a.version) => VerdictOf(probe, r).certs = Certs(r)
      BY <3>1, VerdictSays
    <3> QED BY <3>1, <3>2, <3>3, <3>4
  <2>4. \A a, b \in flight.answer : a = b
    BY <1>1, FlightsAssumption DEF TypeOK
  <2> QED BY <2>2, <2>3, <2>4
<1> QED BY <1>4, <1>5, <1>6, <1>7 DEF IInv

(***************************************************************************)
(* The invariant holds in every state of every probe.                      *)
(***************************************************************************)
THEOREM Invariance == Spec => []IInv
<1>1. IInv /\ [Next]_vars => IInv'
  <2> SUFFICES ASSUME IInv, [Next]_vars PROVE IInv'
    OBVIOUS
  <2>1. CASE Deliver \/ Close
    BY <2>1, PeerInv
  <2>2. CASE Connect \/ Write \/ Read \/ ReadMore
    BY <2>2, ReadInv
  <2>3. CASE FailIO
    BY <2>3, FailInv
  <2>4. CASE Parse
    BY <2>4, ParseInv
  <2>5. CASE UNCHANGED vars
    BY <2>5 DEF vars, peerVars, IInv, TypeOK, Unread, VerdictSound, ExactWhenReadWhole
  <2> QED BY <2>1, <2>2, <2>3, <2>4, <2>5 DEF Next, ProbeStep, Terminating
<1> QED BY <1>1, InitInv, PTL DEF Spec

(***************************************************************************)
(* Type correctness: what is parsed was read, what is read had been sent,  *)
(* and never more than the buffer holds.                                   *)
(***************************************************************************)
THEOREM TypeCorrect == Spec => []TypeOK
<1>1. IInv => TypeOK
  BY DEF IInv
<1> QED BY <1>1, Invariance, PTL

(***************************************************************************)
(* A protocol is reported only if the server negotiated that very version. *)
(***************************************************************************)
THEOREM Sound == Spec => []VerdictSound
<1>1. IInv => VerdictSound
  BY DEF IInv
<1> QED BY <1>1, Invariance, PTL

(***************************************************************************)
(* Of an ordinary flight read whole the verdict is exact.                  *)
(***************************************************************************)
THEOREM Exact == Spec => []ExactWhenReadWhole
<1>1. IInv => ExactWhenReadWhole
  BY DEF IInv
<1> QED BY <1>1, Invariance, PTL

-----------------------------------------------------------------------------
(* The refinement of ProbeSpec *)

LEMMA FailDecides ==
  ASSUME verdict = {}, verdict' = {NotSupported}, UNCHANGED <<probe, flight>>
  PROVE  Abstract!Decide
<1>1. NotSupported \in Abstract!Outcomes(probe, {})
  BY DEF NotSupported, Abstract!Outcomes
<1> QED BY <1>1 DEF Abstract!Decide

LEMMA ParseDecides ==
  ASSUME IInv, Parse
  PROVE  Abstract!Decide
<1>1. TypeOK /\ verdict = {} /\ UNCHANGED <<probe, flight>>
  BY DEF IInv, TypeOK, Parse
<1>2. CASE verdict' = {NotSupported}
  BY <1>1, <1>2, FailDecides
<1>3. ASSUME NEW r \in Parsed(flight, total_read), verdict' = {VerdictOf(probe, r)}, r.kind # "alert"
      PROVE  Abstract!Decide
  <2>1. PICK a \in flight.answer : Says(r, a) /\ flight.answer = {a}
    BY <1>1, <1>3, ResponseSays
  <2>2. VerdictOf(probe, r) \in [supported : {IsMatch(probe, a.version)}, certs : {{}, a.certificate}]
    BY <2>1, VerdictSays
  <2>3. Abstract!Outcomes(probe, flight.answer)
          = [supported : {IsMatch(probe, a.version)}, certs : {{}, a.certificate}]
    <3>1. {\E b \in {a} : Abstract!IsMatch(probe, b.version)} = {IsMatch(probe, a.version)}
      BY DEF IsMatch, Abstract!IsMatch
    <3>2. {{}} \cup {b.certificate : b \in {a}} = {{}, a.certificate}
      OBVIOUS
    <3> QED BY <2>1, <3>1, <3>2 DEF Abstract!Outcomes
  <2> QED BY <1>1, <1>3, <2>2, <2>3 DEF Abstract!Decide
<1>4. ASSUME NEW r \in Parsed(flight, total_read), verdict' = {VerdictOf(probe, r)}, r.kind = "alert"
      PROVE  Abstract!Decide
  BY <1>1, <1>4, KindOfVerdict, FailDecides
<1> QED BY <1>1, <1>2, <1>3, <1>4, ParseReturns

(***************************************************************************)
(* The probe implements the one-step probe that RunScan takes it for.      *)
(***************************************************************************)
THEOREM Refinement == Spec => ImplementsSpec
<1>1. Init => Abstract!Init
  BY DEF Init, Abstract!Init
<1>2. IInv /\ [Next]_vars => [Abstract!Decide]_(Abstract!vars)
  <2> SUFFICES ASSUME IInv, [Next]_vars PROVE [Abstract!Decide]_(Abstract!vars)
    OBVIOUS
  <2>1. CASE Parse
    BY <2>1, ParseDecides
  <2>2. CASE FailIO
    <3>1. verdict = {}
      BY <2>2 DEF IInv, TypeOK, FailIO
    <3> QED BY <2>2, <3>1, FailDecides DEF FailIO
  <2>3. CASE UNCHANGED <<probe, flight, verdict>>
    BY <2>3 DEF Abstract!vars
  <2> QED
    BY <2>1, <2>2, <2>3 DEF Next, ProbeStep, Terminating, Deliver, Close, Connect, Write, Read, ReadMore, vars
<1> QED BY <1>1, <1>2, Invariance, PTL DEF Spec, ImplementsSpec, Abstract!Safety

-----------------------------------------------------------------------------
(* Termination *)

StepsLeft ==
  CASE pc = "connect" -> 5 [] pc = "write" -> 4 [] pc = "read" -> 3
    [] pc = "read more" -> 2 [] pc = "parse" -> 1 [] OTHER -> 0

(* A bound on the steps still to come, of the probe, the server and the network. *)
StepsAhead == StepsLeft + (Length(flight) - sent) + (IF closed THEN 0 ELSE 1)

LEMMA StepsBounded ==
  ASSUME TypeOK
  PROVE  StepsAhead \in 0..Length(flight) + 6
<1>1. StepsLeft \in 0..5
  BY DEF StepsLeft
<1>2. Length(flight) \in Nat /\ sent \in Nat /\ sent <= Length(flight)
  BY Sizes
<1> QED BY <1>1, <1>2 DEF StepsAhead

LEMMA StepsFall ==
  ASSUME TypeOK, TypeOK', [Next]_vars
  PROVE  vars' = vars \/ StepsAhead' < StepsAhead
<1> SUFFICES ASSUME Next, ~Terminating PROVE StepsAhead' < StepsAhead
  BY DEF Terminating
<1>1. StepsLeft \in 0..5 /\ StepsLeft' \in 0..5
  BY DEF StepsLeft
<1>2. Length(flight) \in Nat /\ sent \in Nat /\ sent <= Length(flight)
  BY Sizes
<1>3. CASE ProbeStep
  <2>1. UNCHANGED <<flight, peerVars>>
    BY <1>3 DEF ProbeStep, Connect, Write, FailIO, Read, ReadMore, Parse
  <2>2. StepsLeft' < StepsLeft
    <3>1. \/ pc = "connect" /\ pc' = "write"
          \/ pc = "write" /\ pc' = "read"
          \/ pc \in {"connect", "write", "read"} /\ pc' = "done"
          \/ pc = "read" /\ pc' \in {"read more", "parse"}
          \/ pc = "read more" /\ pc' = "parse"
          \/ pc = "parse" /\ pc' = "done"
      BY <1>3 DEF ProbeStep, Connect, Write, FailIO, Read, ReadMore, Parse
    <3>2. /\ pc = "connect" => StepsLeft = 5
          /\ pc = "write" => StepsLeft = 4
          /\ pc = "read" => StepsLeft = 3
          /\ pc = "read more" => StepsLeft = 2
          /\ pc = "parse" => StepsLeft = 1
          /\ pc = "done" => StepsLeft = 0
      BY Zenon DEF StepsLeft
    <3>3. /\ pc' = "connect" => StepsLeft' = 5
          /\ pc' = "write" => StepsLeft' = 4
          /\ pc' = "read" => StepsLeft' = 3
          /\ pc' = "read more" => StepsLeft' = 2
          /\ pc' = "parse" => StepsLeft' = 1
          /\ pc' = "done" => StepsLeft' = 0
      BY Zenon DEF StepsLeft
    <3>4. \/ StepsLeft = 5 /\ StepsLeft' = 4
          \/ StepsLeft = 4 /\ StepsLeft' = 3
          \/ StepsLeft \in {5, 4, 3} /\ StepsLeft' = 0
          \/ StepsLeft = 3 /\ StepsLeft' \in {2, 1}
          \/ StepsLeft = 2 /\ StepsLeft' = 1
          \/ StepsLeft = 1 /\ StepsLeft' = 0
      BY <3>1, <3>2, <3>3, Zenon
    <3> QED BY <3>4
  <2>3. StepsAhead' = StepsLeft' + (Length(flight) - sent) + (IF closed THEN 0 ELSE 1)
    BY <2>1 DEF StepsAhead, peerVars
  <2> QED BY <1>1, <1>2, <2>2, <2>3 DEF StepsAhead
<1>4. CASE Deliver
  <2>1. UNCHANGED <<flight, pc, closed>> /\ sent' \in sent + 1..Length(flight)
    BY <1>4 DEF Deliver
  <2>2. StepsAhead' = StepsLeft + (Length(flight) - sent') + (IF closed THEN 0 ELSE 1)
    BY <2>1 DEF StepsAhead, StepsLeft
  <2> QED BY <1>1, <1>2, <2>1, <2>2 DEF StepsAhead
<1>5. CASE Close
  <2>1. UNCHANGED <<flight, pc, sent>> /\ ~closed /\ closed' = TRUE
    BY <1>5 DEF Close
  <2>2. StepsAhead' = StepsLeft + (Length(flight) - sent) + 0
    BY <2>1 DEF StepsAhead, StepsLeft
  <2> QED BY <1>1, <1>2, <2>1, <2>2 DEF StepsAhead
<1> QED BY <1>3, <1>4, <1>5 DEF Next

(***************************************************************************)
(* A probe and its server take no more steps than the flight has bytes,    *)
(* and six: every step lowers a bound on those to come.                    *)
(***************************************************************************)
THEOREM StepsRunOut ==
  Spec => [](StepsAhead \in 0..Length(flight) + 6) /\ [][StepsAhead' < StepsAhead]_vars
<1>1. TypeOK => StepsAhead \in 0..Length(flight) + 6
  BY StepsBounded
<1>2. TypeOK /\ TypeOK' /\ [Next]_vars => [StepsAhead' < StepsAhead]_vars
  BY StepsFall
<1> QED BY <1>1, <1>2, TypeCorrect, PTL DEF Spec
=============================================================================

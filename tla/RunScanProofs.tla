--------------------------- MODULE RunScanProofs ---------------------------
(***************************************************************************)
(* Proofs about RunScan: for every suite table, every set of servers and   *)
(* of options, and any number of failed exchanges.                         *)
(***************************************************************************)
EXTENDS RunScan, AssessmentProofs, FiniteSetTheorems

Results == {ProtocolResult(p, b) : p \in Protocol, b \in BOOLEAN}

(* The loop over the protocols visits protocols, and has one to visit. *)
LoopInv == pc = "protocols" => todo \in Seq(Protocol) /\ todo # <<>>

ResultsInv ==
  /\ protocol_results \in Seq(Results)
  /\ \A i \in 1..Len(protocol_results) :
       protocol_results[i].supported => Speaks(server, protocol_results[i].protocol)

IInv == server \in Servers /\ LoopInv /\ ResultsInv /\ CertForHost

-----------------------------------------------------------------------------
(* What the server's answers say of it *)

LEMMA AnswersAreSpoken ==
  ASSUME NEW s, NEW hello, NEW a \in Answers(s, hello)
  PROVE  Speaks(s, a.version)
<1>1. PICK v \in Version(s, hello) : \E c \in Selected(s, hello, v) : a.version = v
  BY DEF Answers
<1>2. v \in s.versions
  BY DEF Version
<1>3. PICK c \in Selected(s, hello, v) : a.version = v
  BY <1>1
<1>4. c \in s.suites /\ UsableAt(c, v)
  BY DEF Selected
<1> QED BY <1>2, <1>3, <1>4 DEF Speaks

LEMMA ProbeAnswersAreSpoken ==
  ASSUME NEW p, NEW a \in ProbeAnswer(p)
  PROVE  Speaks(server, a.version)
<1>1. CASE p = "Ssl2"
  <2>1. a.version = "Ssl2" /\ "Ssl2" \in server.versions
    BY <1>1 DEF ProbeAnswer
  <2> QED BY <2>1 DEF Speaks
<1>2. CASE p # "Ssl2"
  <2>1. PICK b \in Answers(server, Hello(p, Offers[p], sni)) : a.version = b.version
    BY <1>2 DEF ProbeAnswer
  <2> QED BY <2>1, AnswersAreSpoken
<1> QED BY <1>1, <1>2

-----------------------------------------------------------------------------
(* The enumeration of the protocols and its order *)

LEMMA Ranks ==
  /\ ProtocolRank["Ssl2"] = 1 /\ ProtocolRank["Ssl3"] = 2 /\ ProtocolRank["Tls10"] = 3
  /\ ProtocolRank["Tls11"] = 4 /\ ProtocolRank["Tls12"] = 5 /\ ProtocolRank["Tls13"] = 6
<1>1. /\ Len(ALL) = 6 /\ ALL[1] = "Ssl2" /\ ALL[2] = "Ssl3" /\ ALL[3] = "Tls10"
      /\ ALL[4] = "Tls11" /\ ALL[5] = "Tls12" /\ ALL[6] = "Tls13"
  BY DEF ALL
<1>2. \A i \in 1..6 : i = 1 \/ i = 2 \/ i = 3 \/ i = 4 \/ i = 5 \/ i = 6
  OBVIOUS
<1>3. \A i, j \in 1..6 : ALL[i] = ALL[j] => i = j
  BY <1>1, <1>2
<1>4. ASSUME NEW i \in 1..6
      PROVE  ALL[i] \in Protocol /\ ProtocolRank[ALL[i]] = i
  <2>1. ALL[i] \in Protocol
    BY <1>1 DEF Protocol
  <2>2. (CHOOSE j \in 1..Len(ALL) : ALL[j] = ALL[i]) = i
    BY <1>1, <1>3
  <2> QED BY <2>1, <2>2 DEF ProtocolRank
<1> QED BY <1>1, <1>4

LEMMA TheLists ==
  /\ ALL \in Seq(Protocol) /\ ALL # <<>>
  /\ <<"Tls12">> \in Seq(Protocol) /\ <<"Tls12">> # <<>>
BY TheProtocols DEF ALL

(***************************************************************************)
(* A probe gets the certificate for the name in force, unless its hello    *)
(* carries none, and then the server has just that protocol.               *)
(***************************************************************************)
LEMMA ChainsOfProbes ==
  ASSUME server.versions \subseteq Protocol,
         NEW p \in Protocol, NEW a \in ProbeAnswer(p), NEW n \in a.certificate
  PROVE  \/ n = CertificateFor(server, {sni})
         \/ n = Misread /\ p = "Ssl2" /\ a.version = "Ssl2"
         \/ n = "default" /\ p = "Ssl3" /\ a.version = "Ssl3"
<1>1. CASE p = "Ssl2"
  BY <1>1 DEF ProbeAnswer
<1>2. CASE p # "Ssl2"
  <2> DEFINE hello == Hello(p, Offers[p], sni)
  <2>1. PICK b \in Answers(server, hello) : a.version = b.version /\ a.certificate = b.certificate
    BY <1>2 DEF ProbeAnswer
  <2>2. PICK v \in Version(server, hello) : \E c \in Selected(server, hello, v) :
          /\ b.version = v
          /\ b.certificate = IF v = "Tls13" THEN {} ELSE {CertificateFor(server, hello.name)}
    BY DEF Answers
  <2>3. hello.version = p /\ hello.name = (IF "Tls10" \preceq p THEN {sni} ELSE {})
    BY DEF Hello
  <2>4. CASE p = "Ssl3"
    <3>1. v \in Protocol /\ v \notin {"Ssl2", "Tls13"} /\ v \preceq "Ssl3"
      BY <2>3, <2>4 DEF Version
    <3>2. v = "Ssl3"
      BY <3>1, TheProtocols, Ranks DEF \preceq
    <3>3. hello.name = {}
      BY <2>3, <2>4, Ranks, TheProtocols DEF \preceq
    <3>4. CertificateFor(server, hello.name) = "default"
      BY <3>3 DEF CertificateFor
    <3> QED BY <2>1, <2>2, <2>4, <3>2, <3>4
  <2>5. CASE p # "Ssl3"
    <3>1. "Tls10" \preceq p
      BY <1>2, <2>5, TheProtocols, Ranks DEF \preceq
    <3> QED BY <2>1, <2>2, <2>3, <3>1
  <2> QED BY <2>4, <2>5
<1> QED BY <1>1, <1>2

LEMMA InitInv == Init => IInv
BY DEF Init, IInv, LoopInv, ResultsInv, CertForHost

(* The name in force is fixed while a scan runs. *)
LEMMA NameStays ==
  ASSUME UNCHANGED <<server, opts>>
  PROVE  sni' = sni /\ hostname' = hostname
<1>1. Target' = Target
  BY DEF Target
<1> QED BY <1>1 DEF sni, hostname

(* One more result, and perhaps one more active protocol. *)
LEMMA NextActive ==
  ASSUME ResultsInv, NEW p \in Protocol, NEW b \in BOOLEAN,
         protocol_results' = Append(protocol_results, ProtocolResult(p, b))
  PROVE  Active' = Active \cup (IF b THEN {p} ELSE {})
<1> DEFINE r == ProtocolResult(p, b)
<1>1. r \in Results /\ r.protocol = p /\ r.supported = b
  BY DEF Results, ProtocolResult
<1> HIDE DEF r
<1>2. protocol_results \in Seq(Results)
  BY DEF ResultsInv
<1>3. Members(Append(protocol_results, r)) = Members(protocol_results) \cup {r}
  BY <1>1, <1>2, MembersAppend
<1>4. protocol_results' = Append(protocol_results, r)
  BY DEF r
<1>5. Members(protocol_results') = Members(protocol_results) \cup {r}
  BY <1>3, <1>4
<1>6. Active' = {q.protocol : q \in {x \in Members(protocol_results') : x.supported}}
  BY DEF Active
<1> QED BY <1>1, <1>5, <1>6 DEF Active

LEMMA ProbeCert ==
  ASSUME IInv, ProbeProtocol
  PROVE  CertForHost'
<1> DEFINE p == Head(todo)
<1>1. UNCHANGED <<server, opts>>
  BY DEF ProbeProtocol, inputVars
<1>2. p \in Protocol /\ server.versions \subseteq Protocol
  BY ServersAssumption DEF IInv, LoopInv, ProbeProtocol
<1>3. PICK got \in {ProbeAnswer(p), {}} : \E outcome \in Outcomes(p, got) :
        /\ protocol_results' = Append(protocol_results, ProtocolResult(p, outcome.supported))
        /\ captured_certs' = Capture(captured_certs, outcome.certs)
  BY DEF ProbeProtocol, WithResult
<1>4. PICK outcome \in Outcomes(p, got) :
        /\ protocol_results' = Append(protocol_results, ProtocolResult(p, outcome.supported))
        /\ captured_certs' = Capture(captured_certs, outcome.certs)
  BY <1>3
<1>5. /\ outcome.certs \in {{}} \cup {a.certificate : a \in got}
      /\ outcome.supported = \E a \in got : IsMatch(p, a.version)
  BY <1>4 DEF Outcomes
<1>6. Active' = Active \cup (IF outcome.supported THEN {p} ELSE {})
  BY <1>2, <1>4, <1>5, NextActive DEF IInv
<1> SUFFICES ASSUME sni = hostname, NEW n \in captured_certs'
             PROVE  \/ n = CertificateFor(server, {hostname})
                    \/ n = Misread /\ "Ssl2" \in Active'
                    \/ n = "default" /\ "Ssl3" \in Active'
  BY <1>1, NameStays DEF CertForHost, CertificateFor
<1>7. CASE n \in captured_certs
  BY <1>6, <1>7 DEF IInv, CertForHost
<1>8. CASE n \in outcome.certs
  <2>1. PICK a \in got : n \in a.certificate
    BY <1>5, <1>8
  <2>2. a \in ProbeAnswer(p)
    BY <1>3, <2>1
  <2>3. \/ n = CertificateFor(server, {sni})
        \/ n = Misread /\ p = "Ssl2" /\ a.version = "Ssl2"
        \/ n = "default" /\ p = "Ssl3" /\ a.version = "Ssl3"
    BY <1>2, <2>1, <2>2, ChainsOfProbes
  <2>4. a.version = p => p \in Active'
    BY <1>5, <1>6, <2>1 DEF IsMatch
  <2> QED BY <2>3, <2>4
<1> QED BY <1>4, <1>7, <1>8 DEF Capture

(* rustls asks for the host of the target, and nobody else captures. *)
LEMMA OtherCert ==
  ASSUME IInv, UNCHANGED <<server, opts, protocol_results>>, FetchCerts \/ UNCHANGED captured_certs
  PROVE  CertForHost'
<1>1. Active' = Active
  BY DEF Active
<1> SUFFICES ASSUME sni = hostname, NEW n \in captured_certs'
             PROVE  \/ n = CertificateFor(server, {hostname})
                    \/ n = Misread /\ "Ssl2" \in Active
                    \/ n = "default" /\ "Ssl3" \in Active
  BY <1>1, NameStays DEF CertForHost, CertificateFor
<1>2. captured_certs' = captured_certs \/ captured_certs' \in RustlsChains
  BY DEF FetchCerts
<1>3. \A chain \in RustlsChains : chain \subseteq {CertificateFor(server, {hostname})}
  BY DEF RustlsChains
<1> QED BY <1>2, <1>3 DEF IInv, CertForHost

(* A probe appends a sound result to the list and takes its protocol off. *)
LEMMA ProbeInv ==
  ASSUME IInv, ProbeProtocol
  PROVE  IInv'
<1> DEFINE p == Head(todo)
<1>1. todo \in Seq(Protocol) /\ todo # <<>> /\ p \in Protocol
  BY DEF IInv, LoopInv, ProbeProtocol
<1>2. protocol_results \in Seq(Results) /\ UNCHANGED <<server, opts>>
  BY DEF IInv, ResultsInv, ProbeProtocol, inputVars
<1>3. PICK got \in {ProbeAnswer(p), {}} : \E outcome \in Outcomes(p, got) :
        protocol_results' = Append(protocol_results, ProtocolResult(p, outcome.supported))
  BY DEF ProbeProtocol, WithResult
<1>4. PICK outcome \in Outcomes(p, got) :
        protocol_results' = Append(protocol_results, ProtocolResult(p, outcome.supported))
  BY <1>3
<1> DEFINE r == ProtocolResult(p, outcome.supported)
<1>5. outcome.supported = (\E a \in got : IsMatch(p, a.version))
  BY <1>4 DEF Outcomes
<1>6. outcome.supported \in BOOLEAN
  BY <1>5
<1>7. r \in Results
  BY <1>1, <1>6 DEF Results
<1>8. r.supported => Speaks(server, r.protocol)
  <2>1. r.supported = outcome.supported /\ r.protocol = p
    BY DEF ProtocolResult
  <2>2. ASSUME NEW a \in got, IsMatch(p, a.version) PROVE Speaks(server, p)
    BY <2>2, <1>3, ProbeAnswersAreSpoken DEF IsMatch
  <2> QED BY <1>5, <2>1, <2>2
<1>9. LoopInv'
  <2>1. pc' = "protocols" => Len(todo) # 1
    BY DEF ProbeProtocol
  <2>2. todo' = Tail(todo)
    BY DEF ProbeProtocol
  <2>3. Tail(todo) \in Seq(Protocol) /\ (Len(todo) # 1 => Tail(todo) # <<>>)
    <3>1. Len(todo) \in Nat /\ Len(todo) # 0
      BY <1>1
    <3>2. Tail(todo) \in Seq(Protocol) /\ Len(Tail(todo)) = Len(todo) - 1
      BY <1>1
    <3>3. Len(todo) # 1 => Len(Tail(todo)) # 0
      BY <3>1, <3>2
    <3>4. Len(<<>>) = 0
      OBVIOUS
    <3>5. Len(todo) # 1 => Tail(todo) # <<>>
      BY <3>3, <3>4, Zenon
    <3> QED BY <3>2, <3>5
  <2> QED BY <2>1, <2>2, <2>3 DEF LoopInv
<1>10. ResultsInv'
  <2> HIDE DEF r
  <2>1. protocol_results' \in Seq(Results)
    BY <1>2, <1>4, <1>7 DEF r
  <2>2. protocol_results' = Append(protocol_results, r)
    BY <1>4 DEF r
  <2>3. \A i \in 1..Len(protocol_results') :
          protocol_results'[i] = r \/ (i \in 1..Len(protocol_results) /\ protocol_results'[i] = protocol_results[i])
    BY <1>2, <1>7, <2>2
  <2>4. server' = server
    BY <1>2
  <2> QED BY <1>8, <2>1, <2>3, <2>4 DEF IInv, ResultsInv, Speaks
<1> QED BY <1>2, <1>9, <1>10, ProbeCert DEF IInv

(* No other step touches the results. *)
LEMMA OtherInv ==
  ASSUME IInv,
         Connect \/ FetchCerts \/ ScanCiphers \/ PreferenceFirst \/ PreferenceSecond \/ Assess
           \/ UNCHANGED vars
  PROVE  IInv'
<1>1. UNCHANGED <<server, opts, protocol_results>> /\ (FetchCerts \/ UNCHANGED captured_certs)
  BY DEF Connect, FetchCerts, ScanCiphers, PreferenceFirst, PreferenceSecond, Assess,
         vars, inputVars, probeVars
<1>2. ResultsInv'
  BY <1>1 DEF IInv, ResultsInv
<1>3. ASSUME Connect PROVE LoopInv'
  <2>1. pc' # "protocols" \/ todo' = ProtocolsToProbe
    BY <1>3 DEF Connect
  <2> QED BY <2>1, TheLists DEF LoopInv, ProtocolsToProbe
<1>4. ASSUME FetchCerts \/ ScanCiphers \/ PreferenceFirst \/ PreferenceSecond \/ Assess PROVE LoopInv'
  <2>1. pc' # "protocols"
    BY <1>4 DEF FetchCerts, ScanCiphers, PreferenceFirst, PreferenceSecond, Assess
  <2> QED BY <2>1 DEF LoopInv
<1>5. ASSUME UNCHANGED vars PROVE LoopInv'
  <2>1. UNCHANGED <<pc, todo>>
    BY <1>5 DEF vars
  <2> QED BY <2>1 DEF IInv, LoopInv
<1>6. CertForHost' /\ server' \in Servers
  BY <1>1, OtherCert DEF IInv
<1> QED BY <1>2, <1>3, <1>4, <1>5, <1>6 DEF IInv

(***************************************************************************)
(* The invariant holds in every state of every scan: what is reported of   *)
(* each protocol is so, and the chain captured is of the name asked for.   *)
(***************************************************************************)
THEOREM Invariance == Spec => []IInv
<1>1. IInv /\ [Next]_vars => IInv'
  BY ProbeInv, OtherInv DEF Next, Terminating
<1> QED BY <1>1, InitInv, PTL DEF Spec

(***************************************************************************)
(* A protocol is reported only if the server completes handshakes with it, *)
(* whatever the network does.                                              *)
(***************************************************************************)
THEOREM ReportedAreSpoken == Spec => []ProtocolsSound
<1>1. IInv => ProtocolsSound
  BY DEF IInv, ResultsInv, ProtocolsSound, Members
<1> QED BY <1>1, Invariance, PTL

(***************************************************************************)
(* Scanned without --sni (or with the host of the target), the chain       *)
(* judged is the one for that host, or comes from SSLv2 or SSLv3, which    *)
(* the report then lists.                                                  *)
(***************************************************************************)
THEOREM CertIsForHost == Spec => []CertForHost
<1>1. IInv => CertForHost
  BY DEF IInv
<1> QED BY <1>1, Invariance, PTL

-----------------------------------------------------------------------------
(* What a conforming server answers *)

LEMMA Antisymmetry ==
  ASSUME NEW p \in Protocol, NEW q \in Protocol, p \preceq q, q \preceq p
  PROVE  p = q
BY TheProtocols, Ranks DEF \preceq

LEMMA VersionIsTheirs ==
  ASSUME NEW s, NEW hello, NEW v \in Version(s, hello)
  PROVE  v \in s.versions \ {"Ssl2"}
BY DEF Version

LEMMA OneVersion ==
  ASSUME NEW s, s.versions \subseteq Protocol, NEW hello,
         NEW v \in Version(s, hello), NEW w \in Version(s, hello)
  PROVE  v = w
<1>1. v \preceq w /\ w \preceq v /\ v \in Protocol /\ w \in Protocol
  BY DEF Version
<1> QED BY <1>1, Antisymmetry

(* A version the server has is the one it settles on when a hello names it. *)
LEMMA VersionAsked ==
  ASSUME NEW s, s.versions \subseteq Protocol, NEW p \in s.versions \ {"Ssl2"}, NEW offered, NEW name
  PROVE  Version(s, Hello(p, offered, name)) = {p}
<1> DEFINE hello == Hello(p, offered, name)
<1>1. hello.version = p
  BY DEF Hello
<1> HIDE DEF hello
<1> DEFINE below == {v \in s.versions :
                       IF hello.version = "Tls13" THEN v = "Tls13"
                       ELSE v \notin {"Ssl2", "Tls13"} /\ v \preceq hello.version}
<1>2. p \preceq p
  BY TheProtocols, Ranks DEF \preceq
<1>3. p \in below
  BY <1>1, <1>2
<1>4. \A v \in below : v \in Protocol /\ v \preceq p
  BY <1>1, <1>2
<1>5. \A v \in below : p \preceq v => v = p
  BY <1>4, Antisymmetry
<1>6. Version(s, hello) = {v \in below : \A w \in below : w \preceq v}
  BY DEF Version
<1> HIDE DEF below
<1> QED BY <1>3, <1>4, <1>5, <1>6 DEF hello

LEMMA NoSsl2Answer ==
  ASSUME NEW s, s.versions \subseteq Protocol, NEW offered, NEW name
  PROVE  Answers(s, Hello("Ssl2", offered, name)) = {}
<1>1. ASSUME NEW v \in Version(s, Hello("Ssl2", offered, name)) PROVE FALSE
  <2>1. v \in Protocol /\ v \notin {"Ssl2", "Tls13"} /\ v \preceq "Ssl2"
    BY DEF Version, Hello
  <2> QED BY <2>1, TheProtocols, Ranks DEF \preceq
<1> QED BY <1>1 DEF Answers

LEMMA SelectedIsShared ==
  ASSUME NEW s, NEW hello, NEW v, NEW c \in Selected(s, hello, v)
  PROVE  /\ c \in s.suites /\ UsableAt(c, v)
         /\ \E j \in 1..Len(hello.offered) : hello.offered[j] = c
BY DEF Selected

LEMMA OneSelected ==
  ASSUME NEW s, NEW T, NEW hello, hello.offered \in Seq(T), NEW v,
         NEW c \in Selected(s, hello, v), NEW d \in Selected(s, hello, v)
  PROVE  c = d
<1> DEFINE order == IF s.ordered THEN Table ELSE hello.offered
<1>1. PICK i \in 1..Len(order), j \in 1..Len(order) : c = order[i] /\ d = order[j] /\ i <= j /\ j <= i
  BY DEF Selected
<1>2. Len(order) \in Nat
  BY TableAssumption
<1>3. i = j
  BY <1>1, <1>2
<1> QED BY <1>1, <1>3

(* With a suite both sides have and the version can use, there is a choice. *)
LEMMA SomeSelected ==
  ASSUME NEW s, NEW T, NEW hello, hello.offered \in Seq(T), NEW v,
         NEW c \in s.suites, c \in Members(Table), c \in Members(hello.offered), UsableAt(c, v)
  PROVE  Selected(s, hello, v) # {}
<1> DEFINE order  == IF s.ordered THEN Table ELSE hello.offered
           common == {i \in 1..Len(order) :
                        /\ UsableAt(order[i], v)
                        /\ order[i] \in s.suites
                        /\ \E j \in 1..Len(hello.offered) : hello.offered[j] = order[i]}
<1>1. Len(order) \in Nat
  BY TableAssumption
<1>2. PICK j \in 1..Len(hello.offered) : hello.offered[j] = c
  BY DEF Members
<1>3. PICK i \in 1..Len(order) : order[i] = c
  BY <1>2 DEF Members
<1>4. i \in common
  BY <1>2, <1>3
<1>5. common \subseteq Nat
  BY <1>1
<1>6. Selected(s, hello, v) = {order[k] : k \in {l \in common : \A m \in common : l <= m}}
  BY DEF Selected
<1> HIDE DEF common, order
<1>7. PICK k \in common : \A m \in common : k <= m
  BY <1>4, <1>5, NatMin
<1> QED BY <1>6, <1>7

-----------------------------------------------------------------------------
(* The types of the state, and what each phase of the scan leaves alone *)

LEMMA TableRows == Table \in Seq(Suites) /\ Len(Table) \in Nat
BY TableAssumption DEF Suites, Members

LEMMA CandidateRows ==
  ASSUME NEW p \in Protocol
  PROVE  /\ Candidates[p] \in Seq(Suites) /\ Len(Candidates[p]) \in 0..Len(Table)
         /\ Members(Candidates[p]) = {c \in Suites : IsCandidate(c, p)}
<1>1. Candidates[p] = Filter(Table, {c \in Suites : IsCandidate(c, p)})
  BY DEF Candidates, ScanCandidates, Suites
<1>2. /\ Candidates[p] \in Seq(Suites) /\ Len(Candidates[p]) \in 0..Len(Table)
      /\ Members(Candidates[p]) = Members(Table) \cap {c \in Suites : IsCandidate(c, p)}
  BY <1>1, TableRows, FilterKeeps
<1> QED BY <1>2 DEF Suites

LEMMA OfferedRows ==
  ASSUME NEW p \in Protocol
  PROVE  Offers[p] \in Seq(Suites) /\ Members(Offers[p]) = {c \in Suites : IsOffered(c, p)}
<1>1. Offers[p] = Filter(Table, {c \in Suites : IsOffered(c, p)})
  BY DEF Offers
<1>2. /\ Offers[p] \in Seq(Suites)
      /\ Members(Offers[p]) = Members(Table) \cap {c \in Suites : IsOffered(c, p)}
  BY <1>1, TableRows, FilterKeeps
<1> QED BY <1>2 DEF Suites

LEMMA UnseenRows ==
  ASSUME NEW seen, NEW found \in Seq(Suites)
  PROVE  /\ Unseen(seen, found) \in Seq(Suites)
         /\ Members(Unseen(seen, found)) =
              {c \in Members(found) : \A d \in Members(seen) : d.id # c.id}
<1> DEFINE new == {c \in Members(found) : \A d \in Members(seen) : d.id # c.id}
<1>1. Unseen(seen, found) = Filter(found, new)
  BY DEF Unseen
<1>2. new \subseteq Members(found)
  OBVIOUS
<1> HIDE DEF new
<1>3. Filter(found, new) \in Seq(Suites) /\ Members(Filter(found, new)) = Members(found) \cap new
  BY FilterKeeps
<1>4. Members(Unseen(seen, found)) = new
  BY <1>1, <1>2, <1>3
<1> QED BY <1>1, <1>3, <1>4 DEF new

(* The protocols come highest first in SCAN_ORDER, and every one is there. *)
LEMMA ScanOrder ==
  /\ SCAN_ORDER \in Seq(Protocol) /\ Len(SCAN_ORDER) = 6 /\ Members(SCAN_ORDER) = Protocol
  /\ \A i, j \in 1..6 : i < j => ~(SCAN_ORDER[i] \preceq SCAN_ORDER[j])
<1>1. /\ Len(ALL) = 6 /\ ALL[1] = "Ssl2" /\ ALL[2] = "Ssl3" /\ ALL[3] = "Tls10"
      /\ ALL[4] = "Tls11" /\ ALL[5] = "Tls12" /\ ALL[6] = "Tls13"
  BY DEF ALL
<1>2. SCAN_ORDER = [i \in 1..6 |-> ALL[(6 - i) + 1]]
  BY <1>1 DEF SCAN_ORDER, Reverse
<1>3. /\ SCAN_ORDER[1] = "Tls13" /\ SCAN_ORDER[2] = "Tls12" /\ SCAN_ORDER[3] = "Tls11"
      /\ SCAN_ORDER[4] = "Tls10" /\ SCAN_ORDER[5] = "Ssl3" /\ SCAN_ORDER[6] = "Ssl2"
  BY <1>1, <1>2
<1>4. \A i \in 1..6 : i = 1 \/ i = 2 \/ i = 3 \/ i = 4 \/ i = 5 \/ i = 6
  OBVIOUS
<1>5. \A i \in 1..6 : SCAN_ORDER[i] \in Protocol /\ ProtocolRank[SCAN_ORDER[i]] = 7 - i
  BY <1>3, <1>4, TheProtocols, Ranks
<1>6. SCAN_ORDER \in Seq(Protocol) /\ Len(SCAN_ORDER) = 6
  BY <1>2, <1>5
<1>7. Members(SCAN_ORDER) = Protocol
  <2>1. \A p \in Protocol : \E i \in 1..6 : SCAN_ORDER[i] = p
    BY <1>3, TheProtocols
  <2> QED BY <1>5, <1>6, <2>1 DEF Members
<1>8. \A i, j \in 1..6 : i < j => ~(SCAN_ORDER[i] \preceq SCAN_ORDER[j])
  BY <1>5 DEF \preceq
<1> QED BY <1>6, <1>7, <1>8

LEMMA ToTest ==
  ASSUME ResultsInv
  PROVE  /\ Active \subseteq Protocol
         /\ ProtosToTest \in Seq(Protocol) /\ ProtosToTest # <<>>
         /\ Len(ProtosToTest) \in Nat /\ Len(ProtosToTest) <= 6
         /\ Active # {} => Members(ProtosToTest) = Active
         /\ Active = {} => Members(ProtosToTest) = Protocol
<1>1. Active \subseteq Protocol
  BY DEF Active, ResultsInv, Results, ProtocolResult, Members
<1>2. CASE Active = {}
  <2>1. ProtosToTest = SCAN_ORDER
    BY <1>2 DEF ProtosToTest
  <2>2. SCAN_ORDER # <<>> /\ Len(SCAN_ORDER) = 6
    BY ScanOrder
  <2>3. ProtosToTest \in Seq(Protocol) /\ Members(ProtosToTest) = Protocol
    BY <2>1, ScanOrder
  <2>4. ProtosToTest # <<>> /\ Len(ProtosToTest) = 6
    BY <2>1, <2>2, Zenon
  <2> QED BY <1>1, <1>2, <2>3, <2>4
<1>3. CASE Active # {}
  <2>1. ProtosToTest = Filter(SCAN_ORDER, Active)
    BY <1>3 DEF ProtosToTest
  <2>2. /\ ProtosToTest \in Seq(Protocol)
        /\ Len(ProtosToTest) \in Nat /\ Len(ProtosToTest) <= Len(SCAN_ORDER)
        /\ Members(ProtosToTest) = Members(SCAN_ORDER) \cap Active
    BY <2>1, ScanOrder, FilterKeeps
  <2>3. Members(ProtosToTest) = Active
    BY <1>1, <2>2, ScanOrder
  <2>4. ProtosToTest # <<>>
    BY <1>3, <2>2, <2>3, MembersOf
  <2>5. Len(ProtosToTest) # 0 /\ Len(SCAN_ORDER) = 6
    BY <2>2, <2>4, ScanOrder
  <2> QED BY <1>1, <1>3, <2>2, <2>3, <2>4, <2>5
<1> QED BY <1>2, <1>3

-----------------------------------------------------------------------------
Ids   == {c.id : c \in Suites}
Group == [protocol : Protocol, ciphers : Seq(Suites)]

Typed ==
  /\ opts \in Options
  /\ faults \in 0..MaxFaults
  /\ pc \in {"connect", "protocols", "fetch", "ciphers", "preference1",
             "preference2", "assess", "done", "failed"}
  /\ todo \in Seq(Protocol)
  /\ todo # <<>> <=> pc \in {"protocols", "ciphers"}
  /\ captured_certs \in Option(server.names \cup {"default", Misread})
  /\ supported_ciphers \in Seq(Suites)
  /\ protocol_ciphers \in Seq(Group)
  /\ sel1 \in Option(Ids)
  /\ server_cipher_pref \in Option({"enforced", "client order"})

(* The suites have been scanned, or are being scanned. *)
Scanning ==
  \/ pc \in {"ciphers", "preference1", "preference2"}
  \/ pc \in {"assess", "done"} /\ ~opts.protocols_only /\ ~opts.cert_only

(* What one scan of p's suites does, when the answers of kept arrive. *)
Found(p, kept) == Filter(Candidates[p], {Candidates[p][i] : i \in kept})

Keeps(p, kept) ==
  /\ kept \subseteq Accepted(Candidates[p], p)
  /\ \E lost \in Nat : /\ faults' = faults + lost /\ faults' <= MaxFaults
                       /\ lost = 0 => kept = Accepted(Candidates[p], p)
  /\ Found(p, kept) \in Seq(Suites)
  /\ Len(Found(p, kept)) \in Nat /\ Len(Found(p, kept)) <= Len(Candidates[p])
  /\ Members(Found(p, kept)) = {Candidates[p][i] : i \in kept}
  /\ rejected_ciphers_count' = rejected_ciphers_count + Len(Candidates[p]) - Len(Found(p, kept))
  /\ supported_ciphers' = supported_ciphers \o Unseen(supported_ciphers, Found(p, kept))
  /\ protocol_ciphers' =
       IF Found(p, kept) = <<>> THEN protocol_ciphers
       ELSE Append(protocol_ciphers, [protocol |-> p, ciphers |-> Found(p, kept)])

LEMMA FoundRows ==
  ASSUME NEW p \in Protocol, NEW kept \in SUBSET Accepted(Candidates[p], p)
  PROVE  /\ Found(p, kept) \in Seq(Suites)
         /\ Len(Found(p, kept)) \in Nat /\ Len(Found(p, kept)) <= Len(Candidates[p])
         /\ Members(Found(p, kept)) = {Candidates[p][i] : i \in kept}
<1> DEFINE rows == {Candidates[p][i] : i \in kept}
<1>1. Candidates[p] \in Seq(Suites)
  BY CandidateRows
<1>2. rows \subseteq Members(Candidates[p])
  BY DEF Accepted, Members
<1> HIDE DEF rows
<1>3. /\ Filter(Candidates[p], rows) \in Seq(Suites)
      /\ Len(Filter(Candidates[p], rows)) \in Nat
      /\ Len(Filter(Candidates[p], rows)) <= Len(Candidates[p])
      /\ Members(Filter(Candidates[p], rows)) = Members(Candidates[p]) \cap rows
  BY <1>1, FilterKeeps
<1>4. Found(p, kept) = Filter(Candidates[p], rows)
  BY DEF Found, rows
<1>5. Members(Found(p, kept)) = rows
  BY <1>2, <1>3, <1>4
<1> QED BY <1>3, <1>4, <1>5 DEF rows

(* Counting the answers lost: none are, or some accepted suite is missed. *)
LEMMA LostAnswers ==
  ASSUME NEW p \in Protocol, NEW kept \in SUBSET Accepted(Candidates[p], p)
  PROVE  LET lost == Cardinality(Accepted(Candidates[p], p)) - Cardinality(kept)
         IN lost \in Nat /\ (lost = 0 => kept = Accepted(Candidates[p], p))
<1> DEFINE all == Accepted(Candidates[p], p)
<1>1. Len(Candidates[p]) \in Nat
  BY CandidateRows
<1>2. all \subseteq 1..Len(Candidates[p])
  BY DEF Accepted
<1>3. IsFiniteSet(1..Len(Candidates[p]))
  BY <1>1, FS_Interval
<1> HIDE DEF all
<1>4. IsFiniteSet(all)
  BY <1>2, <1>3, FS_Subset
<1>5. /\ Cardinality(kept) \in Nat /\ Cardinality(all) \in Nat
      /\ Cardinality(kept) <= Cardinality(all)
      /\ Cardinality(kept) = Cardinality(all) => kept = all
  BY <1>4, FS_Subset, FS_CardinalityType DEF all
<1> QED BY <1>5 DEF all

LEMMA ScanKeeps ==
  ASSUME Typed, ScanCiphers
  PROVE  /\ Head(todo) \in Protocol
         /\ \E kept : Keeps(Head(todo), kept)
<1> DEFINE p == Head(todo)
           all == Accepted(Candidates[p], p)
<1>1. p \in Protocol
  BY MembersHeadTail DEF Typed, ScanCiphers
<1>2. PICK kept \in SUBSET all :
        LET lost  == Cardinality(all) - Cardinality(kept)
            found == Found(p, kept)
        IN /\ faults + lost <= MaxFaults
           /\ faults' = faults + lost
           /\ rejected_ciphers_count' = rejected_ciphers_count + Len(Candidates[p]) - Len(found)
           /\ supported_ciphers' = supported_ciphers \o Unseen(supported_ciphers, found)
           /\ protocol_ciphers' = (IF found = <<>> THEN protocol_ciphers
                ELSE Append(protocol_ciphers, [protocol |-> p, ciphers |-> found]))
  BY Zenon DEF ScanCiphers, Found
<1> DEFINE lost == Cardinality(all) - Cardinality(kept)
<1>3. lost \in Nat /\ (lost = 0 => kept = all)
  BY <1>1, LostAnswers
<1>4. \E l \in Nat : /\ faults' = faults + l /\ faults' <= MaxFaults
                     /\ l = 0 => kept = all
  BY <1>2, <1>3
<1>5. Keeps(p, kept)
  BY <1>1, <1>2, <1>4, FoundRows, Zenon DEF Keeps
<1> QED BY <1>1, <1>5

LEMMA ExchangeCounts ==
  ASSUME faults \in 0..MaxFaults, NEW answer, NEW got, Exchange(answer, got)
  PROVE  faults' \in 0..MaxFaults
BY MaxFaultsAssumption DEF Exchange

LEMMA CertOf ==
  ASSUME NEW s, NEW names
  PROVE  CertificateFor(s, names) \in s.names \cup {"default"}
BY DEF CertificateFor

LEMMA ProbeCerts ==
  ASSUME NEW p, NEW a \in ProbeAnswer(p)
  PROVE  a.certificate \in Option(server.names \cup {"default", Misread})
<1>1. CASE p = "Ssl2"
  <2>1. a.certificate = {Misread}
    BY <1>1 DEF ProbeAnswer
  <2> QED BY <2>1 DEF Option
<1>2. CASE p # "Ssl2"
  <2> DEFINE hello == Hello(p, Offers[p], sni)
  <2>1. PICK b \in Answers(server, hello) : a.certificate = b.certificate
    BY <1>2 DEF ProbeAnswer
  <2>2. b.certificate = {} \/ b.certificate = {CertificateFor(server, hello.name)}
    BY DEF Answers
  <2> QED BY <2>1, <2>2, CertOf DEF Option
<1> QED BY <1>1, <1>2

(* The TLS 1.2 hello that asks for the order names at most one suite. *)
LEMMA OneOrderAnswer ==
  ASSUME IInv, NEW offered \in Seq(Suites)
  PROVE  OrderAnswer(offered) \in Option(Ids)
<1> DEFINE hello == Hello("Tls12", offered, sni)
<1>1. hello.offered = offered
  BY DEF Hello
<1>2. server.versions \subseteq Protocol /\ server.suites \subseteq Suites
  BY ServersAssumption DEF IInv
<1> HIDE DEF hello
<1>3. \A x \in OrderAnswer(offered) :
        \E v \in Version(server, hello) : \E c \in Selected(server, hello, v) : x = c.id
  BY DEF OrderAnswer, Answers, hello
<1>4. OrderAnswer(offered) \subseteq Ids
  BY <1>2, <1>3, SelectedIsShared DEF Ids
<1>5. ASSUME NEW x \in OrderAnswer(offered), NEW y \in OrderAnswer(offered) PROVE x = y
  <2>1. PICK v \in Version(server, hello), w \in Version(server, hello) :
          /\ \E c \in Selected(server, hello, v) : x = c.id
          /\ \E c \in Selected(server, hello, w) : y = c.id
    BY <1>3
  <2>2. PICK c \in Selected(server, hello, v), d \in Selected(server, hello, w) : x = c.id /\ y = d.id
    BY <2>1
  <2>3. v = w
    BY <1>2, OneVersion
  <2>4. c = d
    BY <1>1, <2>2, <2>3, OneSelected
  <2> QED BY <2>2, <2>4
<1>6. OrderAnswer(offered) = {} \/ \E x \in OrderAnswer(offered) : OrderAnswer(offered) = {x}
  BY <1>5
<1> QED BY <1>4, <1>6 DEF Option

LEMMA InitTyped == Init => Typed
<1> SUFFICES ASSUME Init PROVE Typed
  OBVIOUS
<1>1. faults \in 0..MaxFaults
  BY MaxFaultsAssumption DEF Init
<1>2. \A S : {} \in Option(S)
  BY DEF Option
<1>3. \A S : <<>> \in Seq(S)
  OBVIOUS
<1>4. /\ pc = "connect" /\ todo = <<>> /\ captured_certs = {} /\ supported_ciphers = <<>>
      /\ protocol_ciphers = <<>> /\ sel1 = {} /\ server_cipher_pref = {} /\ opts \in Options
  BY DEF Init
<1>5. todo # <<>> <=> pc \in {"protocols", "ciphers"}
  BY <1>4
<1> QED BY <1>1, <1>2, <1>3, <1>4, <1>5, Zenon DEF Typed

LEMMA TypedConnect ==
  ASSUME Typed, Connect
  PROVE  Typed'
<1>1. UNCHANGED <<server, opts, faults, captured_certs, supported_ciphers, protocol_ciphers, sel1, server_cipher_pref>>
  BY DEF Connect, inputVars, probeVars, cipherVars, prefVars
<1>2. CASE pc' = "protocols" /\ todo' = ProtocolsToProbe
  <2>1. ProtocolsToProbe \in Seq(Protocol) /\ ProtocolsToProbe # <<>>
    BY TheLists DEF ProtocolsToProbe
  <2> QED BY <1>1, <1>2, <2>1 DEF Typed
<1>3. CASE pc' = "failed" /\ UNCHANGED todo
  BY <1>1, <1>3 DEF Typed, Connect
<1> QED BY <1>2, <1>3 DEF Connect

(* Each loop ends when it has visited its last protocol. *)
LEMMA NextVisit ==
  ASSUME todo \in Seq(Protocol), todo # <<>>
  PROVE  /\ Tail(todo) \in Seq(Protocol)
         /\ Tail(todo) = <<>> <=> Len(todo) = 1
<1>1. Len(Tail(todo)) = Len(todo) - 1 /\ Tail(todo) \in Seq(Protocol) /\ Len(todo) \in Nat
  OBVIOUS
<1>2. \A s \in Seq(Protocol) : s = <<>> <=> Len(s) = 0
  OBVIOUS
<1>3. Len(Tail(todo)) = 0 <=> Len(todo) = 1
  BY <1>1
<1> QED BY <1>1, <1>2, <1>3, Zenon

LEMMA TypedProbe ==
  ASSUME Typed, ProbeProtocol
  PROVE  Typed'
<1> DEFINE p == Head(todo)
<1>1. UNCHANGED <<server, opts, supported_ciphers, protocol_ciphers, sel1, server_cipher_pref>>
  BY DEF ProbeProtocol, inputVars, cipherVars, prefVars
<1>2. PICK got \in {ProbeAnswer(p), {}} :
        /\ Exchange(ProbeAnswer(p), got)
        /\ \E outcome \in Outcomes(p, got) : captured_certs' = Capture(captured_certs, outcome.certs)
  BY DEF ProbeProtocol
<1>3. PICK outcome \in Outcomes(p, got) : captured_certs' = Capture(captured_certs, outcome.certs)
  BY <1>2
<1>4. outcome.certs \in Option(server.names \cup {"default", Misread})
  BY <1>2, <1>3, ProbeCerts DEF Outcomes, Option
<1>5. captured_certs' \in Option(server.names \cup {"default", Misread})
  BY <1>3, <1>4 DEF Typed, Capture
<1>6. faults' \in 0..MaxFaults
  BY <1>2, ExchangeCounts DEF Typed
<1>7. /\ todo' \in Seq(Protocol) /\ pc' \in {"protocols", "fetch"}
      /\ todo' # <<>> <=> pc' = "protocols"
  BY NextVisit DEF Typed, ProbeProtocol
<1> QED BY <1>1, <1>5, <1>6, <1>7 DEF Typed

LEMMA TypedFetch ==
  ASSUME Typed, IInv, FetchCerts
  PROVE  Typed'
<1>1. UNCHANGED <<server, opts, faults, supported_ciphers, protocol_ciphers, sel1, server_cipher_pref>>
  BY DEF FetchCerts, inputVars, cipherVars, prefVars
<1>2. RustlsChains \subseteq Option(server.names \cup {"default", Misread})
  BY CertOf DEF RustlsChains, Option
<1>3. captured_certs' \in Option(server.names \cup {"default", Misread})
  BY <1>2 DEF FetchCerts, Typed
<1>4. todo = <<>>
  BY DEF FetchCerts, Typed
<1>5. /\ todo' \in Seq(Protocol) /\ pc' \in {"ciphers", "assess"}
      /\ todo' # <<>> <=> pc' = "ciphers"
  BY <1>4, ToTest DEF FetchCerts, IInv, Typed
<1> QED BY <1>1, <1>3, <1>5 DEF Typed

LEMMA TypedScan ==
  ASSUME Typed, ScanCiphers
  PROVE  Typed'
<1>1. UNCHANGED <<server, opts, captured_certs, sel1, server_cipher_pref>>
  BY DEF ScanCiphers, inputVars, probeVars, prefVars
<1> DEFINE p == Head(todo)
<1>2. PICK kept : Keeps(p, kept)
  BY ScanKeeps
<1>3. p \in Protocol
  BY ScanKeeps
<1>4. faults' \in 0..MaxFaults
  <2>1. PICK lost \in Nat : faults' = faults + lost /\ faults' <= MaxFaults
    BY <1>2 DEF Keeps
  <2>2. faults \in 0..MaxFaults
    BY DEF Typed
  <2> QED BY <2>1, <2>2, MaxFaultsAssumption
<1> DEFINE found == Found(p, kept)
<1>5. found \in Seq(Suites)
  BY <1>2 DEF Keeps
<1>6. supported_ciphers' \in Seq(Suites)
  <2>1. Unseen(supported_ciphers, found) \in Seq(Suites)
    BY <1>5, UnseenRows
  <2>2. supported_ciphers' = supported_ciphers \o Unseen(supported_ciphers, found)
    BY <1>2 DEF Keeps
  <2>3. supported_ciphers \in Seq(Suites)
    BY DEF Typed
  <2> HIDE DEF found
  <2> QED BY <2>1, <2>2, <2>3
<1>7. protocol_ciphers' \in Seq(Group)
  <2> DEFINE group == [protocol |-> p, ciphers |-> found]
  <2>1. group \in Group
    BY <1>3, <1>5 DEF Group
  <2>2. protocol_ciphers' = protocol_ciphers \/ protocol_ciphers' = Append(protocol_ciphers, group)
    BY <1>2 DEF Keeps
  <2> HIDE DEF group
  <2>3. protocol_ciphers \in Seq(Group)
    BY DEF Typed
  <2> QED BY <2>1, <2>2, <2>3
<1>8. /\ todo' \in Seq(Protocol) /\ pc' \in {"ciphers", "preference1"}
      /\ todo' # <<>> <=> pc' = "ciphers"
  BY NextVisit DEF Typed, ScanCiphers
<1> QED BY <1>1, <1>4, <1>6, <1>7, <1>8 DEF Typed

LEMMA TypedPreference ==
  ASSUME Typed, IInv, PreferenceFirst \/ PreferenceSecond
  PROVE  Typed'
<1>1. UNCHANGED <<server, opts, todo, captured_certs, supported_ciphers, protocol_ciphers>>
  BY DEF PreferenceFirst, PreferenceSecond, inputVars, probeVars, cipherVars
<1>2. todo = <<>> /\ pc' \in {"preference2", "assess"}
  BY DEF PreferenceFirst, PreferenceSecond, Typed
<1>3. faults' \in 0..MaxFaults
  BY ExchangeCounts DEF PreferenceFirst, PreferenceSecond, Typed
<1>4. \A S : {} \in Option(S)
  BY DEF Option
<1>5. sel1' \in Option(Ids)
  <2>1. CASE PreferenceFirst /\ ~(Len(supported_ciphers) <= 1)
    <3> DEFINE offered == <<supported_ciphers[1], supported_ciphers[2]>>
    <3>1. offered \in Seq(Suites)
      <4>1. supported_ciphers \in Seq(Suites)
        BY DEF Typed
      <4>2. 1 \in 1..Len(supported_ciphers) /\ 2 \in 1..Len(supported_ciphers)
        BY <2>1, <4>1
      <4>3. supported_ciphers[1] \in Suites /\ supported_ciphers[2] \in Suites
        BY <4>1, <4>2
      <4> QED BY <4>3
    <3>2. sel1' \in {OrderAnswer(offered), {}}
      BY <2>1 DEF PreferenceFirst
    <3> QED BY <3>1, <3>2, <1>4, OneOrderAnswer
  <2>2. CASE UNCHANGED sel1
    BY <2>2 DEF Typed
  <2> QED BY <2>1, <2>2 DEF PreferenceFirst, PreferenceSecond
<1>6. server_cipher_pref' \in Option({"enforced", "client order"})
  <2>1. CASE PreferenceSecond
    <3>1. PICK got : server_cipher_pref' = {IF sel1 = got THEN "enforced" ELSE "client order" : s \in got}
      BY <2>1 DEF PreferenceSecond
    <3>2. server_cipher_pref' = {} \/ server_cipher_pref' = {IF sel1 = got THEN "enforced" ELSE "client order"}
      BY <3>1
    <3> QED BY <3>2 DEF Option
  <2>2. CASE UNCHANGED server_cipher_pref
    BY <2>2 DEF Typed
  <2> QED BY <2>1, <2>2 DEF PreferenceFirst
<1> QED BY <1>1, <1>2, <1>3, <1>5, <1>6 DEF Typed

LEMMA TypedOther ==
  ASSUME Typed, Assess \/ UNCHANGED vars
  PROVE  Typed'
<1>1. UNCHANGED <<server, opts, faults, todo, captured_certs, supported_ciphers, protocol_ciphers,
                  sel1, server_cipher_pref>>
  BY DEF Assess, vars, inputVars, probeVars, cipherVars, prefVars
<1>2. pc' = pc \/ (pc = "assess" /\ pc' = "done")
  BY DEF Assess, vars
<1> QED BY <1>1, <1>2 DEF Typed

(***************************************************************************)
(* In every state of every scan the state is typed, and a loop over        *)
(* protocols is entered only if it has one to visit: Head(todo) exists.    *)
(***************************************************************************)
THEOREM StaysTyped == Spec => []Typed
<1>1. IInv /\ Typed /\ [Next]_vars => Typed'
  BY TypedConnect, TypedProbe, TypedFetch, TypedScan, TypedPreference, TypedOther DEF Next, Terminating
<1> QED BY <1>1, InitTyped, Invariance, PTL DEF Spec

-----------------------------------------------------------------------------
(* What each phase of the scan leaves alone, and how its second loop goes *)

(* The report that Assess makes. *)
Conclusion ==
  LET findings == evaluate_vulnerabilities(Members(protocol_results), Members(supported_ciphers), CertReport)
  IN [findings |-> findings,
      rating   |-> compute_overall_rating(Members(protocol_results), Members(supported_ciphers), findings)]

Phase ==
  /\ pc = "connect" => protocol_results = <<>>
  /\ pc \in {"ciphers", "preference1", "preference2"} => ~opts.protocols_only /\ ~opts.cert_only
  /\ ~Scanning => supported_ciphers = <<>> /\ protocol_ciphers = <<>> /\ rejected_ciphers_count = 0
  /\ pc \notin {"assess", "done"} => server_cipher_pref = {}
  /\ report = IF pc = "done" THEN {Conclusion} ELSE {}

(* The protocols still to test are the last ones of ProtosToTest. *)
Itinerary ==
  pc = "ciphers" =>
    /\ Len(todo) <= Len(ProtosToTest)
    /\ \A i \in 1..Len(todo) : todo[i] = ProtosToTest[Len(ProtosToTest) - Len(todo) + i]

(* Only ScanCiphers changes what was found of the suites, and only         *)
(* ProbeProtocol the results of the probes.                                *)
LEMMA SuitesStay ==
  ASSUME [Next]_vars, ~ScanCiphers
  PROVE  UNCHANGED <<server, opts, supported_ciphers, protocol_ciphers, rejected_ciphers_count>>
BY DEF Next, Terminating, Connect, ProbeProtocol, FetchCerts, PreferenceFirst, PreferenceSecond,
       Assess, vars, inputVars, cipherVars

LEMMA ResultsStay ==
  ASSUME [Next]_vars, pc # "protocols"
  PROVE  UNCHANGED <<server, opts, protocol_results>> /\ Active' = Active /\ ProtosToTest' = ProtosToTest
<1>1. UNCHANGED <<server, opts, protocol_results>>
  BY DEF Next, Terminating, Connect, ProbeProtocol, FetchCerts, ScanCiphers, PreferenceFirst,
         PreferenceSecond, Assess, vars, inputVars, probeVars
<1>2. Active' = Active
  BY <1>1 DEF Active
<1> QED BY <1>1, <1>2 DEF ProtosToTest

LEMMA ConclusionStays ==
  ASSUME UNCHANGED <<server, opts, protocol_results, captured_certs, supported_ciphers>>
  PROVE  Conclusion' = Conclusion
<1>1. sni' = sni
  BY NameStays
<1>2. CertReport' = CertReport
  BY <1>1 DEF CertReport, Certificate
<1> QED BY <1>2 DEF Conclusion

LEMMA InitPhase == Init => Phase
BY DEF Init, Phase, Scanning

LEMMA PhaseOfReport ==
  ASSUME Phase, [Next]_vars
  PROVE  report' = IF pc' = "done" THEN {Conclusion'} ELSE {}
<1>1. CASE Assess
  <2>1. report' = {Conclusion} /\ pc' = "done"
    BY <1>1, Zenon DEF Assess, Conclusion
  <2>2. UNCHANGED <<server, opts, protocol_results, captured_certs, supported_ciphers>>
    BY <1>1 DEF Assess, inputVars, probeVars, cipherVars
  <2> QED BY <2>1, <2>2, ConclusionStays
<1>2. CASE UNCHANGED vars
  <2>1. UNCHANGED <<report, pc, server, opts, protocol_results, captured_certs, supported_ciphers>>
    BY <1>2 DEF vars, inputVars, probeVars, cipherVars
  <2> QED BY <2>1, ConclusionStays DEF Phase
<1>3. CASE Connect \/ ProbeProtocol \/ FetchCerts \/ ScanCiphers \/ PreferenceFirst \/ PreferenceSecond
  <2>1. pc # "done" /\ pc' # "done" /\ report' = report
    BY <1>3 DEF Connect, ProbeProtocol, FetchCerts, ScanCiphers, PreferenceFirst, PreferenceSecond
  <2> QED BY <2>1 DEF Phase
<1> QED BY <1>1, <1>2, <1>3 DEF Next, Terminating

LEMMA NextPhase ==
  ASSUME Phase, [Next]_vars
  PROVE  Phase'
<1>1. pc' = "connect" => protocol_results' = <<>>
  <2> SUFFICES ASSUME pc' = "connect" PROVE UNCHANGED <<pc, protocol_results>>
    BY DEF Phase
  <2> QED BY DEF Next, Terminating, Connect, ProbeProtocol, FetchCerts, ScanCiphers, PreferenceFirst,
            PreferenceSecond, Assess, vars, probeVars
<1>2. opts' = opts
  BY DEF Next, Terminating, Connect, ProbeProtocol, FetchCerts, ScanCiphers, PreferenceFirst,
         PreferenceSecond, Assess, vars, inputVars
<1>3. pc' \in {"ciphers", "preference1", "preference2"} => ~opts'.protocols_only /\ ~opts'.cert_only
  <2> SUFFICES ASSUME pc' \in {"ciphers", "preference1", "preference2"}
               PROVE  pc \in {"ciphers", "preference1", "preference2"} \/ (~opts.protocols_only /\ ~opts.cert_only)
    BY <1>2 DEF Phase
  <2> QED BY DEF Next, Terminating, Connect, ProbeProtocol, FetchCerts, ScanCiphers, PreferenceFirst,
            PreferenceSecond, Assess, vars
<1>4. ~Scanning' => supported_ciphers' = <<>> /\ protocol_ciphers' = <<>> /\ rejected_ciphers_count' = 0
  <2>1. ScanCiphers => Scanning'
    BY DEF ScanCiphers, Scanning
  <2> SUFFICES ASSUME ~Scanning', ~ScanCiphers PROVE ~Scanning
    BY <2>1, SuitesStay DEF Phase
  <2>2. CASE PreferenceFirst \/ PreferenceSecond
    BY <1>2, <2>2 DEF Phase, PreferenceFirst, PreferenceSecond, Scanning
  <2>3. CASE Connect \/ ProbeProtocol \/ FetchCerts
    BY <2>3 DEF Connect, ProbeProtocol, FetchCerts, Scanning
  <2>4. CASE Assess \/ UNCHANGED vars
    BY <1>2, <2>4 DEF Assess, vars, Scanning
  <2> QED BY <2>2, <2>3, <2>4 DEF Next, Terminating
<1>5. pc' \notin {"assess", "done"} => server_cipher_pref' = {}
  <2> SUFFICES ASSUME pc' \notin {"assess", "done"}
               PROVE  pc \notin {"assess", "done"} /\ server_cipher_pref' = server_cipher_pref
    BY DEF Phase
  <2> QED BY DEF Next, Terminating, Connect, ProbeProtocol, FetchCerts, ScanCiphers, PreferenceFirst,
            PreferenceSecond, Assess, vars, prefVars
<1> QED BY <1>1, <1>3, <1>4, <1>5, PhaseOfReport DEF Phase

LEMMA NextItinerary ==
  ASSUME IInv, Typed, Itinerary, [Next]_vars
  PROVE  Itinerary'
<1> SUFFICES ASSUME pc' = "ciphers"
             PROVE  /\ Len(todo') <= Len(ProtosToTest')
                    /\ \A i \in 1..Len(todo') : todo'[i] = ProtosToTest'[Len(ProtosToTest') - Len(todo') + i]
  BY DEF Itinerary
<1>1. FetchCerts \/ ScanCiphers \/ (UNCHANGED vars /\ pc = "ciphers")
  BY DEF Next, Terminating, Connect, ProbeProtocol, PreferenceFirst, PreferenceSecond, Assess, vars
<1>2. pc # "protocols" /\ ProtosToTest' = ProtosToTest
  BY <1>1, ResultsStay DEF FetchCerts, ScanCiphers
<1> DEFINE P == ProtosToTest
<1>3. P \in Seq(Protocol) /\ Len(P) \in Nat
  BY ToTest DEF IInv
<1>4. CASE FetchCerts
  <2>1. todo' = P
    BY <1>4 DEF FetchCerts
  <2>2. \A i \in 1..Len(P) : P[i] = P[Len(P) - Len(P) + i]
    BY <1>3
  <2> QED BY <1>2, <1>3, <2>1, <2>2
<1>5. CASE ScanCiphers
  <2>1. todo \in Seq(Protocol) /\ todo # <<>> /\ todo' = Tail(todo)
    BY <1>5 DEF Typed, ScanCiphers
  <2>2. /\ Len(todo) <= Len(P)
        /\ \A i \in 1..Len(todo) : todo[i] = P[Len(P) - Len(todo) + i]
    BY <1>5 DEF Itinerary, ScanCiphers
  <2>3. /\ Len(todo) \in Nat /\ Len(todo') = Len(todo) - 1
        /\ \A i \in 1..(Len(todo) - 1) : todo'[i] = todo[i + 1]
    BY <2>1
  <2> HIDE DEF P
  <2>4. ASSUME NEW i \in 1..Len(todo') PROVE todo'[i] = P[Len(P) - Len(todo') + i]
    <3>1. i + 1 \in 1..Len(todo) /\ i \in 1..(Len(todo) - 1)
      BY <2>3
    <3>2. Len(P) - Len(todo) + (i + 1) = Len(P) - Len(todo') + i
      BY <1>3, <2>3, <3>1
    <3> QED BY <2>2, <2>3, <3>1, <3>2
  <2>5. Len(todo') <= Len(P)
    BY <1>3, <2>2, <2>3
  <2> QED BY <1>2, <2>4, <2>5 DEF P
<1>6. CASE UNCHANGED vars /\ pc = "ciphers"
  <2>1. todo' = todo
    BY <1>6 DEF vars
  <2> QED BY <1>2, <1>6, <2>1 DEF Itinerary
<1> QED BY <1>1, <1>4, <1>5, <1>6

-----------------------------------------------------------------------------
(* The list of results *)

LEMMA ServerStays ==
  ASSUME [Next]_vars
  PROVE  server' = server /\ opts' = opts
BY DEF Next, Terminating, Connect, ProbeProtocol, FetchCerts, ScanCiphers, PreferenceFirst,
       PreferenceSecond, Assess, vars, inputVars

(* What is probed next leaves the front of what is ahead. *)
LEMMA HeadMoves ==
  ASSUME NEW T, NEW s \in Seq(T), NEW t \in Seq(T), t # <<>>
  PROVE  Append(s, Head(t)) \o Tail(t) = s \o t
<1> DEFINE m == Len(s)  n == Len(t)
           l == Append(s, Head(t)) \o Tail(t)
           r == s \o t
<1>1. m \in Nat /\ n \in Nat /\ n >= 1
  <2>1. n \in Nat /\ n # 0
    OBVIOUS
  <2> QED BY <2>1
<1>2. /\ Append(s, Head(t)) \in Seq(T) /\ Len(Append(s, Head(t))) = m + 1
      /\ Tail(t) \in Seq(T) /\ Len(Tail(t)) = n - 1
      /\ \A i \in 1..(n - 1) : Tail(t)[i] = t[i + 1]
      /\ \A i \in 1..m : Append(s, Head(t))[i] = s[i]
      /\ Append(s, Head(t))[m + 1] = t[1]
  BY <1>1
<1>3. l \in Seq(T) /\ r \in Seq(T) /\ Len(l) = m + n /\ Len(r) = m + n
  BY <1>1, <1>2
<1>4. ASSUME NEW i \in 1..(m + n) PROVE l[i] = r[i]
  <2>1. CASE i <= m
    BY <1>1, <1>2, <2>1
  <2>2. CASE i = m + 1
    BY <1>1, <1>2, <2>2
  <2>3. CASE i > m + 1
    <3>1. i - (m + 1) \in 1..(n - 1) /\ i - m \in 1..n /\ i - (m + 1) + 1 = i - m
      BY <1>1, <2>3
    <3>2. l[i] = Tail(t)[i - (m + 1)]
      BY <1>1, <1>2, <2>3
    <3>3. r[i] = t[i - m]
      BY <1>1, <2>3
    <3> QED BY <1>2, <3>1, <3>2, <3>3
  <2> QED BY <1>1, <2>1, <2>2, <2>3
<1> HIDE DEF l, r
<1>5. l = r
  BY <1>3, <1>4
<1> QED BY <1>5 DEF l, r

LEMMA NextReported ==
  ASSUME IInv, Typed, Phase, EveryProbeReported, [Next]_vars
  PROVE  EveryProbeReported'
<1>1. ProtocolsToProbe' = ProtocolsToProbe
  BY ServerStays DEF ProtocolsToProbe
<1>2. CASE ProbeProtocol
  <2> DEFINE p == Head(todo)
  <2>1. todo \in Seq(Protocol) /\ todo # <<>> /\ pc = "protocols" /\ todo' = Tail(todo)
    BY <1>2 DEF ProbeProtocol, Typed
  <2>2. p \in Protocol
    BY <2>1
  <2>3. PICK r : r.protocol = p /\ r \in Results /\ protocol_results' = Append(protocol_results, r)
    <3>1. PICK got \in {ProbeAnswer(p), {}} : \E outcome \in Outcomes(p, got) :
            protocol_results' = Append(protocol_results, ProtocolResult(p, outcome.supported))
      BY <1>2 DEF ProbeProtocol, WithResult
    <3>2. PICK outcome \in Outcomes(p, got) :
            protocol_results' = Append(protocol_results, ProtocolResult(p, outcome.supported))
      BY <3>1
    <3>3. outcome.supported \in BOOLEAN
      BY <3>2 DEF Outcomes
    <3> QED BY <2>2, <3>2, <3>3 DEF ProtocolResult, Results
  <2>4. protocol_results \in Seq(Results) /\ \A q \in Results : q.protocol \in Protocol
    BY DEF IInv, ResultsInv, Results, ProtocolResult
  <2>5. Probed \in Seq(Protocol) /\ Probed' = Append(Probed, p)
    <3> DEFINE k == Len(protocol_results)
    <3>1. k \in Nat /\ Len(protocol_results') = k + 1 /\ protocol_results'[k + 1] = r
          /\ \A i \in 1..k : protocol_results'[i] = protocol_results[i]
      BY <2>3, <2>4
    <3>2. \A i \in 1..k : protocol_results[i].protocol \in Protocol
      BY <2>4
    <3>3. Probed \in Seq(Protocol) /\ Len(Probed) = k
      BY <3>1, <3>2 DEF Probed
    <3>4. Probed' = [i \in 1..(k + 1) |-> protocol_results'[i].protocol]
      BY <3>1 DEF Probed
    <3>5. \A i \in 1..k : Probed[i] = protocol_results[i].protocol
      BY DEF Probed
    <3> HIDE DEF k
    <3>6. \A i \in 1..(k + 1) : protocol_results'[i].protocol = Append(Probed, p)[i]
      BY <2>2, <2>3, <3>1, <3>3, <3>5
    <3> DEFINE s == Append(Probed, p)
    <3>7. s \in Seq(Protocol) /\ Len(s) = k + 1
      BY <2>2, <3>1, <3>3
    <3>8. \A i \in 1..(k + 1) : protocol_results'[i].protocol = s[i] /\ s[i] \in Protocol
      BY <3>1, <3>6, <3>7
    <3> HIDE DEF s
    <3>9. Probed' \in Seq(Protocol) /\ Len(Probed') = k + 1
      BY <3>1, <3>4, <3>8
    <3>10. \A i \in 1..(k + 1) : Probed'[i] = s[i]
      BY <3>4, <3>8
    <3>11. Probed' = s
      BY <3>1, <3>7, <3>9, <3>10
    <3> QED BY <3>3, <3>11 DEF s
  <2>6. Probed \o todo = ProtocolsToProbe
    BY <2>1 DEF EveryProbeReported, Ahead
  <2>7. Probed' \o Tail(todo) = ProtocolsToProbe
    BY <2>1, <2>5, <2>6, HeadMoves
  <2>8. pc' # "protocols" => Tail(todo) = <<>>
    BY <1>2, <2>1 DEF ProbeProtocol
  <2>9. Ahead' = Tail(todo)
    BY <2>1, <2>8 DEF Ahead
  <2> QED BY <1>1, <2>7, <2>9 DEF EveryProbeReported
<1>3. CASE Connect
  <2> SUFFICES ASSUME pc' # "failed" PROVE Probed' \o Ahead' = ProtocolsToProbe
    BY <1>1 DEF EveryProbeReported
  <2>1. pc' = "protocols" /\ todo' = ProtocolsToProbe /\ protocol_results' = <<>>
    BY <1>3 DEF Connect, Phase, probeVars
  <2>2. Probed' = <<>> /\ Ahead' = ProtocolsToProbe
    BY <2>1 DEF Probed, Ahead
  <2>3. ProtocolsToProbe \in Seq(Protocol)
    BY TheLists DEF ProtocolsToProbe
  <2> QED BY <2>2, <2>3
<1>4. CASE FetchCerts \/ ScanCiphers \/ PreferenceFirst \/ PreferenceSecond \/ Assess
  <2>1. /\ pc \notin {"connect", "failed", "protocols"} /\ pc' # "protocols"
        /\ protocol_results' = protocol_results
    BY <1>4 DEF FetchCerts, ScanCiphers, PreferenceFirst, PreferenceSecond, Assess, probeVars
  <2>2. Probed' = Probed /\ Ahead' = Ahead
    BY <2>1 DEF Probed, Ahead
  <2> QED BY <1>1, <2>1, <2>2 DEF EveryProbeReported
<1>5. CASE UNCHANGED vars
  <2>1. pc' = pc /\ todo' = todo /\ protocol_results' = protocol_results
    BY <1>5 DEF vars, probeVars
  <2>2. Probed' = Probed /\ Ahead' = Ahead
    BY <2>1 DEF Probed, Ahead
  <2> QED BY <1>1, <2>1, <2>2 DEF EveryProbeReported
<1> QED BY <1>2, <1>3, <1>4, <1>5 DEF Next, Terminating

(***************************************************************************)
(* Every step of run_scan finds what the steps before it have left: no     *)
(* suites unless they were scanned, no preference before its test, the     *)
(* report that the other results lead to, and, in the loop over protocols, *)
(* a rest of ProtosToTest.                                                 *)
(***************************************************************************)
THEOREM Phases == Spec => [](Phase /\ Itinerary)
<1>1. Init => Phase /\ Itinerary
  BY InitPhase DEF Init, Itinerary
<1>2. IInv /\ Typed /\ Phase /\ Itinerary /\ [Next]_vars => Phase' /\ Itinerary'
  BY NextPhase, NextItinerary
<1> QED BY <1>1, <1>2, Invariance, StaysTyped, PTL DEF Spec

(***************************************************************************)
(* Whatever fails, the results are one for each protocol asked for, in     *)
(* order: for all options and servers.                                     *)
(***************************************************************************)
THEOREM NoHoleInResults == Spec => []EveryProbeReported
<1>1. Init => EveryProbeReported
  BY DEF Init, EveryProbeReported
<1>2. IInv /\ Typed /\ Phase /\ EveryProbeReported /\ [Next]_vars => EveryProbeReported'
  BY NextReported
<1> QED BY <1>1, <1>2, Invariance, StaysTyped, Phases, PTL DEF Spec

-----------------------------------------------------------------------------
(* What a scan of one protocol's suites can find *)

(* A suite offered alone and accepted is one the server can use. *)
LEMMA AcceptedIsUsable ==
  ASSUME NEW p, NEW i \in Accepted(Candidates[p], p)
  PROVE  LET c == Candidates[p][i]
         IN /\ c \in server.suites
            /\ \E v \in Version(server, Hello(p, <<c>>, sni)) : UsableAt(c, v)
<1> DEFINE c     == Candidates[p][i]
           hello == Hello(p, <<c>>, sni)
<1>1. PICK a \in Answers(server, hello) : a.suite = c.id
  BY DEF Accepted
<1>2. PICK v \in Version(server, hello) : \E d \in Selected(server, hello, v) : a.suite = d.id
  BY DEF Answers
<1>3. PICK d \in Selected(server, hello, v) : a.suite = d.id
  BY <1>2
<1>4. hello.offered = <<c>>
  BY DEF Hello
<1> HIDE DEF hello, c
<1>5. d = c
  <2>1. PICK j \in 1..Len(hello.offered) : hello.offered[j] = d
    BY SelectedIsShared
  <2>2. Len(<<c>>) = 1 /\ <<c>>[1] = c
    OBVIOUS
  <2> QED BY <1>4, <2>1, <2>2
<1>6. d \in server.suites /\ UsableAt(d, v)
  BY SelectedIsShared
<1> QED BY <1>5, <1>6 DEF hello, c

LEMMA AcceptedIsNegotiable ==
  ASSUME NEW p, NEW i \in Accepted(Candidates[p], p)
  PROVE  Candidates[p][i] \in Negotiable
<1> DEFINE c == Candidates[p][i]
<1>1. c \in server.suites /\ \E v \in Version(server, Hello(p, <<c>>, sni)) : UsableAt(c, v)
  BY AcceptedIsUsable
<1> HIDE DEF c
<1>2. \E v \in server.versions \ {"Ssl2"} : UsableAt(c, v)
  BY <1>1, VersionIsTheirs
<1>3. c \in Negotiable
  BY <1>1, <1>2 DEF Negotiable
<1> QED BY <1>3 DEF c

(* The protocols reported are protocols the server speaks. *)
LEMMA ActiveIsSpoken ==
  ASSUME ResultsInv, NEW p \in Active
  PROVE  Speaks(server, p)
BY DEF ResultsInv, Active, Members

LEMMA HeadIsToTest ==
  ASSUME IInv, Typed, Itinerary, pc = "ciphers"
  PROVE  /\ Head(todo) \in Members(ProtosToTest)
         /\ Active # {} => Head(todo) \in Active
<1>1. todo \in Seq(Protocol) /\ todo # <<>>
  BY DEF Typed
<1>2. Len(todo) \in Nat /\ 1 \in 1..Len(todo) /\ Head(todo) = todo[1]
  BY <1>1
<1>3. Len(todo) <= Len(ProtosToTest) /\ todo[1] = ProtosToTest[Len(ProtosToTest) - Len(todo) + 1]
  BY <1>2 DEF Itinerary
<1>4. Len(ProtosToTest) \in Nat
  BY ToTest DEF IInv
<1>5. Len(ProtosToTest) - Len(todo) + 1 \in 1..Len(ProtosToTest)
  BY <1>2, <1>3, <1>4
<1>6. Head(todo) \in Members(ProtosToTest)
  BY <1>2, <1>3, <1>5 DEF Members
<1> QED BY <1>6, ToTest DEF IInv

LEMMA SuitesSoundStep ==
  ASSUME IInv, Typed, SuitesSound, [Next]_vars
  PROVE  SuitesSound'
<1>1. Negotiable' = Negotiable
  BY ServerStays DEF Negotiable
<1>2. CASE ScanCiphers
  <2> DEFINE p == Head(todo)
  <2>1. PICK kept : Keeps(p, kept)
    BY <1>2, ScanKeeps
  <2> DEFINE found == Found(p, kept)
             new   == Unseen(supported_ciphers, found)
  <2>2. /\ kept \subseteq Accepted(Candidates[p], p)
        /\ found \in Seq(Suites) /\ Members(found) = {Candidates[p][i] : i \in kept}
        /\ supported_ciphers' = supported_ciphers \o new
    BY <2>1 DEF Keeps
  <2>3. Members(found) \subseteq Negotiable
    BY <2>2, AcceptedIsNegotiable
  <2> HIDE DEF found
  <2>4. new \in Seq(Suites) /\ Members(new) \subseteq Members(found)
    BY <2>2, UnseenRows
  <2>5. supported_ciphers \in Seq(Suites)
    BY DEF Typed
  <2>6. supported_ciphers' = supported_ciphers \o new
    BY <2>2
  <2> HIDE DEF new
  <2>7. Members(supported_ciphers \o new) = Members(supported_ciphers) \cup Members(new)
    BY <2>4, <2>5, MembersConcat
  <2> QED BY <1>1, <2>3, <2>4, <2>6, <2>7 DEF SuitesSound
<1>3. CASE ~ScanCiphers
  BY <1>1, <1>3, SuitesStay DEF SuitesSound
<1> QED BY <1>2, <1>3

(***************************************************************************)
(* A suite is listed only if the server negotiates it with some client,    *)
(* whatever fails and whatever is scanned.                                 *)
(***************************************************************************)
THEOREM ListedAreNegotiable == Spec => []SuitesSound
<1>1. Init => SuitesSound
  <2>1. Members(<<>>) = {}
    BY MembersOf, <<>> \in Seq({})
  <2> QED BY <2>1 DEF Init, SuitesSound
<1>2. IInv /\ Typed /\ SuitesSound /\ [Next]_vars => SuitesSound'
  BY SuitesSoundStep
<1> QED BY <1>1, <1>2, Invariance, StaysTyped, PTL DEF Spec

LEMMA GroupsSoundStep ==
  ASSUME IInv, Typed, Phase, Itinerary, GroupsSound, [Next]_vars
  PROVE  GroupsSound'
<1>1. server' = server
  BY ServerStays
<1>2. CASE ScanCiphers
  <2> DEFINE p == Head(todo)
  <2>1. PICK kept : Keeps(p, kept)
    BY <1>2, ScanKeeps
  <2> DEFINE found == Found(p, kept)
             group == [protocol |-> p, ciphers |-> found]
  <2>2. /\ kept \subseteq Accepted(Candidates[p], p)
        /\ found \in Seq(Suites) /\ Members(found) = {Candidates[p][i] : i \in kept}
        /\ protocol_ciphers' = IF found = <<>> THEN protocol_ciphers ELSE Append(protocol_ciphers, group)
    BY <2>1 DEF Keeps
  <2>3. Active' = Active
    BY <1>2, ResultsStay DEF ScanCiphers
  <2> SUFFICES ASSUME Active # {} PROVE ListedWhereNegotiated'
    BY <2>3 DEF GroupsSound
  <2>4. ListedWhereNegotiated
    BY DEF GroupsSound
  <2>5. p \in Active /\ p \in Protocol
    BY <1>2, HeadIsToTest, ScanKeeps DEF ScanCiphers
  <2>6. p \in server.versions
    BY <2>5, ActiveIsSpoken DEF IInv, Speaks
  <2>7. server.versions \subseteq Protocol
    BY ServersAssumption DEF IInv
  <2>8. found # <<>> => p # "Ssl2"
    <3> SUFFICES ASSUME p = "Ssl2" PROVE found = <<>>
      OBVIOUS
    <3>1. Accepted(Candidates[p], p) = {}
      BY <2>7, NoSsl2Answer DEF Accepted
    <3>2. Members(found) = {}
      BY <2>2, <3>1
    <3> QED BY <2>2, <3>2, MembersOf
  <2>9. ASSUME NEW c \in Members(found), p # "Ssl2" PROVE c \in server.suites /\ UsableAt(c, p)
    <3>1. PICK i \in Accepted(Candidates[p], p) : c = Candidates[p][i]
      BY <2>2
    <3>2. c \in server.suites /\ \E v \in Version(server, Hello(p, <<c>>, sni)) : UsableAt(c, v)
      BY <3>1, AcceptedIsUsable
    <3>3. Version(server, Hello(p, <<c>>, sni)) = {p}
      BY <2>6, <2>7, <2>9, VersionAsked
    <3> QED BY <3>2, <3>3
  <2>10. group \in Group /\ protocol_ciphers \in Seq(Group)
    BY <2>2, <2>5 DEF Group, Typed
  <2>11. group.protocol = p /\ group.ciphers = found
    OBVIOUS
  <2> HIDE DEF group, found
  <2>12. CASE found = <<>>
    BY <1>1, <2>2, <2>4, <2>12 DEF ListedWhereNegotiated
  <2>13. CASE found # <<>>
    <3>1. Members(protocol_ciphers') = Members(protocol_ciphers) \cup {group}
      BY <2>2, <2>10, <2>13, MembersAppend
    <3> QED BY <1>1, <2>4, <2>6, <2>8, <2>9, <2>11, <2>13, <3>1 DEF ListedWhereNegotiated
  <2> QED BY <2>12, <2>13
<1>3. CASE ~ScanCiphers /\ pc # "protocols"
  <2>1. protocol_ciphers' = protocol_ciphers /\ Active' = Active
    BY <1>3, SuitesStay, ResultsStay
  <2> QED BY <1>1, <2>1 DEF GroupsSound, ListedWhereNegotiated
<1>4. CASE ~ScanCiphers /\ pc = "protocols"
  <2>1. protocol_ciphers' = <<>>
    BY <1>4, SuitesStay DEF Phase, Scanning
  <2>2. Members(<<>>) = {}
    BY MembersOf, <<>> \in Seq({})
  <2> QED BY <2>1, <2>2 DEF GroupsSound, ListedWhereNegotiated
<1> QED BY <1>2, <1>3, <1>4

(***************************************************************************)
(* A suite is listed under a protocol only if the server negotiates it at  *)
(* that protocol, unless no protocol was found at all.                     *)
(***************************************************************************)
THEOREM GroupsAreNegotiated == Spec => []GroupsSound
<1>1. Init => GroupsSound
  <2>1. Members(<<>>) = {}
    BY MembersOf, <<>> \in Seq({})
  <2> QED BY <2>1 DEF Init, GroupsSound, ListedWhereNegotiated
<1>2. IInv /\ Typed /\ Phase /\ Itinerary /\ GroupsSound /\ [Next]_vars => GroupsSound'
  BY GroupsSoundStep
<1> QED BY <1>1, <1>2, Invariance, StaysTyped, Phases, PTL DEF Spec

-----------------------------------------------------------------------------
(* Sequences of suites with distinct ids *)

DistinctIds(s) == \A i, j \in 1..Len(s) : s[i].id = s[j].id => i = j

LEMMA FilterDistinct ==
  ASSUME NEW T, NEW s \in Seq(T), DistinctIds(s), NEW S
  PROVE  DistinctIds(Filter(s, S))
<1> DEFINE t == Filter(s, S)
<1>1. \A k, l \in 1..Len(t) : k < l => t[k].id # t[l].id
  <2> SUFFICES ASSUME NEW k \in 1..Len(t), NEW l \in 1..Len(t), k < l PROVE t[k].id # t[l].id
    OBVIOUS
  <2>1. PICK i \in 1..Len(s), j \in 1..Len(s) : i < j /\ t[k] = s[i] /\ t[l] = s[j]
    BY FilterOrder
  <2> HIDE DEF t
  <2> QED BY <2>1 DEF DistinctIds
<1>2. Len(t) \in Nat
  BY FilterKeeps
<1> HIDE DEF t
<1>3. DistinctIds(t)
  BY <1>1, <1>2 DEF DistinctIds
<1> QED BY <1>3 DEF t

LEMMA ConcatDistinct ==
  ASSUME NEW T, NEW s \in Seq(T), NEW t \in Seq(T), DistinctIds(s), DistinctIds(t),
         \A c \in Members(s), d \in Members(t) : c.id # d.id
  PROVE  DistinctIds(s \o t)
<1> DEFINE u == s \o t
<1>1. /\ Len(s) \in Nat /\ Len(t) \in Nat /\ Len(u) = Len(s) + Len(t)
      /\ \A i \in 1..Len(s) : u[i] = s[i]
      /\ \A i \in 1..Len(t) : u[Len(s) + i] = t[i]
  OBVIOUS
<1> HIDE DEF u
<1>2. ASSUME NEW i \in 1..Len(u)
      PROVE  \/ i \in 1..Len(s) /\ u[i] = s[i] /\ u[i] \in Members(s)
             \/ i - Len(s) \in 1..Len(t) /\ u[i] = t[i - Len(s)] /\ u[i] \in Members(t)
  <2>1. CASE i \in 1..Len(s)
    BY <1>1, <2>1 DEF Members
  <2>2. CASE i \notin 1..Len(s)
    <3>1. i - Len(s) \in 1..Len(t) /\ Len(s) + (i - Len(s)) = i
      BY <1>1, <2>2
    <3> QED BY <1>1, <3>1 DEF Members
  <2> QED BY <2>1, <2>2
<1>3. ASSUME NEW i \in 1..Len(u), NEW j \in 1..Len(u), u[i].id = u[j].id
      PROVE  i = j
  <2>1. CASE i \in 1..Len(s) /\ j \in 1..Len(s)
    BY <1>1, <1>3, <2>1 DEF DistinctIds
  <2>2. CASE i - Len(s) \in 1..Len(t) /\ j - Len(s) \in 1..Len(t)
    <3>1. i \notin 1..Len(s) /\ j \notin 1..Len(s)
      BY <1>1, <2>2
    <3>2. u[i] = t[i - Len(s)] /\ u[j] = t[j - Len(s)]
      BY <1>2, <3>1
    <3>3. i - Len(s) = j - Len(s)
      BY <1>3, <2>2, <3>2 DEF DistinctIds
    <3> QED BY <1>1, <3>3
  <2> QED BY <1>2, <1>3, <2>1, <2>2
<1>4. DistinctIds(u)
  BY <1>3 DEF DistinctIds
<1> QED BY <1>4 DEF u

(* A suite is known by its id. *)
LEMMA OneSuitePerId ==
  ASSUME NEW c \in Suites, NEW d \in Suites, c.id = d.id
  PROVE  c = d
BY TableAssumption DEF Suites, Members

LEMMA FoundDistinct ==
  ASSUME NEW p \in Protocol, NEW kept
  PROVE  DistinctIds(Found(p, kept))
<1>1. DistinctIds(Table)
  BY TableAssumption DEF DistinctIds
<1>2. Candidates[p] = Filter(Table, {c \in Suites : IsCandidate(c, p)})
  BY DEF Candidates, ScanCandidates, Suites
<1>3. DistinctIds(Candidates[p])
  BY <1>1, <1>2, TableRows, FilterDistinct
<1>4. Candidates[p] \in Seq(Suites)
  BY CandidateRows
<1> QED BY <1>3, <1>4, FilterDistinct DEF Found

(* What is new of one scan joins the list: nothing twice, nothing lost. *)
LEMMA Merged ==
  ASSUME NEW seen \in Seq(Suites), DistinctIds(seen), NEW found \in Seq(Suites), DistinctIds(found)
  PROVE  /\ DistinctIds(seen \o Unseen(seen, found))
         /\ Members(seen \o Unseen(seen, found)) = Members(seen) \cup Members(found)
<1> DEFINE fresh == Unseen(seen, found)
<1>1. /\ fresh \in Seq(Suites)
      /\ Members(fresh) = {c \in Members(found) : \A d \in Members(seen) : d.id # c.id}
  BY UnseenRows
<1>2. DistinctIds(fresh)
  BY FilterDistinct DEF Unseen
<1> HIDE DEF fresh
<1>3. DistinctIds(seen \o fresh)
  BY <1>1, <1>2, ConcatDistinct
<1>4. Members(seen \o fresh) = Members(seen) \cup Members(fresh)
  BY <1>1, MembersConcat
<1>5. Members(seen) \subseteq Suites /\ Members(found) \subseteq Suites
  BY MembersOf
<1>6. ASSUME NEW c \in Members(found), c \notin Members(fresh) PROVE c \in Members(seen)
  <2>1. PICK d \in Members(seen) : d.id = c.id
    BY <1>1, <1>6
  <2> QED BY <1>5, <2>1, OneSuitePerId
<1>7. Members(seen \o fresh) = Members(seen) \cup Members(found)
  BY <1>1, <1>4, <1>6
<1> QED BY <1>3, <1>7 DEF fresh

(* The protocols to test come highest first. *)
Descends(s) == \A i, j \in 1..Len(s) : i < j => ~(s[i] \preceq s[j])

LEMMA FilterDescends ==
  ASSUME NEW T, NEW s \in Seq(T), Descends(s), NEW S
  PROVE  Descends(Filter(s, S))
<1> DEFINE t == Filter(s, S)
<1>1. ASSUME NEW k \in 1..Len(t), NEW l \in 1..Len(t), k < l
      PROVE  ~(t[k] \preceq t[l])
  <2>1. PICK i \in 1..Len(s), j \in 1..Len(s) : i < j /\ t[k] = s[i] /\ t[l] = s[j]
    BY <1>1, FilterOrder
  <2> HIDE DEF t
  <2> QED BY <2>1 DEF Descends
<1> HIDE DEF t
<1>2. Descends(t)
  BY <1>1 DEF Descends
<1> QED BY <1>2 DEF t

LEMMA ToTestDescends == Descends(ProtosToTest)
<1>1. SCAN_ORDER \in Seq(Protocol) /\ Descends(SCAN_ORDER)
  BY ScanOrder DEF Descends
<1>2. Descends(Filter(SCAN_ORDER, Active))
  BY <1>1, FilterDescends
<1> QED BY <1>1, <1>2, Zenon DEF ProtosToTest

-----------------------------------------------------------------------------
(***************************************************************************)
(* The three ways a suite is reported agree, as an invariant: the list is  *)
(* that of the groups, the groups come highest first and all above what is *)
(* still to be scanned, and the counts add up while suites are scanned.    *)
(***************************************************************************)
Grouped(gs) == UNION {Members(g.ciphers) : g \in gs}

Flat ==
  /\ DistinctIds(supported_ciphers)
  /\ Members(supported_ciphers) = Grouped(Members(protocol_ciphers))

Sorted ==
  /\ \A i, j \in 1..Len(protocol_ciphers) :
       i < j => ~(protocol_ciphers[i].protocol \preceq protocol_ciphers[j].protocol)
  /\ pc = "ciphers" =>
       \A i \in 1..Len(protocol_ciphers), k \in 1..Len(todo) :
         ~(protocol_ciphers[i].protocol \preceq todo[k])

Tally ==
  /\ rejected_ciphers_count \in Nat
  /\ Scanning => rejected_ciphers_count + Listed = Tried

LEMMA EmptyMembers == Members(<<>>) = {}
BY MembersOf, <<>> \in Seq({})

LEMMA OneMoreGroup ==
  ASSUME NEW gs, NEW g
  PROVE  Grouped(gs \cup {g}) = Grouped(gs) \cup Members(g.ciphers)
BY DEF Grouped

LEMMA FlatStep ==
  ASSUME Typed, Flat, [Next]_vars
  PROVE  Flat'
<1>1. CASE ScanCiphers
  <2> DEFINE p == Head(todo)
  <2>1. PICK kept : Keeps(p, kept)
    BY <1>1, ScanKeeps
  <2> DEFINE found == Found(p, kept)
             group == [protocol |-> p, ciphers |-> found]
             all   == supported_ciphers \o Unseen(supported_ciphers, found)
  <2>2. /\ found \in Seq(Suites)
        /\ supported_ciphers' = all
        /\ protocol_ciphers' = IF found = <<>> THEN protocol_ciphers ELSE Append(protocol_ciphers, group)
    BY <2>1 DEF Keeps
  <2>3. p \in Protocol
    BY <1>1, ScanKeeps
  <2>4. DistinctIds(found)
    BY <2>3, FoundDistinct
  <2>5. group \in Group /\ group.ciphers = found
    BY <2>2, <2>3 DEF Group
  <2> HIDE DEF found, group
  <2>6. supported_ciphers \in Seq(Suites) /\ protocol_ciphers \in Seq(Group)
    BY DEF Typed
  <2>7. DistinctIds(all) /\ Members(all) = Members(supported_ciphers) \cup Members(found)
    BY <2>2, <2>4, <2>6, Merged DEF Flat
  <2> HIDE DEF all
  <2>8. CASE found = <<>>
    <3>1. Members(found) = {}
      BY <2>8, EmptyMembers
    <3>2. protocol_ciphers' = protocol_ciphers
      BY <2>2, <2>8
    <3> QED BY <2>2, <2>7, <3>1, <3>2 DEF Flat
  <2>9. CASE found # <<>>
    <3>1. protocol_ciphers' = Append(protocol_ciphers, group)
      BY <2>2, <2>9
    <3>2. Members(protocol_ciphers') = Members(protocol_ciphers) \cup {group}
      BY <2>5, <2>6, <3>1, MembersAppend
    <3>3. Grouped(Members(protocol_ciphers')) = Grouped(Members(protocol_ciphers)) \cup Members(found)
      BY <2>5, <3>2, OneMoreGroup
    <3> QED BY <2>2, <2>7, <3>3 DEF Flat
  <2> QED BY <2>8, <2>9
<1>2. CASE ~ScanCiphers
  BY <1>2, SuitesStay DEF Flat
<1> QED BY <1>1, <1>2

LEMMA SortedStep ==
  ASSUME IInv, Typed, Phase, Itinerary, Sorted, [Next]_vars
  PROVE  Sorted'
<1>1. CASE ScanCiphers
  <2> DEFINE p == Head(todo)
  <2>1. PICK kept : Keeps(p, kept)
    BY <1>1, ScanKeeps
  <2> DEFINE group == [protocol |-> p, ciphers |-> Found(p, kept)]
  <2>2. protocol_ciphers' = protocol_ciphers \/ protocol_ciphers' = Append(protocol_ciphers, group)
    BY <2>1 DEF Keeps
  <2>3. group.protocol = p
    OBVIOUS
  <2> HIDE DEF group
  <2>4. /\ pc = "ciphers" /\ todo \in Seq(Protocol) /\ todo # <<>> /\ todo' = Tail(todo)
        /\ protocol_ciphers \in Seq(Group)
    BY <1>1 DEF Typed, ScanCiphers
  <2>5. /\ Len(todo) \in Nat /\ p = todo[1] /\ Len(todo') = Len(todo) - 1
        /\ \A k \in 1..(Len(todo) - 1) : todo'[k] = todo[k + 1]
    BY <2>4
  <2>6. ASSUME NEW k \in 1..Len(todo') PROVE ~(p \preceq todo'[k])
    <3> DEFINE n == Len(ProtosToTest)
               m == n - Len(todo)
    <3>1. n \in Nat /\ Len(todo) <= n /\ 1 \in 1..Len(todo) /\ k + 1 \in 1..Len(todo)
      BY <2>4, <2>5, ToTest DEF IInv, Itinerary
    <3>2. \A i \in 1..Len(todo) : todo[i] = ProtosToTest[m + i]
      BY <2>4 DEF Itinerary
    <3>3. m + 1 \in 1..n /\ m + (k + 1) \in 1..n /\ m + 1 < m + (k + 1)
      BY <2>5, <3>1
    <3>4. ~(ProtosToTest[m + 1] \preceq ProtosToTest[m + (k + 1)])
      BY <3>3, ToTestDescends DEF Descends
    <3>5. todo[1] = ProtosToTest[m + 1] /\ todo[k + 1] = ProtosToTest[m + (k + 1)]
      BY <3>1, <3>2
    <3>6. todo'[k] = todo[k + 1]
      BY <2>5
    <3> HIDE DEF m, n
    <3> QED BY <2>5, <3>4, <3>5, <3>6
  <2>7. ASSUME NEW k \in 1..Len(todo')
        PROVE  \A i \in 1..Len(protocol_ciphers) : ~(protocol_ciphers[i].protocol \preceq todo'[k])
    <3>1. k + 1 \in 1..Len(todo) /\ todo'[k] = todo[k + 1]
      BY <2>5
    <3> QED BY <2>4, <3>1 DEF Sorted
  <2>8. CASE protocol_ciphers' = protocol_ciphers
    BY <2>7, <2>8 DEF Sorted
  <2>9. CASE protocol_ciphers' = Append(protocol_ciphers, group)
    <3> DEFINE n == Len(protocol_ciphers)
    <3>1. /\ n \in Nat /\ Len(protocol_ciphers') = n + 1 /\ protocol_ciphers'[n + 1] = group
          /\ \A i \in 1..n : protocol_ciphers'[i] = protocol_ciphers[i]
      BY <2>4, <2>9
    <3>2. 1 \in 1..Len(todo)
      BY <2>4, <2>5
    <3>3. \A i \in 1..n : ~(protocol_ciphers[i].protocol \preceq p)
      BY <2>4, <2>5, <3>2 DEF Sorted
    <3>4. \A i, j \in 1..n : i < j => ~(protocol_ciphers[i].protocol \preceq protocol_ciphers[j].protocol)
      BY DEF Sorted
    <3> HIDE DEF n
    <3>5. \A i \in 1..(n + 1) : i \in 1..n \/ i = n + 1
      BY <3>1
    <3>6. ASSUME NEW i \in 1..(n + 1), NEW j \in 1..(n + 1), i < j
          PROVE  ~(protocol_ciphers'[i].protocol \preceq protocol_ciphers'[j].protocol)
      <4>1. i \in 1..n
        BY <3>1, <3>6
      <4> QED BY <2>3, <3>1, <3>3, <3>4, <3>5, <3>6, <4>1
    <3>7. ASSUME NEW i \in 1..(n + 1), NEW k \in 1..Len(todo')
          PROVE  ~(protocol_ciphers'[i].protocol \preceq todo'[k])
      <4>1. \A j \in 1..n : ~(protocol_ciphers[j].protocol \preceq todo'[k])
        BY <2>7 DEF n
      <4> QED BY <2>3, <2>6, <3>1, <3>5, <4>1
    <3> QED BY <3>1, <3>6, <3>7 DEF Sorted
  <2> QED BY <2>2, <2>8, <2>9
<1>2. CASE ~ScanCiphers
  <2>1. protocol_ciphers' = protocol_ciphers
    BY <1>2, SuitesStay
  <2>2. pc' = "ciphers" => protocol_ciphers = <<>> \/ (pc = "ciphers" /\ todo' = todo)
    <3>1. FetchCerts => protocol_ciphers = <<>>
      BY DEF FetchCerts, Phase, Scanning
    <3> QED BY <1>2, <3>1 DEF Next, Terminating, Connect, ProbeProtocol, PreferenceFirst,
              PreferenceSecond, Assess, vars
  <2>3. \A i \in 1..Len(<<>>) : FALSE
    OBVIOUS
  <2> QED BY <2>1, <2>2, <2>3 DEF Sorted
<1> QED BY <1>1, <1>2

(* The sums of ReportConsistent, over any groups and any protocols. *)
Sizes(gs) == [i \in 1..Len(gs) |-> Len(gs[i].ciphers)]
Tries(ps) == [i \in 1..Len(ps) |-> Len(Candidates[ps[i]])]

LEMMA SizesAdd ==
  ASSUME NEW gs \in Seq(Group), NEW g \in Group
  PROVE  /\ Sizes(gs) \in Seq(Nat)
         /\ Total(Sizes(Append(gs, g))) = Total(Sizes(gs)) + Len(g.ciphers)
<1> DEFINE hs == Append(gs, g)
<1>1. /\ Len(gs) \in Nat /\ Len(hs) = Len(gs) + 1 /\ hs[Len(gs) + 1] = g
      /\ \A i \in 1..Len(gs) : hs[i] = gs[i]
  OBVIOUS
<1>2. Len(g.ciphers) \in Nat /\ \A i \in 1..Len(gs) : Len(gs[i].ciphers) \in Nat
  BY DEF Group
<1>3. Sizes(gs) \in Seq(Nat) /\ Len(Sizes(gs)) = Len(gs)
  BY <1>1, <1>2 DEF Sizes
<1> HIDE DEF hs
<1>4. Sizes(hs) = Append(Sizes(gs), Len(g.ciphers))
  <2>1. \A i \in 1..(Len(gs) + 1) : i \in 1..Len(gs) \/ i = Len(gs) + 1
    BY <1>1
  <2>2. /\ Append(Sizes(gs), Len(g.ciphers)) = [i \in 1..(Len(gs) + 1) |->
             IF i = Len(gs) + 1 THEN Len(g.ciphers) ELSE Sizes(gs)[i]]
    BY <1>1, <1>3
  <2>3. \A i \in 1..(Len(gs) + 1) :
          Len(hs[i].ciphers) = IF i = Len(gs) + 1 THEN Len(g.ciphers) ELSE Sizes(gs)[i]
    BY <1>1, <2>1 DEF Sizes
  <2> QED BY <1>1, <2>2, <2>3 DEF Sizes
<1>5. Total(Append(Sizes(gs), Len(g.ciphers))) = Total(Sizes(gs)) + Len(g.ciphers)
  BY <1>2, <1>3, TotalAppend
<1> QED BY <1>3, <1>4, <1>5 DEF hs

LEMMA TriesAdd ==
  ASSUME NEW ps \in Seq(Protocol), NEW p \in Protocol
  PROVE  /\ Tries(ps) \in Seq(Nat)
         /\ Total(Tries(Append(ps, p))) = Total(Tries(ps)) + Len(Candidates[p])
<1> DEFINE qs == Append(ps, p)
<1>1. /\ Len(ps) \in Nat /\ Len(qs) = Len(ps) + 1 /\ qs[Len(ps) + 1] = p
      /\ \A i \in 1..Len(ps) : qs[i] = ps[i]
  OBVIOUS
<1>2. Len(Candidates[p]) \in Nat /\ \A i \in 1..Len(ps) : Len(Candidates[ps[i]]) \in Nat
  BY CandidateRows
<1>3. Tries(ps) \in Seq(Nat) /\ Len(Tries(ps)) = Len(ps)
  BY <1>1, <1>2 DEF Tries
<1> HIDE DEF qs
<1>4. Tries(qs) = Append(Tries(ps), Len(Candidates[p]))
  <2>1. \A i \in 1..(Len(ps) + 1) : i \in 1..Len(ps) \/ i = Len(ps) + 1
    BY <1>1
  <2>2. /\ Append(Tries(ps), Len(Candidates[p])) = [i \in 1..(Len(ps) + 1) |->
             IF i = Len(ps) + 1 THEN Len(Candidates[p]) ELSE Tries(ps)[i]]
    BY <1>1, <1>3
  <2>3. \A i \in 1..(Len(ps) + 1) :
          Len(Candidates[qs[i]]) = IF i = Len(ps) + 1 THEN Len(Candidates[p]) ELSE Tries(ps)[i]
    BY <1>1, <2>1 DEF Tries
  <2> QED BY <1>1, <2>2, <2>3 DEF Tries
<1>5. Total(Append(Tries(ps), Len(Candidates[p]))) = Total(Tries(ps)) + Len(Candidates[p])
  BY <1>2, <1>3, TotalAppend
<1> QED BY <1>3, <1>4, <1>5 DEF qs

LEMMA SubSeqGrows ==
  ASSUME NEW T, NEW s \in Seq(T), NEW n \in Nat, n + 1 <= Len(s)
  PROVE  SubSeq(s, 1, n) \in Seq(T) /\ SubSeq(s, 1, n + 1) = Append(SubSeq(s, 1, n), s[n + 1])
OBVIOUS

(* The protocols tested, with one more after each scan. *)
LEMMA TestedGrows ==
  ASSUME IInv, Typed, Itinerary, ScanCiphers
  PROVE  /\ Tested \in Seq(Protocol)
         /\ Tested' = Append(Tested, Head(todo))
<1> DEFINE P == ProtosToTest
           n == Len(P) - Len(todo)
<1>1. P' = P
  BY ResultsStay DEF ScanCiphers, Next
<1>2. P \in Seq(Protocol) /\ Len(P) \in Nat
  BY ToTest DEF IInv
<1>3. todo \in Seq(Protocol) /\ todo # <<>> /\ todo' = Tail(todo)
  BY DEF Typed, ScanCiphers
<1>4. /\ Len(todo) \in Nat /\ Len(todo') = Len(todo) - 1 /\ Head(todo) = todo[1] /\ 1 \in 1..Len(todo)
  BY <1>3
<1>5. Len(todo) <= Len(P) /\ todo[1] = P[n + 1]
  BY <1>4 DEF Itinerary, ScanCiphers
<1> HIDE DEF P
<1>6. n \in Nat /\ n + 1 <= Len(P) /\ Len(P) - Len(todo') = n + 1
  BY <1>2, <1>4, <1>5
<1>7. Tested = SubSeq(P, 1, n) /\ Tested' = SubSeq(P, 1, n + 1)
  BY <1>1, <1>6 DEF Tested, P
<1> HIDE DEF n
<1>8. SubSeq(P, 1, n) \in Seq(Protocol) /\ SubSeq(P, 1, n + 1) = Append(SubSeq(P, 1, n), P[n + 1])
  BY <1>2, <1>6, SubSeqGrows
<1> QED BY <1>4, <1>5, <1>7, <1>8

LEMMA TallyStep ==
  ASSUME IInv, Typed, Phase, Itinerary, Tally, [Next]_vars
  PROVE  Tally'
<1>1. Listed = Total(Sizes(protocol_ciphers)) /\ Tried = Total(Tries(Tested))
  BY DEF Listed, Tried, Sizes, Tries
<1>2. Listed' = Total(Sizes(protocol_ciphers')) /\ Tried' = Total(Tries(Tested'))
  BY DEF Listed, Tried, Sizes, Tries
<1>3. CASE ScanCiphers
  <2> DEFINE p == Head(todo)
  <2>1. PICK kept : Keeps(p, kept)
    BY <1>3, ScanKeeps
  <2> DEFINE found == Found(p, kept)
             group == [protocol |-> p, ciphers |-> found]
  <2>2. /\ found \in Seq(Suites)
        /\ Len(found) \in Nat /\ Len(found) <= Len(Candidates[p])
        /\ rejected_ciphers_count' = rejected_ciphers_count + Len(Candidates[p]) - Len(found)
        /\ protocol_ciphers' = IF found = <<>> THEN protocol_ciphers ELSE Append(protocol_ciphers, group)
    BY <2>1 DEF Keeps
  <2>3. p \in Protocol
    BY <1>3, ScanKeeps
  <2>4. group \in Group /\ group.ciphers = found
    BY <2>2, <2>3 DEF Group
  <2> HIDE DEF found, group
  <2>5. Len(Candidates[p]) \in Nat
    BY <2>3, CandidateRows
  <2>6. protocol_ciphers \in Seq(Group)
    BY DEF Typed
  <2>7. Listed' = Listed + Len(found)
    <3>1. CASE found = <<>>
      <4>1. Len(found) = 0 /\ protocol_ciphers' = protocol_ciphers
        BY <2>2, <3>1
      <4>2. Total(Sizes(protocol_ciphers)) \in Nat
        BY <2>4, <2>6, SizesAdd, TotalIsNat
      <4> QED BY <1>1, <1>2, <4>1, <4>2
    <3>2. CASE found # <<>>
      BY <1>1, <1>2, <2>2, <2>4, <2>6, <3>2, SizesAdd
    <3> QED BY <3>1, <3>2
  <2>8. Tried' = Tried + Len(Candidates[p])
    BY <1>1, <1>2, <1>3, <2>3, TestedGrows, TriesAdd
  <2>9. Listed \in Nat /\ Tried \in Nat
    BY <1>1, <1>3, <2>3, <2>4, <2>6, SizesAdd, TestedGrows, TriesAdd, TotalIsNat
  <2>10. rejected_ciphers_count \in Nat /\ rejected_ciphers_count + Listed = Tried
    BY <1>3 DEF Tally, Scanning, ScanCiphers
  <2>11. rejected_ciphers_count' \in Nat
    BY <2>2, <2>5, <2>10
  <2>12. rejected_ciphers_count' + Listed' = Tried'
    <3> DEFINE r == rejected_ciphers_count
               c == Len(Candidates[p])
               f == Len(found)
    <3>1. rejected_ciphers_count' = r + c - f /\ f \in Nat /\ c \in Nat /\ Listed' = Listed + f /\ Tried' = Tried + c
      BY <2>2, <2>5, <2>7, <2>8
    <3> HIDE DEF c, f
    <3> QED BY <2>9, <2>10, <3>1
  <2> QED BY <2>11, <2>12 DEF Tally
<1>4. CASE FetchCerts
  <2>1. protocol_ciphers' = <<>> /\ rejected_ciphers_count' = 0
    BY <1>4, SuitesStay DEF FetchCerts, Phase, Scanning, ScanCiphers
  <2> SUFFICES ASSUME Scanning' PROVE Listed' = 0 /\ Tried' = 0
    BY <2>1 DEF Tally
  <2>2. todo' = ProtosToTest /\ ProtosToTest' = ProtosToTest
    <3>1. pc' = "ciphers" \/ (pc' = "assess" /\ (opts.protocols_only \/ opts.cert_only))
      BY <1>4 DEF FetchCerts
    <3>2. opts' = opts
      BY ServerStays
    <3> QED BY <1>4, <3>1, <3>2, ResultsStay DEF FetchCerts, Scanning
  <2>3. ProtosToTest \in Seq(Protocol) /\ Len(ProtosToTest) \in Nat
    BY ToTest DEF IInv
  <2>4. Tested' = SubSeq(ProtosToTest, 1, Len(ProtosToTest) - Len(ProtosToTest))
    BY <2>2 DEF Tested
  <2>5. Tested' = <<>>
    BY <2>3, <2>4
  <2>6. Sizes(<<>>) = <<>> /\ Tries(<<>>) = <<>>
    BY DEF Sizes, Tries
  <2> QED BY <1>2, <2>1, <2>5, <2>6, TotalEmpty
<1>5. CASE ~ScanCiphers /\ ~FetchCerts
  <2>1. UNCHANGED <<opts, protocol_ciphers, rejected_ciphers_count>>
    BY <1>5, SuitesStay
  <2>2. Scanning' => Scanning /\ todo' = todo /\ pc # "protocols"
    BY <1>5, <2>1 DEF Next, Terminating, Connect, ProbeProtocol, PreferenceFirst, PreferenceSecond,
       Assess, vars, Scanning
  <2>3. Scanning' => Tried' = Tried
    <3>1. Scanning' => Tested' = Tested
      BY <2>2, ResultsStay DEF Tested
    <3> QED BY <1>1, <1>2, <3>1
  <2>4. Listed' = Listed
    BY <1>1, <1>2, <2>1
  <2> QED BY <2>1, <2>2, <2>3, <2>4 DEF Tally
<1> QED BY <1>3, <1>4, <1>5

(***************************************************************************)
(* In every state, also between two protocols' scans: the flat list has    *)
(* each suite of the groups once, the groups follow SCAN_ORDER, what is    *)
(* left to test comes after them, and listed and rejected suites account   *)
(* for every candidate tested so far.                                      *)
(***************************************************************************)
THEOREM CountsAddUp == Spec => [](Flat /\ Sorted /\ Tally)
<1>1. Init => Flat /\ Sorted /\ Tally
  <2> SUFFICES ASSUME Init PROVE Flat /\ Sorted /\ Tally
    OBVIOUS
  <2>1. \A i \in 1..Len(<<>>) : FALSE
    OBVIOUS
  <2>2. /\ supported_ciphers = <<>> /\ protocol_ciphers = <<>> /\ rejected_ciphers_count = 0
        /\ pc = "connect"
    BY DEF Init
  <2>3. DistinctIds(<<>>)
    BY <2>1, Zenon DEF DistinctIds
  <2>4. Grouped({}) = {}
    BY DEF Grouped
  <2>5. Flat
    BY <2>2, <2>3, <2>4, EmptyMembers DEF Flat
  <2>6. Sorted
    BY <2>1, <2>2, Zenon DEF Sorted
  <2>7. Tally
    BY <2>2 DEF Tally, Scanning
  <2> QED BY <2>5, <2>6, <2>7
<1>2. IInv /\ Typed /\ Phase /\ Itinerary /\ Flat /\ Sorted /\ Tally /\ [Next]_vars
        => Flat' /\ Sorted' /\ Tally'
  BY FlatStep, SortedStep, TallyStep
<1> QED BY <1>1, <1>2, Invariance, StaysTyped, Phases, PTL DEF Spec

(***************************************************************************)
(* The flat list has each suite of the groups once, the groups follow      *)
(* SCAN_ORDER, and with the number rejected they account for every         *)
(* candidate tested.                                                       *)
(***************************************************************************)
THEOREM ReportIsConsistent == Spec => []ReportConsistent
<1>1. Phase /\ Flat /\ Sorted /\ Tally => ReportConsistent
  <2> SUFFICES ASSUME Phase, Flat, Sorted, Tally PROVE ReportConsistent
    OBVIOUS
  <2>1. \A i, j \in 1..Len(supported_ciphers) :
          i # j => supported_ciphers[i].id # supported_ciphers[j].id
    BY DEF Flat, DistinctIds
  <2>2. Members(supported_ciphers) = UNION {Members(g.ciphers) : g \in Members(protocol_ciphers)}
    BY DEF Flat, Grouped
  <2>3. pc = "ciphers" \/ protocol_ciphers # <<>> => Scanning
    BY DEF Phase, Scanning
  <2> QED BY <2>1, <2>2, <2>3 DEF ReportConsistent, Sorted, Tally
<1> QED BY <1>1, CountsAddUp, Phases, PTL

-----------------------------------------------------------------------------
(* The rest of the type invariant *)

LEMMA RejectedBound ==
  ASSUME IInv, Typed, Phase, Tally
  PROVE  rejected_ciphers_count \in 0..Len(ALL) * Len(Table)
<1> DEFINE b == Len(Table)
<1>1. Len(ALL) = 6
  BY DEF ALL
<1>2. b \in Nat
  BY TableRows
<1>3. rejected_ciphers_count \in Nat
  BY DEF Tally
<1>4. CASE Scanning
  <2>1. Tested \in Seq(Protocol) /\ Len(Tested) \in Nat /\ Len(Tested) <= 6
    <3>1. ProtosToTest \in Seq(Protocol) /\ Len(ProtosToTest) \in Nat /\ Len(ProtosToTest) <= 6
      BY ToTest DEF IInv
    <3>2. Len(todo) \in Nat
      <4>1. todo \in Seq(Protocol)
        BY DEF Typed
      <4> QED BY <4>1
    <3> DEFINE n == Len(ProtosToTest) - Len(todo)
    <3>3. n \in Int /\ n <= Len(ProtosToTest)
      BY <3>1, <3>2
    <3>4. Tested = SubSeq(ProtosToTest, 1, n)
      BY DEF Tested
    <3> HIDE DEF n
    <3>5. /\ SubSeq(ProtosToTest, 1, n) \in Seq(Protocol) /\ Len(SubSeq(ProtosToTest, 1, n)) \in Nat
          /\ Len(SubSeq(ProtosToTest, 1, n)) <= Len(ProtosToTest)
      BY <3>1, <3>3
    <3> QED BY <3>1, <3>4, <3>5
  <2>2. Tries(Tested) \in Seq(Nat) /\ Len(Tries(Tested)) = Len(Tested)
    <3>1. \A i \in 1..Len(Tested) : Len(Candidates[Tested[i]]) \in Nat
      BY <2>1, CandidateRows
    <3> QED BY <2>1, <3>1 DEF Tries
  <2>3. \A i \in 1..Len(Tested) : Tries(Tested)[i] <= b
    BY <2>1, CandidateRows DEF Tries
  <2> HIDE DEF b
  <2>4. Total(Tries(Tested)) \in Nat /\ Total(Tries(Tested)) <= Len(Tested) * b
    BY <1>2, <2>2, <2>3, TotalBound, TotalIsNat
  <2>5. Len(Tested) * b <= 6 * b
    BY <1>2, <2>1
  <2>6. Total(Sizes(protocol_ciphers)) \in Nat
    <3>1. protocol_ciphers \in Seq(Group)
      BY DEF Typed
    <3>2. Sizes(protocol_ciphers) \in Seq(Nat)
      BY <3>1 DEF Sizes, Group
    <3> QED BY <3>2, TotalIsNat
  <2>7. rejected_ciphers_count + Total(Sizes(protocol_ciphers)) = Total(Tries(Tested))
    BY <1>4 DEF Tally, Listed, Tried, Sizes, Tries
  <2>8. rejected_ciphers_count <= 6 * b /\ 6 * b \in Nat
    <3>1. Len(Tested) * b \in Nat
      BY <1>2, <2>1
    <3> QED BY <1>2, <1>3, <2>4, <2>5, <2>6, <2>7, <3>1
  <2> QED BY <1>1, <1>3, <2>8 DEF b
<1>5. CASE ~Scanning
  <2>1. rejected_ciphers_count = 0
    BY <1>5 DEF Phase
  <2> QED BY <1>1, <1>2, <2>1
<1> QED BY <1>4, <1>5

(* A report either has findings or has one of the two best grades. *)
LEMMA ReportTyped ==
  ASSUME Phase
  PROVE  /\ \A r \in report : r.findings # {} \/ r.rating \in {"Recommended", "Secure"}
         /\ Cardinality(report) <= 1
<1> DEFINE ps == Members(protocol_results)
           cs == Members(supported_ciphers)
           fs == evaluate_vulnerabilities(ps, cs, CertReport)
<1>1. Conclusion.findings = fs /\ Conclusion.rating = compute_overall_rating(ps, cs, fs)
  BY DEF Conclusion
<1>2. \A f \in fs : RatingIsVulnerable(f.rating)
  BY FindingsAreSevere
<1> HIDE DEF fs, ps, cs
<1>3. fs = {} => compute_overall_rating(ps, cs, fs) \in {"Recommended", "Secure"}
  BY <1>2, OverallRating
<1>4. report = {Conclusion} \/ report = {}
  BY DEF Phase
<1>5. Cardinality({Conclusion}) = 1 /\ Cardinality({}) = 0
  BY FS_Singleton, FS_EmptySet
<1> QED BY <1>1, <1>3, <1>4, <1>5

(***************************************************************************)
(* The state stays what it is declared to be.                              *)
(***************************************************************************)
THEOREM TypeCorrect == Spec => []TypeOK
<1>1. IInv /\ Typed /\ Phase /\ Tally => TypeOK
  <2> SUFFICES ASSUME IInv, Typed, Phase, Tally PROVE TypeOK
    OBVIOUS
  <2>1. protocol_results \in
          Seq([protocol : Protocol, supported : BOOLEAN, rating : SecurityRating])
    <3>1. \A p \in Protocol : default_rating(p) \in SecurityRating
      BY TheProtocols, TheRatings DEF default_rating
    <3>2. "Recommended" \in SecurityRating
      BY TheRatings
    <3> DEFINE All == [protocol : Protocol, supported : BOOLEAN, rating : SecurityRating]
    <3>3. Results \subseteq All
      BY <3>1, <3>2 DEF Results, ProtocolResult
    <3>4. protocol_results \in Seq(Results)
      BY DEF IInv, ResultsInv
    <3> HIDE DEF All
    <3>5. protocol_results \in Seq(All)
      BY <3>3, <3>4
    <3> QED BY <3>5 DEF All
  <2>2. /\ server \in Servers /\ opts \in Options /\ faults \in 0..MaxFaults
        /\ pc \in {"connect", "protocols", "fetch", "ciphers", "preference1",
                   "preference2", "assess", "done", "failed"}
        /\ todo \in Seq(Protocol)
        /\ captured_certs \in Option(server.names \cup {"default", Misread})
        /\ supported_ciphers \in Seq(Suites)
        /\ protocol_ciphers \in Seq([protocol : Protocol, ciphers : Seq(Suites)])
        /\ sel1 \in Option({c.id : c \in Suites})
        /\ server_cipher_pref \in Option({"enforced", "client order"})
    BY DEF IInv, Typed, Group, Ids
  <2>3. rejected_ciphers_count \in 0..Len(ALL) * Len(Table)
    BY RejectedBound
  <2> QED BY <2>1, <2>2, <2>3, ReportTyped DEF TypeOK
<1> QED BY <1>1, Invariance, StaysTyped, Phases, CountsAddUp, PTL

-----------------------------------------------------------------------------
(* What a scan finds when no exchange fails *)

LEMMA AnswerOf ==
  ASSUME NEW s, NEW hello, NEW v \in Version(s, hello), NEW c \in Selected(s, hello, v)
  PROVE  \E a \in Answers(s, hello) : a.version = v /\ a.suite = c.id
<1> DEFINE answer(w, d) ==
             [version |-> w, suite |-> d.id,
              certificate |-> IF w = "Tls13" THEN {} ELSE {CertificateFor(s, hello.name)}]
           of(w) == {answer(w, d) : d \in Selected(s, hello, w)}
<1>1. Answers(s, hello) = UNION {of(w) : w \in Version(s, hello)}
  BY Zenon DEF Answers
<1>2. answer(v, c) \in of(v)
  OBVIOUS
<1>3. answer(v, c).version = v /\ answer(v, c).suite = c.id
  OBVIOUS
<1> HIDE DEF answer, of
<1>4. answer(v, c) \in Answers(s, hello)
  BY <1>1, <1>2
<1> QED BY <1>3, <1>4

(* A server that speaks a protocol answers the probe of it. *)
LEMMA ProbeIsAnswered ==
  ASSUME IInv, NEW p \in Protocol, Speaks(server, p)
  PROVE  \E a \in ProbeAnswer(p) : a.version = p
<1>1. server.versions \subseteq Protocol /\ server.suites \subseteq Suites /\ p \in server.versions
  BY ServersAssumption DEF IInv, Speaks
<1>2. CASE p = "Ssl2"
  <2> DEFINE a == [version |-> "Ssl2", certificate |-> {Misread}]
  <2>1. a \in ProbeAnswer(p)
    BY <1>1, <1>2 DEF ProbeAnswer
  <2> QED BY <1>2, <2>1
<1>3. CASE p # "Ssl2"
  <2> DEFINE hello == Hello(p, Offers[p], sni)
  <2>1. PICK c \in server.suites : UsableAt(c, p)
    BY <1>3 DEF Speaks
  <2>2. c \in Suites /\ IsOffered(c, p)
    BY <1>1, <2>1 DEF UsableAt, IsOffered
  <2>3. hello.offered = Offers[p] /\ Version(server, hello) = {p}
    BY <1>1, <1>3, VersionAsked DEF Hello
  <2> HIDE DEF hello
  <2>4. hello.offered \in Seq(Suites) /\ c \in Members(hello.offered) /\ c \in Members(Table)
    BY <2>2, <2>3, OfferedRows DEF Suites
  <2>5. PICK d : d \in Selected(server, hello, p)
    BY <2>1, <2>4, SomeSelected
  <2>6. PICK b \in Answers(server, hello) : b.version = p
    BY <2>3, <2>5, AnswerOf
  <2> DEFINE a == [version |-> b.version, certificate |-> b.certificate]
  <2>7. a \in ProbeAnswer(p)
    BY <1>3, Zenon DEF ProbeAnswer, hello
  <2>8. a.version = p
    BY <2>6
  <2> QED BY <2>7, <2>8
<1> QED BY <1>2, <1>3

(* The protocols whose suites are still to be scanned, and still to probe. *)
Pending(phase) == IF pc = phase THEN Members(todo) ELSE {}

AllProbed ==
  faults = 0 /\ pc \notin {"connect", "failed"} =>
    \A p \in Members(ProtocolsToProbe) :
      Speaks(server, p) => p \in Active \cup Pending("protocols")

AllTried ==
  faults = 0 /\ Scanning =>
    \A p \in Active \ ({"Ssl2"} \cup Pending("ciphers")) :
      \A c \in server.suites : UsableAt(c, p) => c \in Members(supported_ciphers)

LEMMA FaultsCount ==
  ASSUME Typed
  PROVE  faults \in Nat
<1>1. faults \in 0..MaxFaults
  BY DEF Typed
<1> QED BY <1>1, MaxFaultsAssumption

LEMMA NoFaultMeansAnswer ==
  ASSUME NEW answer, NEW got, Exchange(answer, got), faults \in Nat, faults' = 0
  PROVE  got = answer /\ faults = 0
BY DEF Exchange

LEMMA AllProbedStep ==
  ASSUME IInv, Typed, AllProbed, [Next]_vars
  PROVE  AllProbed'
<1>1. server' = server /\ opts' = opts /\ ProtocolsToProbe' = ProtocolsToProbe
  BY ServerStays DEF ProtocolsToProbe
<1>2. CASE ProbeProtocol
  <2> DEFINE p == Head(todo)
  <2>1. todo \in Seq(Protocol) /\ todo # <<>> /\ pc = "protocols" /\ todo' = Tail(todo)
    BY <1>2 DEF ProbeProtocol, Typed
  <2>2. p \in Protocol /\ Members(todo) = {p} \cup Members(todo')
    BY <2>1, MembersHeadTail
  <2>3. PICK got \in {ProbeAnswer(p), {}} :
          /\ Exchange(ProbeAnswer(p), got)
          /\ \E outcome \in Outcomes(p, got) :
               protocol_results' = Append(protocol_results, ProtocolResult(p, outcome.supported))
    BY <1>2 DEF ProbeProtocol, WithResult
  <2>4. PICK outcome \in Outcomes(p, got) :
          protocol_results' = Append(protocol_results, ProtocolResult(p, outcome.supported))
    BY <2>3
  <2>5. outcome.supported = \E a \in got : IsMatch(p, a.version)
    BY DEF Outcomes
  <2>6. Active' = Active \cup (IF outcome.supported THEN {p} ELSE {})
    BY <2>2, <2>4, <2>5, NextActive DEF IInv
  <2> SUFFICES ASSUME faults' = 0, NEW q \in Members(ProtocolsToProbe), Speaks(server, q),
                      q \notin Active'
               PROVE  q \in Pending("protocols")'
    BY <1>1 DEF AllProbed
  <2>7. got = ProbeAnswer(p) /\ faults = 0
    BY <2>3, NoFaultMeansAnswer, FaultsCount
  <2>8. q \in Members(todo)
    BY <2>1, <2>6, <2>7 DEF AllProbed, Pending
  <2>9. q # p
    <3> SUFFICES ASSUME q = p PROVE outcome.supported
      BY <2>6
    <3> QED BY <2>2, <2>5, <2>7, ProbeIsAnswered DEF IsMatch
  <2>10. q \in Members(todo')
    BY <2>2, <2>8, <2>9
  <2>11. pc' = "protocols"
    <3>1. todo' # <<>>
      BY <2>10, EmptyMembers
    <3> QED BY <1>2, <2>1, <3>1, NextVisit DEF ProbeProtocol
  <2> QED BY <2>10, <2>11 DEF Pending
<1>3. CASE Connect
  <2>1. pc' # "failed" => pc' = "protocols" /\ todo' = ProtocolsToProbe
    BY <1>3 DEF Connect
  <2> QED BY <1>1, <2>1 DEF AllProbed, Pending
<1>4. CASE ~ProbeProtocol /\ ~Connect
  <2>1. pc = "protocols" => UNCHANGED vars
    BY <1>4 DEF Next, Terminating, FetchCerts, ScanCiphers, PreferenceFirst, PreferenceSecond, Assess
  <2>2. CASE UNCHANGED vars
    BY <1>1, <2>2 DEF vars, probeVars, AllProbed, Active, Pending
  <2>3. CASE pc # "protocols"
    <3>1. Active' = Active
      BY <2>3, ResultsStay
    <3>2. pc' \notin {"connect", "failed"} => pc \notin {"connect", "failed"}
      BY <1>4 DEF Next, Terminating, FetchCerts, ScanCiphers, PreferenceFirst, PreferenceSecond, Assess, vars
    <3>3. faults' = 0 => faults = 0
      <4>1. faults \in Nat
        BY FaultsCount
      <4>2. CASE ScanCiphers
        <5>1. \E lost \in Nat : faults' = faults + lost
          BY <4>2, ScanKeeps DEF Keeps
        <5> QED BY <4>1, <5>1
      <4>3. CASE PreferenceFirst \/ PreferenceSecond
        <5>1. UNCHANGED faults \/ faults' = faults + 1
          BY <4>3 DEF PreferenceFirst, PreferenceSecond, Exchange
        <5> QED BY <4>1, <5>1
      <4>4. CASE UNCHANGED faults
        BY <4>4
      <4> QED BY <1>4, <4>2, <4>3, <4>4 DEF Next, Terminating, FetchCerts, Assess, vars
    <3> QED BY <1>1, <2>3, <3>1, <3>2, <3>3 DEF AllProbed, Pending
  <2> QED BY <2>1, <2>2, <2>3
<1> QED BY <1>2, <1>3, <1>4

(* A suite that the server has, alone in a hello it can use it in. *)
LEMMA LoneSuiteAccepted ==
  ASSUME IInv, NEW p \in server.versions \ {"Ssl2"}, NEW i \in 1..Len(Candidates[p]),
         Candidates[p][i] \in server.suites, UsableAt(Candidates[p][i], p)
  PROVE  i \in Accepted(Candidates[p], p)
<1> DEFINE c == Candidates[p][i]
           hello == Hello(p, <<c>>, sni)
<1>1. server.versions \subseteq Protocol /\ server.suites \subseteq Suites
  BY ServersAssumption DEF IInv
<1>2. Version(server, hello) = {p}
  BY <1>1, VersionAsked
<1>3. hello.offered = <<c>>
  BY DEF Hello
<1>4. c \in server.suites /\ UsableAt(c, p) /\ c \in Suites
  BY <1>1
<1> HIDE DEF c, hello
<1>5. <<c>> \in Seq(Suites) /\ Len(<<c>>) = 1 /\ <<c>>[1] = c
  BY <1>4
<1>6. c \in Members(hello.offered) /\ hello.offered \in Seq(Suites)
  BY <1>3, <1>5 DEF Members
<1>7. PICK d : d \in Selected(server, hello, p)
  BY <1>4, <1>6, SomeSelected DEF Suites
<1>8. d = c
  <2>1. PICK j \in 1..Len(hello.offered) : hello.offered[j] = d
    BY <1>7, SelectedIsShared
  <2> QED BY <1>3, <1>5, <2>1
<1>9. \E a \in Answers(server, hello) : a.suite = c.id
  BY <1>2, <1>7, <1>8, AnswerOf
<1> QED BY <1>9 DEF Accepted, hello, c

(* The suites usable at a protocol are among its candidates. *)
LEMMA UsableIsCandidate ==
  ASSUME NEW p \in Protocol \ {"Ssl2"}, NEW c \in Suites, UsableAt(c, p)
  PROVE  \E i \in 1..Len(Candidates[p]) : Candidates[p][i] = c
<1>1. IsCandidate(c, p)
  BY TheProtocols DEF UsableAt, IsCandidate
<1>2. c \in Members(Candidates[p])
  BY <1>1, CandidateRows
<1> QED BY <1>2 DEF Members

LEMMA AllTriedScan ==
  ASSUME IInv, Typed, Flat, Itinerary, AllTried, ScanCiphers, faults' = 0,
         NEW p \in Active \ {"Ssl2"}, p \in Members(todo) => p \notin Members(Tail(todo)),
         NEW c \in server.suites, UsableAt(c, p)
  PROVE  c \in Members(supported_ciphers')
<1> DEFINE q == Head(todo)
<1>1. PICK kept : Keeps(q, kept)
  BY ScanKeeps
<1> DEFINE found == Found(q, kept)
           all   == supported_ciphers \o Unseen(supported_ciphers, found)
<1>2. /\ found \in Seq(Suites) /\ Members(found) = {Candidates[q][i] : i \in kept}
      /\ supported_ciphers' = all
      /\ \E lost \in Nat : /\ faults' = faults + lost
                           /\ lost = 0 => kept = Accepted(Candidates[q], q)
  BY <1>1 DEF Keeps
<1>3. q \in Protocol /\ DistinctIds(found)
  BY ScanKeeps, FoundDistinct
<1> HIDE DEF found
<1>4. faults = 0 /\ kept = Accepted(Candidates[q], q)
  BY <1>2, FaultsCount
<1>5. supported_ciphers \in Seq(Suites)
  BY DEF Typed
<1>6. Members(all) = Members(supported_ciphers) \cup Members(found)
  BY <1>2, <1>3, <1>5, Merged DEF Flat
<1> HIDE DEF all
<1>7. todo \in Seq(Protocol) /\ todo # <<>> /\ pc = "ciphers"
  BY DEF ScanCiphers, Typed
<1>8. Members(todo) = {q} \cup Members(Tail(todo))
  BY <1>7, MembersHeadTail
<1>9. CASE p = q
  <2>1. p \in server.versions /\ c \in Suites
    BY ActiveIsSpoken, ServersAssumption DEF IInv, Speaks
  <2>2. PICK i \in 1..Len(Candidates[p]) : Candidates[p][i] = c
    BY <1>3, <1>9, <2>1, UsableIsCandidate
  <2>3. i \in Accepted(Candidates[p], p)
    BY <2>1, <2>2, LoneSuiteAccepted
  <2>4. c \in Members(found)
    BY <1>2, <1>4, <1>9, <2>2, <2>3
  <2> QED BY <1>2, <1>6, <2>4
<1>10. CASE p # q
  <2>1. p \notin Members(todo)
    BY <1>8, <1>10
  <2>2. c \in Members(supported_ciphers)
    BY <1>4, <1>7, <2>1 DEF AllTried, Scanning, Pending
  <2> QED BY <1>2, <1>6, <2>2
<1> QED BY <1>9, <1>10

LEMMA AllTriedStep ==
  ASSUME IInv, Typed, Phase, Itinerary, Flat, AllTried, [Next]_vars
  PROVE  AllTried'
<1>1. server' = server /\ opts' = opts
  BY ServerStays
<1>2. CASE ScanCiphers
  <2>1. Active' = Active
    BY <1>2, ResultsStay DEF ScanCiphers
  <2>2. todo \in Seq(Protocol) /\ todo # <<>> /\ todo' = Tail(todo)
    BY <1>2 DEF ScanCiphers, Typed
  <2>3. Members(todo') = {} \/ pc' = "ciphers"
    <3>1. todo' # <<>> => pc' = "ciphers"
      BY <1>2, <2>2, NextVisit DEF ScanCiphers
    <3> QED BY <3>1, EmptyMembers
  <2> SUFFICES ASSUME faults' = 0, NEW p \in Active \ {"Ssl2"}, p \notin Pending("ciphers")',
                      NEW c \in server.suites, UsableAt(c, p)
               PROVE  c \in Members(supported_ciphers')
    BY <1>1, <2>1 DEF AllTried
  <2>4. p \notin Members(Tail(todo))
    BY <2>2, <2>3 DEF Pending
  <2> QED BY <1>2, <2>4, AllTriedScan
<1>3. CASE FetchCerts
  <2>1. Active' = Active
    BY <1>3, ResultsStay DEF FetchCerts
  <2> SUFFICES ASSUME Scanning', NEW p \in Active PROVE p \in Pending("ciphers")'
    BY <1>1, <2>1 DEF AllTried
  <2>2. pc' = "ciphers" /\ todo' = ProtosToTest
    BY <1>1, <1>3 DEF FetchCerts, Scanning
  <2>3. Members(ProtosToTest) = Active
    BY ToTest DEF IInv
  <2> QED BY <2>2, <2>3 DEF Pending
<1>4. CASE ~ScanCiphers /\ ~FetchCerts
  <2>1. supported_ciphers' = supported_ciphers
    BY <1>4, SuitesStay
  <2>2. Scanning' => Scanning /\ todo' = todo /\ pc # "protocols" /\ (pc = "ciphers" <=> pc' = "ciphers")
    BY <1>1, <1>4 DEF Next, Terminating, Connect, ProbeProtocol, PreferenceFirst, PreferenceSecond,
       Assess, vars, Scanning
  <2>3. Scanning' => Active' = Active /\ Pending("ciphers")' = Pending("ciphers")
    BY <2>2, ResultsStay DEF Pending
  <2>4. Scanning' /\ faults' = 0 => faults = 0
    <3>1. Scanning' => UNCHANGED faults \/ faults' = faults + 1
      BY <1>4 DEF Next, Terminating, Connect, ProbeProtocol, PreferenceFirst, PreferenceSecond,
         Assess, vars, Scanning, Exchange
    <3> QED BY <3>1, FaultsCount
  <2> QED BY <1>1, <2>1, <2>2, <2>3, <2>4 DEF AllTried
<1> QED BY <1>2, <1>3, <1>4

(***************************************************************************)
(* While no exchange has failed, every protocol of the server that was to  *)
(* be probed is reported or still to be probed, and every suite it can use *)
(* at a protocol found is listed unless that protocol is still to be       *)
(* tested.                                                                 *)
(***************************************************************************)
THEOREM NothingMissed == Spec => [](AllProbed /\ AllTried)
<1>1. Init => AllProbed /\ AllTried
  BY DEF Init, AllProbed, AllTried, Scanning
<1>2. IInv /\ Typed /\ Phase /\ Itinerary /\ Flat /\ AllProbed /\ AllTried /\ [Next]_vars
        => AllProbed' /\ AllTried'
  BY AllProbedStep, AllTriedStep
<1> QED BY <1>1, <1>2, Invariance, StaysTyped, Phases, CountsAddUp, PTL DEF Spec

(***************************************************************************)
(* When no exchange fails, a full scan finds every protocol the server     *)
(* completes and every suite it would negotiate in a TLS hello.            *)
(***************************************************************************)
THEOREM FullScansAreComplete == Spec => []FullScanComplete
<1>1. IInv /\ Typed /\ SuitesSound /\ AllProbed /\ AllTried => FullScanComplete
  <2> SUFFICES ASSUME IInv, Typed, SuitesSound, AllProbed, AllTried, Finished, Full, faults = 0
               PROVE  /\ Active = {p \in Protocol : Speaks(server, p)}
                      /\ Members(supported_ciphers) = Negotiable
    BY DEF FullScanComplete
  <2>1. Active \subseteq {p \in Protocol : Speaks(server, p)}
    BY ToTest, ActiveIsSpoken DEF IInv
  <2>2. Members(ProtocolsToProbe) = Protocol
    BY DEF Full, ProtocolsToProbe, Members, Protocol
  <2>3. {p \in Protocol : Speaks(server, p)} \subseteq Active
    BY <2>2 DEF AllProbed, Finished, Pending
  <2>4. ASSUME NEW c \in Negotiable PROVE c \in Members(supported_ciphers)
    <3>1. PICK v \in server.versions \ {"Ssl2"} : c \in server.suites /\ UsableAt(c, v)
      BY DEF Negotiable
    <3>2. v \in Active
      BY <2>3, <3>1, ServersAssumption DEF IInv, Speaks
    <3> QED BY <3>1, <3>2 DEF AllTried, Scanning, Finished, Full, Pending
  <2> QED BY <2>1, <2>3, <2>4 DEF SuitesSound
<1> QED BY <1>1, Invariance, StaysTyped, ListedAreNegotiable, NothingMissed, PTL

-----------------------------------------------------------------------------
(* What two probes with the same two suites tell of the server's order *)

LEMMA VersionIgnoresSuites ==
  ASSUME NEW s, NEW p, NEW name, NEW suites1, NEW suites2
  PROVE  Version(s, Hello(p, suites1, name)) = Version(s, Hello(p, suites2, name))
<1>1. Hello(p, suites1, name).version = p /\ Hello(p, suites2, name).version = p
  BY DEF Hello
<1> QED BY <1>1, Zenon DEF Version

(* A server with an order of its own does not look at that of the hello. *)
LEMMA OwnOrder ==
  ASSUME NEW s, s.ordered, NEW c, NEW d, NEW p, NEW name, NEW v
  PROVE  Selected(s, Hello(p, <<c, d>>, name), v) = Selected(s, Hello(p, <<d, c>>, name), v)
<1> DEFINE common(hello) ==
             {i \in 1..Len(Table) : /\ UsableAt(Table[i], v)
                                    /\ Table[i] \in s.suites
                                    /\ \E j \in 1..Len(hello.offered) : hello.offered[j] = Table[i]}
           h1 == Hello(p, <<c, d>>, name)
           h2 == Hello(p, <<d, c>>, name)
<1>1. \A x : (\E j \in 1..Len(h1.offered) : h1.offered[j] = x) <=> x = c \/ x = d
  <2>1. h1.offered = <<c, d>>
    BY DEF Hello
  <2> HIDE DEF h1
  <2> QED BY <2>1
<1>2. \A x : (\E j \in 1..Len(h2.offered) : h2.offered[j] = x) <=> x = c \/ x = d
  <2>1. h2.offered = <<d, c>>
    BY DEF Hello
  <2> HIDE DEF h2
  <2> QED BY <2>1
<1> HIDE DEF h1, h2
<1>3. common(h1) = common(h2)
  BY <1>1, <1>2
<1>4. \A hello : Selected(s, hello, v) =
                   {Table[i] : i \in {k \in common(hello) : \A j \in common(hello) : k <= j}}
  BY DEF Selected
<1> HIDE DEF common
<1>5. Selected(s, h1, v) = Selected(s, h2, v)
  BY <1>3, <1>4
<1> QED BY <1>5 DEF h1, h2

(* A server without takes the first of two suites it can use. *)
LEMMA ClientOrder ==
  ASSUME NEW s, ~s.ordered, NEW c \in s.suites, NEW d \in s.suites, NEW p, NEW name, NEW v,
         UsableAt(c, v), UsableAt(d, v)
  PROVE  Selected(s, Hello(p, <<c, d>>, name), v) = {c}
<1> DEFINE hello  == Hello(p, <<c, d>>, name)
           common == {i \in 1..Len(hello.offered) :
                        /\ UsableAt(hello.offered[i], v)
                        /\ hello.offered[i] \in s.suites
                        /\ \E j \in 1..Len(hello.offered) : hello.offered[j] = hello.offered[i]}
<1>1. hello.offered = <<c, d>>
  BY DEF Hello
<1>2. Selected(s, hello, v) = {hello.offered[i] : i \in {k \in common : \A j \in common : k <= j}}
  BY DEF Selected
<1> HIDE DEF hello
<1>3. /\ Len(hello.offered) = 2 /\ hello.offered[1] = c /\ hello.offered[2] = d
  BY <1>1
<1>4. common = {1, 2}
  BY <1>3
<1> HIDE DEF common
<1>5. {k \in common : \A j \in common : k <= j} = {1}
  BY <1>4
<1>6. Selected(s, hello, v) = {c}
  BY <1>2, <1>3, <1>5
<1> QED BY <1>6 DEF hello

LEMMA OrderAnswers ==
  ASSUME NEW offered, NEW v, Version(server, Hello("Tls12", offered, sni)) = {v}
  PROVE  OrderAnswer(offered) = {c.id : c \in Selected(server, Hello("Tls12", offered, sni), v)}
<1> DEFINE hello == Hello("Tls12", offered, sni)
<1>1. \A a \in Answers(server, hello) : \E c \in Selected(server, hello, v) : a.suite = c.id
  BY DEF Answers
<1>2. \A c \in Selected(server, hello, v) : \E a \in Answers(server, hello) : a.suite = c.id
  BY AnswerOf
<1> HIDE DEF hello
<1>3. {a.suite : a \in Answers(server, hello)} = {c.id : c \in Selected(server, hello, v)}
  BY <1>1, <1>2
<1> QED BY <1>3 DEF OrderAnswer, hello

(* The two answers differ exactly when the client's order is followed. *)
LEMMA TwoAnswersTell ==
  ASSUME IInv, NEW c \in server.suites, NEW d \in server.suites, c.id # d.id,
         NEW v \in Version(server, Hello("Tls12", <<>>, sni)), UsableAt(c, v), UsableAt(d, v)
  PROVE  OrderAnswer(<<c, d>>) = OrderAnswer(<<d, c>>) <=> server.ordered
<1>1. server.versions \subseteq Protocol
  BY ServersAssumption DEF IInv
<1>2. Version(server, Hello("Tls12", <<>>, sni)) = {v}
  BY <1>1, OneVersion
<1>3. /\ Version(server, Hello("Tls12", <<c, d>>, sni)) = {v}
      /\ Version(server, Hello("Tls12", <<d, c>>, sni)) = {v}
  BY <1>2, VersionIgnoresSuites
<1> DEFINE first == Selected(server, Hello("Tls12", <<c, d>>, sni), v)
           second == Selected(server, Hello("Tls12", <<d, c>>, sni), v)
<1>4. OrderAnswer(<<c, d>>) = {x.id : x \in first} /\ OrderAnswer(<<d, c>>) = {x.id : x \in second}
  BY <1>3, OrderAnswers
<1>5. server.ordered => first = second
  BY OwnOrder
<1>6. ~server.ordered => first = {c} /\ second = {d}
  BY ClientOrder
<1> HIDE DEF first, second
<1>7. CASE server.ordered
  BY <1>4, <1>5, <1>7
<1>8. CASE ~server.ordered
  <2>1. c.id \in OrderAnswer(<<c, d>>) /\ c.id \notin OrderAnswer(<<d, c>>)
    BY <1>4, <1>6, <1>8
  <2> QED BY <1>8, <2>1
<1> QED BY <1>7, <1>8

(***************************************************************************)
(* Before the second probe the first has been answered, for the first two  *)
(* suites of the list.                                                     *)
(***************************************************************************)
Asked ==
  pc = "preference2" =>
    /\ Len(supported_ciphers) > 1 /\ sel1 # {}
    /\ sel1 = OrderAnswer(<<supported_ciphers[1], supported_ciphers[2]>>)

LEMMA AskedStep ==
  ASSUME Asked, [Next]_vars
  PROVE  Asked'
<1> SUFFICES ASSUME pc' = "preference2"
             PROVE  /\ Len(supported_ciphers') > 1 /\ sel1' # {}
                    /\ sel1' = OrderAnswer(<<supported_ciphers[1], supported_ciphers[2]>>)'
  BY DEF Asked
<1>1. server' = server /\ opts' = opts
  BY ServerStays
<1>2. PreferenceFirst \/ (pc = "preference2" /\ UNCHANGED vars)
  BY DEF Next, Terminating, Connect, ProbeProtocol, FetchCerts, ScanCiphers, PreferenceSecond, Assess, vars
<1>3. supported_ciphers' = supported_ciphers
  BY <1>2 DEF PreferenceFirst, vars, cipherVars
<1> DEFINE offered == <<supported_ciphers[1], supported_ciphers[2]>>
<1>4. OrderAnswer(offered)' = OrderAnswer(offered)
  BY <1>1, <1>3, NameStays DEF OrderAnswer
<1>5. CASE PreferenceFirst
  BY <1>3, <1>4, <1>5 DEF PreferenceFirst
<1>6. CASE pc = "preference2" /\ UNCHANGED vars
  BY <1>3, <1>4, <1>6 DEF Asked, vars, prefVars
<1> QED BY <1>2, <1>5, <1>6

(* The second probe offers the two suites the first one was about. *)
LEMMA VerdictIsTrue ==
  ASSUME IInv, Typed, Flat, SuitesSound, Asked, ComparableAtTls12, PreferenceSecond
  PROVE  server_cipher_pref' # {} =>
           server_cipher_pref' = {IF server.ordered THEN "enforced" ELSE "client order"}
<1> DEFINE c == supported_ciphers[1]
           d == supported_ciphers[2]
<1>1. /\ Len(supported_ciphers) > 1 /\ sel1 # {}
      /\ sel1 = OrderAnswer(<<c, d>>)
  BY DEF Asked, PreferenceSecond
<1>2. Len(supported_ciphers) \in Nat
  <2>1. supported_ciphers \in Seq(Suites)
    BY DEF Typed
  <2> QED BY <2>1
<1>3. 1 \in 1..Len(supported_ciphers) /\ 2 \in 1..Len(supported_ciphers)
  BY <1>1, <1>2
<1>4. c.id # d.id
  BY <1>3 DEF Flat, DistinctIds
<1>5. c \in server.suites /\ d \in server.suites
  <2>1. c \in Members(supported_ciphers) /\ d \in Members(supported_ciphers)
    BY <1>3 DEF Members
  <2> HIDE DEF c, d
  <2> QED BY <2>1 DEF SuitesSound, Negotiable
<1>6. PICK v \in Version(server, Hello("Tls12", <<>>, sni)) : UsableAt(c, v) /\ UsableAt(d, v)
  BY DEF ComparableAtTls12
<1>7. PICK got \in {OrderAnswer(<<d, c>>), {}} :
        server_cipher_pref' = {IF sel1 = got THEN "enforced" ELSE "client order" : x \in got}
  BY DEF PreferenceSecond, SecondOffer
<1> HIDE DEF c, d
<1>8. sel1 = OrderAnswer(<<d, c>>) <=> server.ordered
  BY <1>1, <1>4, <1>5, <1>6, TwoAnswersTell
<1>9. got = {} => server_cipher_pref' = {}
  BY <1>7
<1>10. got # {} => server_cipher_pref' = {IF sel1 = got THEN "enforced" ELSE "client order"}
  BY <1>7
<1> QED BY <1>7, <1>8, <1>9, <1>10

LEMMA TruthfulStep ==
  ASSUME IInv, Typed, Phase, Flat, SuitesSound, Asked, PreferenceTruthfulAtTls12, [Next]_vars
  PROVE  PreferenceTruthfulAtTls12'
<1> SUFFICES ASSUME server_cipher_pref' # {}, ComparableAtTls12'
             PROVE  OrderIsAsReported'
  BY DEF PreferenceTruthfulAtTls12
<1>1. server' = server /\ opts' = opts
  BY ServerStays
<1>2. ~ScanCiphers
  BY DEF ScanCiphers, Phase, prefVars
<1>3. supported_ciphers' = supported_ciphers
  BY <1>2, SuitesStay
<1>4. ComparableAtTls12
  BY <1>1, <1>3, NameStays DEF ComparableAtTls12
<1>5. CASE PreferenceSecond
  <2>1. server_cipher_pref' = {IF server.ordered THEN "enforced" ELSE "client order"}
    BY <1>4, <1>5, VerdictIsTrue
  <2> QED BY <1>1, <2>1 DEF OrderIsAsReported
<1>6. CASE ~PreferenceSecond
  <2>1. server_cipher_pref' = server_cipher_pref
    BY <1>2, <1>6 DEF Next, Terminating, Connect, ProbeProtocol, FetchCerts, PreferenceFirst, Assess,
           vars, prefVars
  <2> QED BY <1>1, <1>4, <2>1 DEF PreferenceTruthfulAtTls12, OrderIsAsReported
<1> QED BY <1>5, <1>6

(***************************************************************************)
(* What is reported of the server's order is so in every mode, with any    *)
(* failures, if the TLS 1.2 hello that asks can negotiate both suites.     *)
(***************************************************************************)
THEOREM OrderIsTruthful == Spec => []PreferenceTruthfulAtTls12
<1>1. Init => Asked /\ PreferenceTruthfulAtTls12
  BY DEF Init, Asked, PreferenceTruthfulAtTls12
<1>2. IInv /\ Typed /\ Phase /\ Flat /\ SuitesSound /\ Asked /\ PreferenceTruthfulAtTls12 /\ [Next]_vars
        => Asked' /\ PreferenceTruthfulAtTls12'
  BY AskedStep, TruthfulStep
<1> QED BY <1>1, <1>2, Invariance, StaysTyped, Phases, CountsAddUp, ListedAreNegotiable, PTL DEF Spec

-----------------------------------------------------------------------------
(* What the report of a finished scan rests on *)

Evaluated == evaluate_vulnerabilities(Members(protocol_results), Members(supported_ciphers), CertReport)

LEMMA RatingTells ==
  /\ Conclusion.rating \in {"Recommended", "Secure"} => Evaluated = {}
  /\ RatingIsVulnerable(Conclusion.rating) => Evaluated # {}
<1>1. \A f \in Evaluated : RatingIsVulnerable(f.rating)
  BY FindingsAreSevere DEF Evaluated
<1>2. Conclusion.rating =
        compute_overall_rating(Members(protocol_results), Members(supported_ciphers), Evaluated)
  BY DEF Conclusion, Evaluated
<1>3. Conclusion.rating \in {"Recommended", "Secure"} <=> Evaluated = {}
  BY <1>1, <1>2, OverallRating
<1> QED BY <1>3 DEF RatingIsVulnerable

LEMMA RowRated ==
  ASSUME NEW c \in Suites
  PROVE  RatedByRule(c)
<1>1. c \in Members(ALL_CIPHERS)
  BY TableAssumption DEF Suites, Members
<1> QED BY <1>1, TheTable

(* A certificate for the name in force gives no finding. *)
LEMMA OwnCertificate == LeafFindings(LeafReport(Certificate(sni), sni, Now)) = {}
<1> DEFINE cert == Certificate(sni)
           leaf == LeafReport(cert, sni, Now)
<1>1. /\ cert.names = {sni} /\ cert.not_before = Now /\ cert.not_after = Now + 8640000
      /\ cert.sig = "ECDSA-with-SHA256" /\ cert.key = "ECDSA" /\ cert.anchored = TRUE
  BY NowAssumption DEF Certificate, SecondsPerDay
<1> HIDE DEF cert
<1>2. ~is_expired(cert, Now) /\ ~is_not_yet_valid(cert, Now)
  BY <1>1, NowAssumption DEF is_expired, is_not_yet_valid
<1>3. days_remaining(cert, Now) = 100
  <2>1. cert.not_after - Now = 8640000
    BY <1>1, NowAssumption
  <2>2. 8640000 \div 86400 = 100
    OBVIOUS
  <2> QED BY <2>1, <2>2 DEF days_remaining, TruncDiv, SecondsPerDay
<1>4. sig_alg_rating(cert) = "Recommended"
  BY <1>1 DEF sig_alg_rating
<1>5. ChainVerifies(cert, Now) /\ sni \in cert.names \cup {NotAName}
  BY <1>1, <1>2 DEF ChainVerifies, BrokenSignatures
<1>6. /\ leaf.is_expired = is_expired(cert, Now) /\ leaf.is_not_yet_valid = is_not_yet_valid(cert, Now)
      /\ leaf.days_remaining = days_remaining(cert, Now) /\ leaf.sig_alg_rating = sig_alg_rating(cert)
      /\ leaf.key_type = cert.key
      /\ leaf.trust_valid = (ChainVerifies(cert, Now) /\ sni \in cert.names \cup {NotAName})
  BY Zenon DEF LeafReport
<1> HIDE DEF leaf
<1>7. /\ ~leaf.is_expired /\ ~leaf.is_not_yet_valid /\ leaf.trust_valid
  BY <1>2, <1>5, <1>6, Zenon
<1>8. ~ExpiresSoon(leaf)
  <2>1. leaf.days_remaining = 100
    BY <1>3, <1>6
  <2> QED BY <2>1 DEF ExpiresSoon
<1>9. ~HasWeakRsaKey(leaf) /\ leaf.sig_alg_rating # "Critical"
  BY <1>1, <1>4, <1>6 DEF HasWeakRsaKey
<1>10. LeafFindings(leaf) = {}
  BY <1>7, <1>8, <1>9, Zenon DEF LeafFindings, When
<1> QED BY <1>10 DEF leaf, cert

LEMMA CertAlarm ==
  ASSUME NEW f \in CertFindings(CertReport)
  PROVE  \E n \in captured_certs \ {Misread} : n # sni
<1>1. PICK leaf \in CertReport : f \in LeafFindings(leaf)
  BY DEF CertFindings
<1>2. PICK n \in captured_certs : Certificate(n).parses /\ leaf = LeafReport(Certificate(n), sni, Now)
  BY DEF CertReport, parse_and_validate_chain
<1>3. n # sni
  BY <1>1, <1>2, OwnCertificate
<1>4. n # Misread
  BY <1>2 DEF Certificate
<1> QED BY <1>3, <1>4

(***************************************************************************)
(* A full scan without failed exchanges gives a server one of the two best *)
(* grades only if it has no obsolete protocol and no vulnerable suite.     *)
(***************************************************************************)
THEOREM GradesAreSound == Spec => []GradeSound
<1>1. IInv /\ Phase /\ FullScanComplete => GradeSound
  <2> SUFFICES ASSUME IInv, Phase, FullScanComplete, Finished, Full, faults = 0,
                      NEW r \in report, r.rating \in {"Recommended", "Secure"}
               PROVE  /\ \A p \in Protocol : Speaks(server, p) => ~is_obsolete(p)
                      /\ \A c \in Negotiable : ~SuiteIsVulnerable(c)
    BY DEF GradeSound
  <2>1. r = Conclusion
    BY DEF Phase, Finished
  <2>2. Evaluated = {}
    BY <2>1, RatingTells
  <2>3. ProtocolFindings(Members(protocol_results)) = {} /\ CipherFindings(Members(supported_ciphers)) = {}
    BY <2>2 DEF Evaluated, evaluate_vulnerabilities
  <2>4. Active = {p \in Protocol : Speaks(server, p)} /\ Members(supported_ciphers) = Negotiable
    BY DEF FullScanComplete
  <2>5. ASSUME NEW p \in Protocol, Speaks(server, p) PROVE ~is_obsolete(p)
    <3>1. PICK q \in Members(protocol_results) : q.supported /\ q.protocol = p
      BY <2>4, <2>5 DEF Active
    <3> QED BY <2>3, <3>1, ProtocolAlarm
  <2>6. ASSUME NEW c \in Negotiable PROVE ~SuiteIsVulnerable(c)
    <3>1. RatedByRule(c)
      BY RowRated, ServersAssumption DEF IInv, Negotiable
    <3> QED BY <2>3, <2>4, <3>1, SevereEnough
  <2> QED BY <2>5, <2>6
<1> QED BY <1>1, Invariance, Phases, FullScansAreComplete, PTL

(***************************************************************************)
(* No false alarm, in any mode and with any failures: a report below those *)
(* grades has an obsolete protocol, a vulnerable suite, or a certificate   *)
(* for another name to point to.                                           *)
(***************************************************************************)
THEOREM AlarmsHaveCause == Spec => []NoFalseAlarm
<1>1. IInv /\ Phase /\ SuitesSound => NoFalseAlarm
  <2> SUFFICES ASSUME IInv, Phase, SuitesSound, NEW r \in report, RatingIsVulnerable(r.rating)
               PROVE  \/ \E p \in Protocol : Speaks(server, p) /\ is_obsolete(p)
                      \/ \E c \in Negotiable : SuiteIsVulnerable(c)
                      \/ \E n \in captured_certs \ {Misread} : n # sni
    BY DEF NoFalseAlarm
  <2>1. r = Conclusion
    BY DEF Phase
  <2>2. PICK f : f \in Evaluated
    BY <2>1, RatingTells
  <2>3. CASE f \in ProtocolFindings(Members(protocol_results))
    <3>1. PICK q \in Members(protocol_results) : q.supported /\ is_obsolete(q.protocol)
      BY <2>3, ProtocolAlarm
    <3>2. Speaks(server, q.protocol)
      BY <3>1 DEF IInv, ResultsInv, Members
    <3>3. q.protocol \in Protocol
      BY <3>2, ServersAssumption DEF IInv, Speaks
    <3> QED BY <3>1, <3>2, <3>3
  <2>4. CASE f \in CipherFindings(Members(supported_ciphers))
    <3>1. PICK c \in Members(supported_ciphers) : Alarm(c)
      BY <2>4, CipherFindingsHaveCause
    <3>2. c \in Negotiable
      BY DEF SuitesSound
    <3>3. RatedByRule(c)
      BY <3>2, RowRated, ServersAssumption DEF IInv, Negotiable
    <3> QED BY <3>1, <3>2, <3>3, AlarmIsVulnerable
  <2>5. CASE f \in CertFindings(CertReport)
    BY <2>5, CertAlarm
  <2> QED BY <2>2, <2>3, <2>4, <2>5 DEF Evaluated, evaluate_vulnerabilities
<1> QED BY <1>1, Invariance, Phases, ListedAreNegotiable, PTL

-----------------------------------------------------------------------------
(* The composition with CipherScanSpec, and so with CipherScan *)

(* The scan of p's suites; faulty and answer are its own.  What it accepts *)
(* of its candidates is up to the server, and the same in either model.    *)
Scan(p, faulty, answer) ==
  INSTANCE CipherScanSpec WITH N <- Len(Candidates[p]), accepts <- Accepted(Candidates[p], p)

(* The candidates of p at the places that s lists. *)
SuitesAt(p, s) == [k \in 1..Len(s) |-> Candidates[p][s[k]]]

(* run_scan goes on with the answer of the scan of p: the suites found, by *)
(* their places, and the number of the others.                             *)
Takes(p, s, rejected) ==
  /\ pc = "ciphers" /\ p = Head(todo)
  /\ faults' = faults + (Cardinality(Accepted(Candidates[p], p)) - Len(s)) /\ faults' <= MaxFaults
  /\ rejected_ciphers_count' = rejected_ciphers_count + rejected
  /\ supported_ciphers' = supported_ciphers \o Unseen(supported_ciphers, SuitesAt(p, s))
  /\ protocol_ciphers' = (IF s = <<>> THEN protocol_ciphers
       ELSE Append(protocol_ciphers, [protocol |-> p, ciphers |-> SuitesAt(p, s)]))
  /\ todo' = Tail(todo)
  /\ pc' = (IF Len(todo) = 1 THEN "preference1" ELSE "ciphers")
  /\ UNCHANGED <<inputVars, probeVars, prefVars, report>>

LEMMA EnumerationCounts ==
  ASSUME NEW K \in SUBSET Int, NEW e, Enumerates(e, K)
  PROVE  e \in Seq(K) /\ Len(e) \in Nat /\ Cardinality(K) = Len(e)
<1>1. e \in Seq(K)
  BY DEF Enumerates
<1>2. Len(e) \in Nat /\ e \in [1..Len(e) -> K]
  BY <1>1
<1>3. ASSUME NEW i \in 1..Len(e), NEW j \in 1..Len(e), e[i] = e[j] PROVE i = j
  <2>1. e[i] \in Int /\ e[j] \in Int
    BY <1>2
  <2>2. ~(i < j) /\ ~(j < i)
    BY <1>3, <2>1 DEF Enumerates
  <2> QED BY <1>2, <2>2
<1>4. \A c \in K : \E i \in 1..Len(e) : e[i] = c
  BY DEF Enumerates
<1>5. e \in Bijection(1..Len(e), K)
  <2>1. DOMAIN e = 1..Len(e)
    BY <1>2
  <2>2. e \in Injection(1..Len(e), K)
    BY <1>2, <1>3, <2>1, Zenon DEF Injection, IsInjective
  <2>3. e \in Surjection(1..Len(e), K)
    BY <1>2, <1>4, Zenon DEF Surjection
  <2> QED BY <2>2, <2>3, Zenon DEF Bijection
<1>6. Cardinality(K) = Len(e)
  BY <1>2, <1>5, FS_CountingElements, Zenon DEF ExistsBijection
<1> QED BY <1>1, <1>2, <1>6

(* The candidates of a protocol are all different. *)
LEMMA CandidatesDiffer ==
  ASSUME NEW p \in Protocol
  PROVE  NoRepeats(Candidates[p])
<1>1. DistinctIds(Table)
  BY TableAssumption DEF DistinctIds
<1>2. Candidates[p] = Filter(Table, {c \in Suites : IsCandidate(c, p)})
  BY DEF Candidates, ScanCandidates, Suites
<1>3. DistinctIds(Candidates[p])
  BY <1>1, <1>2, TableRows, FilterDistinct
<1> QED BY <1>3, Zenon DEF DistinctIds, NoRepeats

(* What ScanCiphers makes of the places kept, whoever lists them. *)
LEMMA FoundAreListed ==
  ASSUME NEW p \in Protocol, NEW kept \in SUBSET Accepted(Candidates[p], p),
         NEW s, Enumerates(s, kept)
  PROVE  /\ Found(p, kept) = SuitesAt(p, s) /\ Len(Found(p, kept)) = Len(s)
         /\ Found(p, kept) = <<>> <=> s = <<>>
         /\ Cardinality(kept) = Len(s) /\ Len(s) \in Nat
<1> DEFINE cands == Candidates[p]
           t == Found(p, kept)
<1>1. cands \in Seq(Suites) /\ kept \in SUBSET (1..Len(cands)) /\ kept \in SUBSET Int
  <2>1. cands \in Seq(Suites)
    BY CandidateRows
  <2>2. kept \in SUBSET (1..Len(cands))
    BY Zenon DEF Accepted
  <2>3. 1..Len(cands) \subseteq Int
    OBVIOUS
  <2> QED BY <2>1, <2>2, <2>3, Zenon
<1>2. NoRepeats(cands)
  BY CandidatesDiffer
<1>3. t = Filter(cands, Those(cands, kept))
  BY DEF Found, Those
<1> HIDE DEF t, cands
<1>4. \E e : /\ Enumerates(e, kept) /\ Len(Filter(cands, Those(cands, kept))) = Len(e)
            /\ \A k \in 1..Len(e) : Filter(cands, Those(cands, kept))[k] = cands[e[k]]
  BY <1>1, <1>2, FilterEnumerates, Zenon
<1>5. PICK e : Enumerates(e, kept) /\ Len(t) = Len(e) /\ \A k \in 1..Len(e) : t[k] = cands[e[k]]
  BY <1>3, <1>4, Zenon
<1>6. Len(e) = Len(s) /\ \A k \in 1..Len(e) : e[k] = s[k]
  BY <1>1, <1>5, OneEnumeration
<1>7. s \in Seq(kept) /\ Len(s) \in Nat /\ Cardinality(kept) = Len(s)
  BY <1>1, EnumerationCounts
<1>8. t \in Seq(Suites) /\ Len(t) = Len(s) /\ \A k \in 1..Len(s) : t[k] = cands[s[k]]
  BY <1>6, <1>5, FoundRows DEF t
<1>9. t = SuitesAt(p, s)
  <2>1. t = [k \in 1..Len(t) |-> t[k]]
    BY <1>8
  <2> QED BY <1>8, <2>1 DEF SuitesAt, cands
<1>10. t = <<>> <=> s = <<>>
  BY <1>7, <1>8
<1> QED BY <1>7, <1>8, <1>9, <1>10 DEF t

(***************************************************************************)
(* Every answer that CipherScanSpec lets the scan of a protocol's suites   *)
(* give, and so every answer that the concurrent scan of CipherScan can    *)
(* give, is one with which the pipeline's ScanCiphers goes on, if there    *)
(* are no more faults than MaxFaults: the one step hides no behaviour.     *)
(* Without candidates the answer is there from the start.                  *)
(***************************************************************************)
THEOREM EveryAnswerIsTaken ==
  ASSUME Typed, TypeOK, NEW p \in Protocol, NEW VARIABLE faulty, NEW VARIABLE answer,
         \/ Scan(p, faulty, answer)!Answer
         \/ Scan(p, faulty, answer)!Init /\ Len(Candidates[p]) = 0 /\ UNCHANGED answer,
         Takes(p, answer'.supported, answer'.rejected)
  PROVE  ScanCiphers
<1> DEFINE cands == Candidates[p]
           accepted == Accepted(cands, p)
           s == answer'.supported
<1>1. /\ \E lost \in SUBSET (accepted \cap faulty) : Enumerates(s, accepted \ lost)
      /\ answer'.rejected = Len(cands) - Len(s)
  <2>1. CASE Scan(p, faulty, answer)!Answer
    BY <2>1, Zenon DEF Scan!Answer, Scan!Lists, Enumerates
  <2>2. CASE Scan(p, faulty, answer)!Init /\ Len(cands) = 0 /\ UNCHANGED answer
    <3>1. s = <<>> /\ answer'.rejected = 0
      BY <2>2 DEF Scan!Init, Scan!NoAnswer
    <3>2. accepted = {}
      BY <2>2 DEF Accepted
    <3>3. Enumerates(<<>>, {})
      BY DEF Enumerates
    <3>4. Enumerates(s, accepted \ {})
      BY <3>1, <3>2, <3>3, Zenon
    <3>5. answer'.rejected = Len(cands) - Len(s)
      <4>1. Len(<<>>) = 0 /\ 0 - 0 = 0
        OBVIOUS
      <4> HIDE DEF s, cands
      <4> QED BY <2>2, <3>1, <4>1, Zenon
    <3>6. {} \in SUBSET (accepted \cap faulty)
      OBVIOUS
    <3> HIDE DEF s, accepted, cands
    <3> QED BY <3>4, <3>5, <3>6, Zenon
  <2> QED BY <2>1, <2>2
<1>2. PICK lost \in SUBSET (accepted \cap faulty) : Enumerates(s, accepted \ lost)
  BY <1>1
<1> DEFINE kept  == accepted \ lost
           found == Found(p, kept)
<1>3. kept \in SUBSET accepted
  OBVIOUS
<1>4. /\ found = SuitesAt(p, s) /\ Len(found) = Len(s) /\ Cardinality(kept) = Len(s) /\ Len(s) \in Nat
      /\ found = <<>> <=> s = <<>>
  BY <1>2, <1>3, FoundAreListed
<1>5. rejected_ciphers_count \in Int /\ Len(cands) \in Int
  <2>1. rejected_ciphers_count \in 0..Len(ALL) * Len(Table)
    BY DEF TypeOK
  <2>2. rejected_ciphers_count \in Int
    BY <2>1
  <2> QED BY <2>2, CandidateRows
<1>6. /\ pc = "ciphers" /\ p = Head(todo)
      /\ faults' = faults + (Cardinality(accepted) - Len(s)) /\ faults' <= MaxFaults
      /\ rejected_ciphers_count' = rejected_ciphers_count + answer'.rejected
      /\ supported_ciphers' = supported_ciphers \o Unseen(supported_ciphers, SuitesAt(p, s))
      /\ protocol_ciphers' = (IF s = <<>> THEN protocol_ciphers
           ELSE Append(protocol_ciphers, [protocol |-> p, ciphers |-> SuitesAt(p, s)]))
      /\ todo' = Tail(todo)
      /\ pc' = (IF Len(todo) = 1 THEN "preference1" ELSE "ciphers")
      /\ UNCHANGED <<inputVars, probeVars, prefVars, report>>
  BY Zenon DEF Takes
<1>7. found = Filter(cands, {cands[i] : i \in kept})
  BY DEF Found
<1> HIDE DEF cands, accepted, kept, found, s
<1>8. rejected_ciphers_count' = rejected_ciphers_count + Len(cands) - Len(found)
  BY <1>1, <1>4, <1>5, <1>6
<1>9. /\ faults' = faults + (Cardinality(accepted) - Cardinality(kept))
      /\ faults + (Cardinality(accepted) - Cardinality(kept)) <= MaxFaults
  BY <1>4, <1>6, Zenon
<1>10. /\ supported_ciphers' = supported_ciphers \o Unseen(supported_ciphers, found)
       /\ protocol_ciphers' = (IF found = <<>> THEN protocol_ciphers
            ELSE Append(protocol_ciphers, [protocol |-> p, ciphers |-> found]))
  BY <1>4, <1>6, Zenon
<1> QED BY <1>3, <1>6, <1>7, <1>8, <1>9, <1>10, Zenon DEF ScanCiphers, cands, accepted

(***************************************************************************)
(* And the pipeline goes on with nothing else: each ScanCiphers step takes *)
(* an answer of the form CipherScanSpec promises, a listing of what the    *)
(* server accepts but for the answers lost, the others all rejected.       *)
(***************************************************************************)
THEOREM OnlyAnswersAreTaken ==
  ASSUME Typed, TypeOK, ScanCiphers
  PROVE  LET p == Head(todo)
         IN \E lost \in SUBSET Accepted(Candidates[p], p) : \E s :
              /\ Enumerates(s, Accepted(Candidates[p], p) \ lost)
              /\ Takes(p, s, Len(Candidates[p]) - Len(s))
<1> DEFINE p == Head(todo)
           cands == Candidates[p]
           accepted == Accepted(cands, p)
<1>1. p \in Protocol
  BY ScanKeeps
<1>2. PICK kept \in SUBSET accepted :
        LET lost  == Cardinality(accepted) - Cardinality(kept)
            found == Found(p, kept)
        IN /\ faults + lost <= MaxFaults
           /\ faults' = faults + lost
           /\ rejected_ciphers_count' = rejected_ciphers_count + Len(cands) - Len(found)
           /\ supported_ciphers' = supported_ciphers \o Unseen(supported_ciphers, found)
           /\ protocol_ciphers' = (IF found = <<>> THEN protocol_ciphers
                ELSE Append(protocol_ciphers, [protocol |-> p, ciphers |-> found]))
  BY Zenon DEF ScanCiphers, Found
<1>3. PICK s : Enumerates(s, kept)
  <2>1. cands \in Seq(Suites) /\ kept \in SUBSET (1..Len(cands)) /\ NoRepeats(cands)
    <3>1. cands \in Seq(Suites) /\ NoRepeats(cands)
      BY <1>1, CandidateRows, CandidatesDiffer
    <3>2. kept \in SUBSET (1..Len(cands))
      BY Zenon DEF Accepted
    <3> QED BY <3>1, <3>2
  <2> HIDE DEF cands
  <2> QED BY <2>1, FilterEnumerates, Zenon
<1> DEFINE found == Found(p, kept)
<1>4. /\ found = SuitesAt(p, s) /\ Len(found) = Len(s) /\ Cardinality(kept) = Len(s) /\ Len(s) \in Nat
      /\ found = <<>> <=> s = <<>>
  BY <1>1, <1>3, FoundAreListed
<1>5. rejected_ciphers_count \in Int /\ Len(cands) \in Int
  <2>1. rejected_ciphers_count \in 0..Len(ALL) * Len(Table)
    BY DEF TypeOK
  <2>2. rejected_ciphers_count \in Int
    BY <2>1
  <2> QED BY <1>1, <2>2, CandidateRows
<1>6. /\ pc = "ciphers" /\ todo' = Tail(todo)
      /\ pc' = (IF Len(todo) = 1 THEN "preference1" ELSE "ciphers")
      /\ UNCHANGED <<inputVars, probeVars, prefVars, report>>
  BY Zenon DEF ScanCiphers
<1> DEFINE lost == accepted \ kept
<1>7. lost \in SUBSET accepted /\ accepted \ lost = kept
  BY Zenon
<1> HIDE DEF found
<1>8. rejected_ciphers_count' = rejected_ciphers_count + (Len(cands) - Len(s))
  <2>1. rejected_ciphers_count' = rejected_ciphers_count + Len(cands) - Len(found)
    BY <1>2, Zenon DEF found
  <2> HIDE DEF cands
  <2> QED BY <1>4, <1>5, <2>1
<1>9. Takes(p, s, Len(cands) - Len(s))
  BY <1>2, <1>4, <1>6, <1>8, Zenon DEF Takes, found
<1> HIDE DEF lost
<1> QED BY <1>3, <1>7, <1>9, Zenon

-----------------------------------------------------------------------------
(* Termination *)

(* A bound on the steps ahead of a scan at p with n protocols to visit. *)
StepsLeft(p, n) ==
  CASE p = "connect" -> 17 [] p = "protocols" -> 10 + n [] p = "fetch" -> 10
    [] p = "ciphers" -> 3 + n [] p = "preference1" -> 3 [] p = "preference2" -> 2
    [] p = "assess" -> 1 [] OTHER -> 0

StepsAhead == StepsLeft(pc, Len(todo))

(* Neither loop visits a protocol twice. *)
VisitsBounded == Len(todo) <= 6

LEMMA StepsAt ==
  \A n :
    /\ StepsLeft("connect", n) = 17 /\ StepsLeft("protocols", n) = 10 + n /\ StepsLeft("fetch", n) = 10
    /\ StepsLeft("ciphers", n) = 3 + n /\ StepsLeft("preference1", n) = 3
    /\ StepsLeft("preference2", n) = 2 /\ StepsLeft("assess", n) = 1
    /\ StepsLeft("done", n) = 0 /\ StepsLeft("failed", n) = 0
BY Zenon DEF StepsLeft

(* What the visits of a loop have in common. *)
LEMMA OneVisitLess ==
  ASSUME Typed, todo # <<>>
  PROVE  Len(todo) \in Nat /\ Len(todo) >= 1 /\ Len(Tail(todo)) = Len(todo) - 1
<1>1. todo \in Seq(Protocol)
  BY DEF Typed
<1> QED BY <1>1

LEMMA VisitsStep ==
  ASSUME IInv, Typed, VisitsBounded, [Next]_vars
  PROVE  VisitsBounded'
<1>1. CASE Connect
  <2>1. todo' = todo \/ todo' = ALL \/ todo' = <<"Tls12">>
    BY <1>1 DEF Connect, ProtocolsToProbe
  <2>2. Len(ALL) <= 6 /\ Len(<<"Tls12">>) <= 6
    BY DEF ALL
  <2> QED BY <2>1, <2>2, Zenon DEF VisitsBounded
<1>2. CASE ProbeProtocol \/ ScanCiphers
  <2>1. todo' = Tail(todo) /\ todo # <<>>
    BY <1>2 DEF ProbeProtocol, ScanCiphers, Typed
  <2> QED BY <2>1, OneVisitLess DEF VisitsBounded
<1>3. CASE FetchCerts
  <2>1. todo' = todo \/ todo' = ProtosToTest
    BY <1>3 DEF FetchCerts
  <2>2. Len(ProtosToTest) <= 6
    BY ToTest DEF IInv
  <2> QED BY <2>1, <2>2, Zenon DEF VisitsBounded
<1>4. CASE PreferenceFirst \/ PreferenceSecond \/ Assess \/ UNCHANGED vars
  <2>1. todo' = todo
    BY <1>4 DEF PreferenceFirst, PreferenceSecond, Assess, vars
  <2> QED BY <2>1, Zenon DEF VisitsBounded
<1> QED BY <1>1, <1>2, <1>3, <1>4 DEF Next, Terminating

LEMMA StepsBounded ==
  ASSUME Typed, VisitsBounded
  PROVE  /\ StepsAhead \in 0..17
         /\ StepsAhead = 0 <=> pc \in {"done", "failed"}
<1>1. Len(todo) \in Nat /\ Len(todo) <= 6
  <2>1. todo \in Seq(Protocol)
    BY DEF Typed
  <2> QED BY <2>1 DEF VisitsBounded
<1>2. CASE pc \in {"protocols", "ciphers"}
  <2>1. StepsAhead = 10 + Len(todo) \/ StepsAhead = 3 + Len(todo)
    BY <1>2, StepsAt, Zenon DEF StepsAhead
  <2> QED BY <1>1, <1>2, <2>1
<1>3. CASE pc \in {"done", "failed"}
  <2>1. StepsAhead = 0
    BY <1>3, StepsAt, Zenon DEF StepsAhead
  <2> QED BY <1>3, <2>1
<1>4. CASE pc \in {"connect", "fetch", "preference1", "preference2", "assess"}
  <2>1. StepsAhead \in {17, 10, 3, 2, 1}
    BY <1>4, StepsAt, Zenon DEF StepsAhead
  <2> QED BY <1>4, <2>1
<1> QED BY <1>2, <1>3, <1>4 DEF Typed

LEMMA StepsFall ==
  ASSUME IInv, Typed, VisitsBounded, VisitsBounded', Typed', [Next]_vars
  PROVE  vars' = vars \/ StepsAhead' < StepsAhead
<1>1. Len(todo) \in Nat /\ Len(todo') \in Nat /\ Len(todo) <= 6 /\ Len(todo') <= 6
  <2>1. todo \in Seq(Protocol) /\ todo' \in Seq(Protocol)
    BY DEF Typed
  <2> QED BY <2>1 DEF VisitsBounded
<1>2. CASE Connect
  <2>1. pc = "connect" /\ pc' \in {"protocols", "failed"}
    BY <1>2 DEF Connect
  <2>2. StepsAhead = 17 /\ StepsAhead' \in {10 + Len(todo'), 0}
    BY <2>1, StepsAt, Zenon DEF StepsAhead
  <2> QED BY <1>1, <2>2
<1>3. CASE ProbeProtocol
  <2>1. pc = "protocols" /\ pc' \in {"protocols", "fetch"} /\ todo' = Tail(todo) /\ todo # <<>>
    BY <1>3 DEF ProbeProtocol, Typed
  <2>2. StepsAhead = 10 + Len(todo) /\ StepsAhead' \in {10 + Len(todo'), 10}
    BY <2>1, StepsAt, Zenon DEF StepsAhead
  <2>3. Len(todo') = Len(todo) - 1 /\ Len(todo) >= 1
    BY <2>1, OneVisitLess
  <2> QED BY <1>1, <2>2, <2>3
<1>4. CASE FetchCerts
  <2>1. pc = "fetch" /\ pc' \in {"assess", "ciphers"}
    BY <1>4 DEF FetchCerts
  <2>2. StepsAhead = 10 /\ StepsAhead' \in {1, 3 + Len(todo')}
    BY <2>1, StepsAt, Zenon DEF StepsAhead
  <2> QED BY <1>1, <2>2
<1>5. CASE ScanCiphers
  <2>1. pc = "ciphers" /\ pc' \in {"preference1", "ciphers"} /\ todo' = Tail(todo) /\ todo # <<>>
    BY <1>5 DEF ScanCiphers, Typed
  <2>2. StepsAhead = 3 + Len(todo) /\ StepsAhead' \in {3, 3 + Len(todo')}
    BY <2>1, StepsAt, Zenon DEF StepsAhead
  <2>3. Len(todo') = Len(todo) - 1 /\ Len(todo) >= 1
    BY <2>1, OneVisitLess
  <2> QED BY <1>1, <2>2, <2>3
<1>6. CASE PreferenceFirst \/ PreferenceSecond \/ Assess
  <2>1. \/ pc = "preference1" /\ pc' \in {"assess", "preference2"}
        \/ pc = "preference2" /\ pc' = "assess"
        \/ pc = "assess" /\ pc' = "done"
    BY <1>6 DEF PreferenceFirst, PreferenceSecond, Assess
  <2>2. \/ StepsAhead = 3 /\ StepsAhead' \in {1, 2}
        \/ StepsAhead = 2 /\ StepsAhead' = 1
        \/ StepsAhead = 1 /\ StepsAhead' = 0
    BY <2>1, StepsAt, Zenon DEF StepsAhead
  <2> QED BY <2>2
<1>7. CASE UNCHANGED vars
  BY <1>7
<1> QED BY <1>2, <1>3, <1>4, <1>5, <1>6, <1>7 DEF Next, Terminating

(***************************************************************************)
(* A scan cannot go on for ever: at most 17 steps are ahead of it, every   *)
(* step takes at least one of them away, and none are left only where      *)
(* run_scan returns, with Err after no other step than the first           *)
(* connection.  (No step blocks: that, and so AlwaysReports, is TLC's.)    *)
(***************************************************************************)
THEOREM StepsRunOut ==
  Spec => /\ [](StepsAhead \in 0..17 /\ (StepsAhead = 0 <=> pc \in {"done", "failed"}))
          /\ [][StepsAhead' < StepsAhead]_vars
          /\ [][pc' = "failed" => pc = "connect"]_vars
<1>1. Init => VisitsBounded
  <2>1. Len(<<>>) <= 6
    OBVIOUS
  <2> QED BY <2>1, Zenon DEF Init, VisitsBounded
<1>2. IInv /\ Typed /\ VisitsBounded /\ [Next]_vars => VisitsBounded'
  BY VisitsStep
<1>3. Typed /\ VisitsBounded => StepsAhead \in 0..17 /\ (StepsAhead = 0 <=> pc \in {"done", "failed"})
  BY StepsBounded
<1>4. IInv /\ Typed /\ VisitsBounded /\ VisitsBounded' /\ Typed' /\ [Next]_vars
      => [StepsAhead' < StepsAhead]_vars
  BY StepsFall
<1>5. [Next]_vars => [pc' = "failed" => pc = "connect"]_vars
  BY DEF Next, Terminating, Connect, ProbeProtocol, FetchCerts, ScanCiphers, PreferenceFirst,
         PreferenceSecond, Assess
<1> QED BY <1>1, <1>2, <1>3, <1>4, <1>5, Invariance, StaysTyped, PTL DEF Spec
=============================================================================

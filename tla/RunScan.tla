------------------------------ MODULE RunScan ------------------------------
(***************************************************************************)
(* run_scan (tls/scanner.rs): the sequential pipeline that probes the      *)
(* protocols, captures a certificate, scans the suites of each protocol,   *)
(* tests the server's preference and assesses what it found, against a     *)
(* server and a network that may spoil any exchange.                       *)
(*                                                                         *)
(* A probe of one protocol is one step, and the concurrent scan of one     *)
(* protocol's suites is the one-step answer of CipherScanSpec, which       *)
(* CipherScan implements.                                                  *)
(***************************************************************************)
EXTENDS Assessment, Certificates, Probes, Targets, TlsServer, FiniteSets

CONSTANTS
  Servers,      \* the servers that may be scanned, as TlsServer describes them
  Options,      \* the ScanOptions: target, overrides of port and sni, *_only flags
  MaxFaults,    \* bound on the exchanges that the network spoils
  Now           \* the time of the assessment

ASSUME NowAssumption == Now \in Int
ASSUME MaxFaultsAssumption == MaxFaults \in Nat
ASSUME ServersAssumption ==
  \A s \in Servers : s.versions \subseteq Protocol /\ s.suites \subseteq Suites

VARIABLES
  server, opts,             \* fixed while a scan runs
  faults,                   \* exchanges spoilt so far
  pc,                       \* where run_scan stands
  todo,                     \* the protocols the current loop has still to visit
  protocol_results, captured_certs,
  supported_ciphers, protocol_ciphers, rejected_ciphers_count,
  sel1,                     \* what the first preference probe selected
  server_cipher_pref,
  report                    \* the findings and the rating, once there are any

inputVars  == <<server, opts>>
probeVars  == <<protocol_results, captured_certs>>
cipherVars == <<supported_ciphers, protocol_ciphers, rejected_ciphers_count>>
prefVars   == <<sel1, server_cipher_pref>>
vars == <<inputVars, faults, pc, todo, probeVars, cipherVars, prefVars, report>>

Option(S) == {{}} \cup {{x} : x \in S}

(***************************************************************************)
(* The chain of an SSLv2 hello: the parser takes it from two bytes before  *)
(* where the certificate begins (Wire), and so it is none.                 *)
(***************************************************************************)
Misread == "misread"

TypeOK ==
  /\ server \in Servers
  /\ opts \in Options
  /\ faults \in 0..MaxFaults
  /\ pc \in {"connect", "protocols", "fetch", "ciphers", "preference1",
             "preference2", "assess", "done", "failed"}
  /\ todo \in Seq(Protocol)
  /\ protocol_results \in
       Seq([protocol : Protocol, supported : BOOLEAN, rating : SecurityRating])
  /\ captured_certs \in Option(server.names \cup {"default", Misread})
  /\ supported_ciphers \in Seq(Suites)
  /\ protocol_ciphers \in Seq([protocol : Protocol, ciphers : Seq(Suites)])
  /\ rejected_ciphers_count \in 0..Len(ALL) * Len(Table)
  /\ sel1 \in Option({c.id : c \in Suites})
  /\ server_cipher_pref \in Option({"enforced", "client order"})
  /\ \A r \in report : r.findings # {} \/ r.rating \in {"Recommended", "Secure"}
  /\ Cardinality(report) <= 1

Init ==
  /\ server \in Servers
  /\ opts \in Options
  /\ faults = 0
  /\ pc = "connect"
  /\ todo = <<>>
  /\ protocol_results = <<>>
  /\ captured_certs = {}
  /\ supported_ciphers = <<>>
  /\ protocol_ciphers = <<>>
  /\ rejected_ciphers_count = 0
  /\ sel1 = {}
  /\ server_cipher_pref = {}
  /\ report = {}

(***************************************************************************)
(* An exchange gives the server's answer, or nothing when the connection   *)
(* fails, times out, or is closed early.                                   *)
(***************************************************************************)
Exchange(answer, got) ==
  \/ got = answer /\ UNCHANGED faults
  \/ got = {} /\ faults < MaxFaults /\ faults' = faults + 1

-----------------------------------------------------------------------------
(* Steps 1 to 3: the target resolves and accepts a connection, or Err. *)

(* The target as parsed, an Err being the empty set. *)
TargetOf == [o \in Options |-> parse_target(o.target, o.port_override)]
Target   == TargetOf[opts]
hostname == IF Target = {} THEN "none" ELSE (CHOOSE t \in Target : TRUE).host

(* The name in force, for the hellos and for judging the certificate. *)
sni == IF opts.sni_override = {} THEN hostname ELSE CHOOSE n \in opts.sni_override : TRUE

ProtocolsToProbe == IF opts.ciphers_only \/ opts.cert_only THEN <<"Tls12">> ELSE ALL

Connect ==
  /\ pc = "connect"
  /\ \/ Target # {} /\ pc' = "protocols" /\ todo' = ProtocolsToProbe
     \/ pc' = "failed" /\ UNCHANGED todo
  /\ UNCHANGED <<inputVars, faults, probeVars, cipherVars, prefVars, report>>

-----------------------------------------------------------------------------
(* Step 4: protocols *)

(* The suites of the table a probe of p offers, and those its scan tests. *)
Offers     == [p \in Protocol |-> Filter(Table, {c \in Suites : IsOffered(c, p)})]
Candidates == [p \in Protocol |-> ScanCandidates(Table, p)]

(***************************************************************************)
(* What a probe of p is answered: the SSLv2 hello by any server with SSLv2,*)
(* the others as TlsServer says.                                           *)
(***************************************************************************)
ProbeAnswer(p) ==
  IF p = "Ssl2"
    THEN {[version |-> "Ssl2", certificate |-> {Misread}] : v \in server.versions \cap {"Ssl2"}}
    ELSE {[version |-> a.version, certificate |-> a.certificate] :
            a \in Answers(server, Hello(p, Offers[p], sni))}

ProtocolResult(p, supported) ==
  [protocol |-> p, supported |-> supported,
   rating |-> IF supported THEN default_rating(p) ELSE "Recommended"]

(* Mutant of Capture: the chains are collected. *)
CaptureAll(captured, certs) == captured \cup certs

(* The first chain captured is the one that is kept. *)
Capture(captured, certs) == IF captured = {} THEN certs ELSE captured

(* Mutant of WithResult: only what is supported is reported. *)
WithSupported(results, r) == IF r.supported THEN Append(results, r) ELSE results

(* Every probe leaves its result, a failed one too. *)
WithResult(results, r) == Append(results, r)

(* Mutant of ProbeProtocol: an error is passed on, and ends the scan. *)
ProbeOrFail ==
  /\ pc = "protocols"
  /\ \E got \in {ProbeAnswer(Head(todo)), {}} :
       /\ Exchange(ProbeAnswer(Head(todo)), got)
       /\ \E outcome \in Outcomes(Head(todo), got) :
            /\ protocol_results' = WithResult(protocol_results, ProtocolResult(Head(todo), outcome.supported))
            /\ captured_certs' = Capture(captured_certs, outcome.certs)
       /\ pc' = (IF got = {} THEN "failed" ELSE IF Len(todo) = 1 THEN "fetch" ELSE "protocols")
  /\ todo' = Tail(todo)
  /\ UNCHANGED <<inputVars, cipherVars, prefVars, report>>

(***************************************************************************)
(* One probe_protocol, in one step, as ProbeSpec has it and ProtocolProbe  *)
(* implements it.  Every error is "not supported".                         *)
(***************************************************************************)
ProbeProtocol ==
  /\ pc = "protocols"
  /\ \E got \in {ProbeAnswer(Head(todo)), {}} :
       /\ Exchange(ProbeAnswer(Head(todo)), got)
       /\ \E outcome \in Outcomes(Head(todo), got) :
            /\ protocol_results' = WithResult(protocol_results, ProtocolResult(Head(todo), outcome.supported))
            /\ captured_certs' = Capture(captured_certs, outcome.certs)
  /\ todo' = Tail(todo)
  /\ pc' = (IF Len(todo) = 1 THEN "fetch" ELSE "protocols")
  /\ UNCHANGED <<inputVars, cipherVars, prefVars, report>>

-----------------------------------------------------------------------------
(* Step 5: a full handshake, made by rustls for the host of the target *)

Active == {r.protocol : r \in {q \in Members(protocol_results) : q.supported}}

(* Mutant of ProtosToTest: every protocol is scanned, supported or not. *)
EveryProtocol == SCAN_ORDER

(* The protocols whose suites are scanned, in SCAN_ORDER. *)
ProtosToTest ==
  IF Active = {} THEN SCAN_ORDER ELSE Filter(SCAN_ORDER, Active)

(***************************************************************************)
(* rustls is external: the handshake can succeed only with TLS 1.2 or 1.3, *)
(* and may fail for reasons of its own.                                    *)
(***************************************************************************)
RustlsChains ==
  {{}} \cup {{CertificateFor(server, {hostname})} :
              v \in {w \in {"Tls12", "Tls13"} : Speaks(server, w)}}

FetchCerts ==
  /\ pc = "fetch"
  /\ IF captured_certs = {} /\ ~opts.protocols_only /\ ~opts.ciphers_only
       THEN captured_certs' \in RustlsChains
       ELSE UNCHANGED captured_certs
  /\ IF opts.protocols_only \/ opts.cert_only
       THEN pc' = "assess" /\ UNCHANGED todo
       ELSE pc' = "ciphers" /\ todo' = ProtosToTest
  /\ UNCHANGED <<inputVars, faults, protocol_results, cipherVars, prefVars, report>>

-----------------------------------------------------------------------------
(* Step 6: suites, protocol by protocol *)

(* Mutant of Accepted: any answer at all counts, an alert too. *)
AcceptedOnAnyAnswer(cands, p) == {i \in 1..Len(cands) : p \in server.versions}

(* The candidates of p, as positions, that the server selects when alone. *)
Accepted(cands, p) ==
  {i \in 1..Len(cands) :
     \E a \in Answers(server, Hello(p, <<cands[i]>>, sni)) : a.suite = cands[i].id}

(* Mutant of Unseen: nothing is remembered. *)
Unfiltered(seen, found) == found

(* seen_cipher_ids: a suite found at an earlier protocol is not repeated. *)
Unseen(seen, found) ==
  Filter(found, {c \in Members(found) : \A d \in Members(seen) : d.id # c.id})

ScanCiphers ==
  /\ pc = "ciphers"
  /\ LET p        == Head(todo)
         cands    == Candidates[p]
         accepted == Accepted(cands, p)
     IN \E kept \in SUBSET accepted :
          LET lost  == Cardinality(accepted) - Cardinality(kept)
              found == Filter(cands, {cands[i] : i \in kept})
          IN /\ faults + lost <= MaxFaults
             /\ faults' = faults + lost
             /\ rejected_ciphers_count' = rejected_ciphers_count + Len(cands) - Len(found)
             /\ supported_ciphers' = supported_ciphers \o Unseen(supported_ciphers, found)
             /\ protocol_ciphers' = (IF found = <<>> THEN protocol_ciphers
                  ELSE Append(protocol_ciphers, [protocol |-> p, ciphers |-> found]))
  /\ todo' = Tail(todo)
  /\ pc' = (IF Len(todo) = 1 THEN "preference1" ELSE "ciphers")
  /\ UNCHANGED <<inputVars, probeVars, prefVars, report>>

(* probe_cipher_order: always a TLS 1.2 hello. *)
OrderAnswer(offered) == {a.suite : a \in Answers(server, Hello("Tls12", offered, sni))}

PreferenceFirst ==
  /\ pc = "preference1"
  /\ IF Len(supported_ciphers) <= 1
       THEN pc' = "assess" /\ UNCHANGED <<faults, sel1>>
       ELSE LET offered == <<supported_ciphers[1], supported_ciphers[2]>>
            IN \E got \in {OrderAnswer(offered), {}} :
                 /\ Exchange(OrderAnswer(offered), got)
                 /\ sel1' = got
                 /\ pc' = (IF got = {} THEN "assess" ELSE "preference2")
  /\ UNCHANGED <<inputVars, todo, probeVars, cipherVars, server_cipher_pref, report>>

(* Mutant of SecondOffer: the two suites are not swapped. *)
SameOffer == <<supported_ciphers[1], supported_ciphers[2]>>

(* The second probe offers the same two suites the other way round. *)
SecondOffer == <<supported_ciphers[2], supported_ciphers[1]>>

PreferenceSecond ==
  /\ pc = "preference2"
  /\ \E got \in {OrderAnswer(SecondOffer), {}} :
       /\ Exchange(OrderAnswer(SecondOffer), got)
       /\ server_cipher_pref' = {IF sel1 = got THEN "enforced" ELSE "client order" : s \in got}
  /\ pc' = "assess"
  /\ UNCHANGED <<inputVars, todo, probeVars, cipherVars, sel1, report>>

-----------------------------------------------------------------------------
(* Step 7: assessment *)

(* A certificate whose only fault can be that it is for one name only; Misread is none. *)
Certificate(name) ==
  [names |-> {name}, not_before |-> Now, not_after |-> Now + 100 * SecondsPerDay,
   sig |-> "ECDSA-with-SHA256", key |-> "ECDSA", spki_len |-> 91, parses |-> name # Misread, anchored |-> TRUE]

CertReport ==
  parse_and_validate_chain({Certificate(n) : n \in captured_certs}, sni, Now)

Assess ==
  /\ pc = "assess"
  /\ LET protocols == Members(protocol_results)
         ciphers   == Members(supported_ciphers)
         findings  == evaluate_vulnerabilities(protocols, ciphers, CertReport)
     IN report' = {[findings |-> findings,
                    rating   |-> compute_overall_rating(protocols, ciphers, findings)]}
  /\ pc' = "done"
  /\ UNCHANGED <<inputVars, faults, todo, probeVars, cipherVars, prefVars>>

Terminating == pc \in {"done", "failed"} /\ UNCHANGED vars

Next ==
  \/ Connect
  \/ ProbeProtocol
  \/ FetchCerts
  \/ ScanCiphers
  \/ PreferenceFirst
  \/ PreferenceSecond
  \/ Assess
  \/ Terminating

(***************************************************************************)
(* Every await of run_scan ends, with an answer or with its timeout (for   *)
(* ScanCiphers that is CipherScan's Termination, given a permit).          *)
(***************************************************************************)
Spec == Init /\ [][Next]_vars /\ WF_vars(Next)
-----------------------------------------------------------------------------
(* Properties *)

Full     == ~opts.protocols_only /\ ~opts.ciphers_only /\ ~opts.cert_only
Finished == pc = "done"

(* The suites a client could negotiate with the server in some TLS hello. *)
Negotiable ==
  {c \in server.suites : \E v \in server.versions \ {"Ssl2"} : UsableAt(c, v)}

(***************************************************************************)
(* A protocol is reported only if the server can complete a handshake with *)
(* it: not when it answers the probe with a lower version, and not because *)
(* of anything the network does (probe_tls's is_match).                    *)
(***************************************************************************)
ProtocolsSound ==
  \A r \in Members(protocol_results) : r.supported => Speaks(server, r.protocol)

(***************************************************************************)
(* A suite is listed under a protocol only if the server negotiates it at  *)
(* that protocol.  probe_cipher_at_protocol does not look at the version   *)
(* it got; what makes this hold is that only active protocols are scanned. *)
(***************************************************************************)
ListedWhereNegotiated ==
  \A g \in Members(protocol_ciphers) :
    /\ g.protocol \in server.versions
    /\ \A c \in Members(g.ciphers) : c \in server.suites /\ UsableAt(c, g.protocol)

GroupsSound == Active # {} => ListedWhereNegotiated

(***************************************************************************)
(* Whatever fails and whatever the scope, even when no probe succeeded and *)
(* every protocol is scanned, a suite is listed as supported only if the   *)
(* server negotiates it with some client.                                  *)
(***************************************************************************)
SuitesSound == Members(supported_ciphers) \subseteq Negotiable

(***************************************************************************)
(* When no exchange fails, a full scan finds every protocol the server     *)
(* completes and every suite it would negotiate in a TLS hello.            *)
(***************************************************************************)
FullScanComplete ==
  Finished /\ Full /\ faults = 0 =>
    /\ Active = {p \in Protocol : Speaks(server, p)}
    /\ Members(supported_ciphers) = Negotiable

(***************************************************************************)
(* The three ways a suite is reported agree: the flat list has each suite  *)
(* of the groups once, the groups follow SCAN_ORDER, and with the number   *)
(* rejected they account for every candidate tested.                       *)
(***************************************************************************)
Tested == SubSeq(ProtosToTest, 1, Len(ProtosToTest) - Len(todo))

Listed == Total([i \in 1..Len(protocol_ciphers) |-> Len(protocol_ciphers[i].ciphers)])
Tried  == Total([i \in 1..Len(Tested) |-> Len(Candidates[Tested[i]])])

ReportConsistent ==
  /\ \A i, j \in 1..Len(supported_ciphers) :
       i # j => supported_ciphers[i].id # supported_ciphers[j].id
  /\ Members(supported_ciphers) = UNION {Members(g.ciphers) : g \in Members(protocol_ciphers)}
  /\ \A i, j \in 1..Len(protocol_ciphers) :
       i < j => ~(protocol_ciphers[i].protocol \preceq protocol_ciphers[j].protocol)
  /\ pc = "ciphers" \/ protocol_ciphers # <<>> =>
       rejected_ciphers_count + Listed = Tried

(***************************************************************************)
(* Whatever fails, the report has one result for each protocol that the    *)
(* scope asks for, in that order: the loop neither drops nor repeats one.  *)
(* The assessment and both reports read this list and no other.            *)
(***************************************************************************)
Probed == [i \in 1..Len(protocol_results) |-> protocol_results[i].protocol]
Ahead  == IF pc = "protocols" THEN todo ELSE <<>>

EveryProbeReported ==
  pc \notin {"connect", "failed"} => Probed \o Ahead = ProtocolsToProbe

(***************************************************************************)
(* When the name in force is the target's host, the certificate judged is  *)
(* the one the server presents for that host, whichever handshake gave it. *)
(* The only other one that can be captured first comes from a hello that   *)
(* carries no name, SSLv2 or SSLv3, and then the report lists the protocol.*)
(***************************************************************************)
CertForHost ==
  sni = hostname =>
    \A n \in captured_certs :
      \/ n = CertificateFor(server, {hostname})
      \/ n = Misread /\ "Ssl2" \in Active
      \/ n = "default" /\ "Ssl3" \in Active

(***************************************************************************)
(* What the report says of the order of suites is so: "Server enforces     *)
(* cipher order", or "Client order followed (server does NOT enforce       *)
(* cipher priority)".                                                      *)
(***************************************************************************)
OrderIsAsReported ==
  /\ server_cipher_pref = {"enforced"} => server.ordered
  /\ server_cipher_pref = {"client order"} => ~server.ordered

PreferenceTruthful == Full /\ faults = 0 => OrderIsAsReported

(***************************************************************************)
(* In every mode and with any failures it is so if the TLS 1.2 hello that  *)
(* asks can negotiate both suites it asks about.                           *)
(***************************************************************************)
ComparableAtTls12 ==
  \E v \in Version(server, Hello("Tls12", <<>>, sni)) :
    \A i \in 1..2 : UsableAt(supported_ciphers[i], v)

PreferenceTruthfulAtTls12 ==
  server_cipher_pref # {} => (ComparableAtTls12 => OrderIsAsReported)

(***************************************************************************)
(* A full scan without failed exchanges gives a server one of the two best *)
(* grades only if it has no obsolete protocol and no vulnerable suite.     *)
(***************************************************************************)
GradeSound ==
  Finished /\ Full /\ faults = 0 =>
    \A r \in report : r.rating \in {"Recommended", "Secure"} =>
      /\ \A p \in Protocol : Speaks(server, p) => ~is_obsolete(p)
      /\ \A c \in Negotiable : ~SuiteIsVulnerable(c)

(***************************************************************************)
(* No false alarm, in any mode and with any failures: a report below those *)
(* grades has an obsolete protocol, a vulnerable suite, or a certificate   *)
(* for another name to point to.                                           *)
(***************************************************************************)
NoFalseAlarm ==
  \A r \in report : RatingIsVulnerable(r.rating) =>
    \/ \E p \in Protocol : Speaks(server, p) /\ is_obsolete(p)
    \/ \E c \in Negotiable : SuiteIsVulnerable(c)
    \/ \E n \in captured_certs \ {Misread} : n # sni

(***************************************************************************)
(* Once the first connection succeeded a scan ends with a report: no later *)
(* failure aborts it.                                                      *)
(***************************************************************************)
AlwaysReports == pc = "protocols" ~> pc = "done"

(***************************************************************************)
(* scanner.rs says of the scan without active protocols "e.g. in           *)
(* ciphers_only mode, test all protocols": then --ciphers would find every *)
(* suite.  It does not when the server has TLS 1.2.                        *)
(***************************************************************************)
CiphersOnlyTestsAll ==
  Finished /\ opts.ciphers_only /\ ~opts.protocols_only /\ ~opts.cert_only /\ faults = 0 =>
    Members(supported_ciphers) = Negotiable

(***************************************************************************)
(* printer.rs says of the grade Secure "no critical or obsolete            *)
(* protocols/ciphers": whatever the scope of the scan, when no exchange    *)
(* fails a server with that grade would have no obsolete protocol.         *)
(***************************************************************************)
SecureHasNoObsolete ==
  Finished /\ faults = 0 =>
    \A r \in report : r.rating = "Secure" =>
      \A p \in Protocol : Speaks(server, p) => ~is_obsolete(p)

(***************************************************************************)
(* printer.rs says of the grade Recommended "Modern TLS 1.3/1.2 only,      *)
(* robust AEAD ciphers with Forward Secrecy, valid certificate.": a full   *)
(* scan whose probes all got their answers would give it only if it had    *)
(* judged a certificate, even if the handshake of rustls for one failed.   *)
(***************************************************************************)
BestGradeHasCertificate ==
  Finished /\ Full /\ faults = 0 =>
    \A r \in report : r.rating = "Recommended" => CertReport # {}

(***************************************************************************)
(* --sni is the "Custom SNI (Server Name Indication) hostname": the        *)
(* certificate judged would be the one the server has for that name, at    *)
(* least when no exchange fails and no probe is of a version whose hello   *)
(* cannot carry a name.                                                    *)
(***************************************************************************)
CertIsForSni ==
  Finished /\ Full /\ faults = 0 /\ server.versions \cap {"Ssl2", "Ssl3"} = {} =>
    (sni \in server.names => captured_certs \subseteq {sni})
=============================================================================

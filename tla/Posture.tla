------------------------------ MODULE Posture ------------------------------
(***************************************************************************)
(* A server whose posture gets worse, and a clock: a protocol or a suite   *)
(* is enabled, or time passes for the certificate in place.  After every   *)
(* such step the properties look at what a complete scan would report.     *)
(* Suites and certificates are judged separately in the code: with a       *)
(* certificate, only the first suite of the table is tried.                *)
(***************************************************************************)
EXTENDS Printer, Certificates, FiniteSets

CONSTANTS
  Chains,         \* the chains the server may have, each a set of at most one leaf
  Moments,        \* the times, in seconds, at which it is scanned
  MaxProtocols,   \* bounds on what is enabled at once
  MaxSuites

ASSUME ChainsAssumption ==
  \A chain \in Chains :
    /\ \A a, b \in chain : a = b
    /\ \A leaf \in chain : {leaf.not_before, leaf.not_after} \subseteq Int /\ leaf.spki_len \in Nat
ASSUME MomentsAssumption == Moments \in Seq(Int) /\ Moments # <<>>

Day == SecondsPerDay

VARIABLES enabled, suites, chain, moment

vars == <<enabled, suites, chain, moment>>

Init ==
  /\ enabled = {}
  /\ suites = {}
  /\ chain \in Chains
  /\ moment = 1

EnableProtocol ==
  /\ Cardinality(enabled) < MaxProtocols
  /\ \E p \in Protocol \ enabled : enabled' = enabled \cup {p}
  /\ UNCHANGED <<suites, chain, moment>>

EnableSuite ==
  /\ Cardinality(suites) < MaxSuites
  /\ \E i \in 1..(IF chain = {} THEN Len(ALL_CIPHERS) ELSE 1) :
       suites' = suites \cup {ALL_CIPHERS[i]}
  /\ UNCHANGED <<enabled, chain, moment>>

Tick ==
  /\ chain # {}
  /\ moment < Len(Moments)
  /\ moment' = moment + 1
  /\ UNCHANGED <<enabled, suites, chain>>

Next == EnableProtocol \/ EnableSuite \/ Tick

Spec == Init /\ [][Next]_vars

-----------------------------------------------------------------------------
(* What a complete scan of that server reports *)

protocols == {[protocol |-> p, supported |-> p \in enabled,
               rating   |-> IF p \in enabled THEN default_rating(p) ELSE "Recommended"] : p \in Protocol}
groups == <<[protocol |-> "Tls12", ciphers |-> Filter(ALL_CIPHERS, suites)]>>
cert_report == parse_and_validate_chain(chain, "host", Moments[moment])
findings == evaluate_vulnerabilities(protocols, suites, cert_report)
overall  == compute_overall_rating(protocols, suites, findings)

Text(vuln_only) == print_report(protocols, groups, suites, cert_report, findings, vuln_only)

TypeOK ==
  /\ enabled \in SUBSET Protocol
  /\ \A c \in suites : c \in CipherSuiteInfo
  /\ \A f \in findings : f.rating \in SecurityRating
  /\ \A leaf \in cert_report :
       /\ \A c \in chain :   \* whole days, rounded down or up
            leaf.days_remaining - (c.not_after - Moments[moment]) \div Day \in {0, 1}
       /\ {leaf.key_rating, leaf.sig_alg_rating} \subseteq SecurityRating
  /\ overall \in SecurityRating
  /\ moment \in 1..Len(Moments)

(***************************************************************************)
(* Enabling one more protocol or suite never makes a finding disappear.    *)
(***************************************************************************)
FindingsGrow ==
  [][moment' = moment => findings \subseteq findings']_vars

(***************************************************************************)
(* The rows of the table and the seven rules that look at them agree: a    *)
(* suite rated vulnerable leads to a finding at least as severe.           *)
(***************************************************************************)
EveryWeakSuiteIsFound ==
  \A c \in suites : SuiteIsVulnerable(c) =>
    \E f \in CipherFindings(suites) : RatingRank[f.rating] >= RatingRank[c.rating]

(***************************************************************************)
(* The report of --vuln-only and the findings flag the same servers, for   *)
(* their protocols and suites and for their certificates.  The tests are   *)
(* not the same: --vuln-only has none for a certificate that is not yet    *)
(* valid, which it must show as not trusted, and it reads the rating of    *)
(* the key where the findings read its bits.  Only a key of unknown kind   *)
(* is left out: it is an issue, and the other report says "No obsolete     *)
(* protocols, weak ciphers, or certificate defects detected".              *)
(***************************************************************************)
ReportsAgree ==
  /\ (VulnerableProtocols(protocols) # {} \/ VulnerableCiphers(groups) # {})
       <=> (ProtocolFindings(protocols) \cup CipherFindings(suites) # {})
  /\ \A leaf \in cert_report : leaf.key_type \in {"RSA", "ECDSA", "Ed25519"} =>
       (CertificateIssues({leaf}) # {} <=> LeafFindings(leaf) # {})

(***************************************************************************)
(* Three filters for vulnerable suites, in separate code, are one: what    *)
(* the library's filter leaves in the groups is exactly what the text      *)
(* report of --vuln-only prints and its JSON report lists, suite by suite; *)
(* no group is left empty; and the flat list it leaves has the same suites.*)
(***************************************************************************)
Kept == filter_vulnerable_ciphers(groups, suites)

FilterAgrees ==
  /\ SuiteLines(Kept.protocol_ciphers) = Text(TRUE).ciphers
  /\ SuiteLines(Kept.protocol_ciphers) = VulnerableCiphers(groups)
  /\ \A group \in Members(Kept.protocol_ciphers) : group.ciphers # <<>>
  /\ Kept.supported_ciphers = {line[2] : line \in SuiteLines(Kept.protocol_ciphers)}

(***************************************************************************)
(* The two outputs of --vuln-only, text and JSON, say the same of the same *)
(* scan: the same protocols, the same suites of the same groups, and the   *)
(* same certificate defects, a heading standing over at least one.  The    *)
(* protocols look in the full text report as they do in this one.          *)
(***************************************************************************)
PrintedAgrees ==
  /\ {line.protocol : line \in Text(TRUE).protocols} = VulnerableProtocols(protocols)
  /\ Text(TRUE).protocols \subseteq Text(FALSE).protocols
  /\ Text(TRUE).ciphers = VulnerableCiphers(groups)
  /\ Text(TRUE).certificate \ {"Heading"} = CertificateIssues(cert_report)
  /\ "Heading" \in Text(TRUE).certificate <=> CertificateIssues(cert_report) # {}

(***************************************************************************)
(* printer.rs says of the best grade "Modern TLS 1.3/1.2 only, robust AEAD *)
(* ciphers with Forward Secrecy, valid certificate".  The first two are so,*)
(* and a certificate that parses is in itself what a client wants, whatever*)
(* the reports make of it: valid now and for two more weeks, for this host,*)
(* from a known root, without a broken hash, and with 2048 bits if its key *)
(* is RSA.  That there is such a certificate is not said                   *)
(* (RunScan!BestGradeHasCertificate), nor anything of a key of unknown     *)
(* kind, which no finding is about.                                        *)
(***************************************************************************)
IsSafe(cert, now) ==
  /\ cert.not_before <= now /\ now + 14 * Day < cert.not_after
  /\ "host" \in cert.names /\ cert.anchored
  /\ cert.sig \notin BrokenSignatures
  /\ cert.key = "RSA" => KeyBits(cert) >= 2048

BestGradeIsEarned ==
  overall = "Recommended" =>
    /\ "Tls13" \in enabled /\ enabled \subseteq {"Tls12", "Tls13"}
    /\ suites # {} /\ \A c \in suites : c.is_aead /\ c.kx \notin {"RSA", "Anon"} /\ ~SuiteIsVulnerable(c)
    /\ \A cert \in chain : cert.parses => IsSafe(cert, Moments[moment])

(***************************************************************************)
(* No certificate expires unannounced: if it is expired now, it had the    *)
(* warning or the expiry finding at every earlier moment less than 14 days *)
(* before its end.                                                         *)
(***************************************************************************)
ExpiryTitles == {f.title : f \in CertFindings(cert_report)} \cap {"Expired", "Expiring soon"}

ExpiryAnnounced ==
  \A leaf \in {c \in chain : c.parses} :
    /\ leaf.not_after - Moments[moment] <= 14 * Day => ExpiryTitles # {}
    /\ leaf.not_after - Moments[moment] >= 15 * Day => ExpiryTitles = {}
    /\ Moments[moment] > leaf.not_after <=> "Expired" \in ExpiryTitles

(***************************************************************************)
(* The two classifications of RSA keys, cert.rs's rating and scanner.rs's  *)
(* limit of 2048 bits, agree.                                              *)
(***************************************************************************)
KeyRulesAgree ==
  \A leaf \in cert_report :
    leaf.key_rating = "Critical" <=> \E f \in CertFindings(cert_report) : f.title = "Weak RSA key"

(***************************************************************************)
(* printer.rs says of grade C that the "Configuration contains weak        *)
(* ciphers": a configuration with a Weak finding would be graded C or      *)
(* below.                                                                  *)
(***************************************************************************)
WeakIsAtBestC ==
  (\E f \in findings : f.rating = "Weak") => overall \in {"Weak", "Insecure", "Critical"}
=============================================================================

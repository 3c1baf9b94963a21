------------------------------ MODULE Printer ------------------------------
(***************************************************************************)
(* What the text report (printer.rs) shows of a scan: which protocols,     *)
(* suites and certificate defects get a line, in the full report and in    *)
(* that of --vuln-only.  Wording and layout are left out.                  *)
(***************************************************************************)
EXTENDS Assessment

(***************************************************************************)
(* print_protocol_section: a line for each protocol probed, and a rating   *)
(* if it is offered, a set of at most one.                                 *)
(***************************************************************************)
ProtocolLine(r) ==
  [protocol |-> r.protocol,
   status   |-> IF ~r.supported THEN "Not Offered"
                ELSE IF is_obsolete(r.protocol) THEN "Offered (Obsolete)" ELSE "Offered",
   rating   |-> {r.rating : supported \in {r.supported} \cap {TRUE}}]

ProtocolLines(protocols) == {ProtocolLine(r) : r \in protocols}

(* Of --vuln-only: each of its lines calls the protocol obsolete. *)
VulnerableProtocolLines(protocols) ==
  {[protocol |-> r.protocol, status |-> "Offered (Obsolete)", rating |-> {r.rating}] :
     r \in {q \in protocols : q.supported /\ (is_obsolete(q.protocol) \/ RatingIsVulnerable(q.rating))}}

-----------------------------------------------------------------------------
(* print_certificate_section: no status says that a certificate is not yet valid. *)
ValidityStatus(leaf) ==
  IF leaf.is_expired THEN "Expired"
  ELSE IF leaf.days_remaining <= 14 THEN "Expiring soon" ELSE "Valid"

CertificateLines(leaf) ==
  [validity |-> ValidityStatus(leaf), key |-> leaf.key_rating,
   signature |-> leaf.sig_alg_rating, trusted |-> leaf.trust_valid]

(* Mutant of has_issue: the chain's trust is forgotten. *)
HasIssueOfLeaf(leaf) ==
  \/ leaf.is_expired
  \/ leaf.days_remaining <= 14
  \/ leaf.is_not_yet_valid
  \/ RatingIsVulnerable(leaf.key_rating)
  \/ RatingIsVulnerable(leaf.sig_alg_rating)

has_issue(leaf) ==
  \/ leaf.is_expired
  \/ leaf.days_remaining <= 14
  \/ leaf.is_not_yet_valid
  \/ RatingIsVulnerable(leaf.key_rating)
  \/ RatingIsVulnerable(leaf.sig_alg_rating)
  \/ ~leaf.trust_valid

(***************************************************************************)
(* print_vulnerable_certificate_section: nothing without an issue, and     *)
(* otherwise a heading and a line for each of four defects.                *)
(***************************************************************************)
VulnerableCertificateLines(cert_report) ==
  UNION {{"Heading"}
           \cup Issue(ValidityStatus(leaf) # "Valid", ValidityStatus(leaf))
           \cup Issue(RatingIsVulnerable(leaf.key_rating), "Weak public key")
           \cup Issue(RatingIsVulnerable(leaf.sig_alg_rating), "Weak signature")
           \cup Issue(~leaf.trust_valid, "Not trusted") :
         leaf \in {l \in cert_report : has_issue(l)}}

-----------------------------------------------------------------------------
(* print_cipher_section_by_protocol: every suite of every group. *)
SuiteLines(groups) ==
  UNION {{<<groups[i].protocol, groups[i].ciphers[j]>> : j \in 1..Len(groups[i].ciphers)} :
         i \in 1..Len(groups)}

(***************************************************************************)
(* print_vulnerable_cipher_section_by_protocol: the flat list of suites    *)
(* decides whether there is anything to show, the groups what is shown.    *)
(***************************************************************************)
VulnerableSuiteLines(groups, all_supported) ==
  IF \E c \in all_supported : SuiteIsVulnerable(c)
    THEN {line \in SuiteLines(groups) : SuiteIsVulnerable(line[2])} ELSE {}

(***************************************************************************)
(* print_findings_section: a badge and a title for each finding, and if    *)
(* there is none the claim that no defect was detected.                    *)
(***************************************************************************)
FindingLines(findings) ==
  IF findings = {} THEN {[badge |-> "none", title |-> "No defects detected"]}
  ELSE {[badge |-> IF RatingIsVulnerable(f.rating) THEN f.rating ELSE "Info",
         title |-> f.title] : f \in findings}

(***************************************************************************)
(* print_report: the sections of the text report, the certificate's only   *)
(* if there is one.                                                        *)
(***************************************************************************)
print_report(protocols, groups, all_supported, cert_report, findings, vuln_only) ==
  [protocols   |-> IF vuln_only THEN VulnerableProtocolLines(protocols) ELSE ProtocolLines(protocols),
   certificate |-> IF vuln_only THEN VulnerableCertificateLines(cert_report)
                   ELSE {CertificateLines(leaf) : leaf \in cert_report},
   ciphers     |-> IF vuln_only THEN VulnerableSuiteLines(groups, all_supported) ELSE SuiteLines(groups),
   findings    |-> FindingLines(findings)]
=============================================================================

----------------------------- MODULE Assessment -----------------------------
(***************************************************************************)
(* What the scanner concludes from its measurements: the findings and the  *)
(* overall rating (tls/scanner.rs), and the report of --vuln-only          *)
(* (models.rs).  A Vec whose order is only printed is a set here, and an   *)
(* Option is a set of at most one member.                                  *)
(***************************************************************************)
EXTENDS CipherSuites

Finding(title, rating) == [title |-> title, rating |-> rating]

(* push the finding when the condition holds *)
When(condition, title, rating) == IF condition THEN {Finding(title, rating)} ELSE {}

-----------------------------------------------------------------------------
(* evaluate_vulnerabilities, in its three parts *)

(* Mutant of IsEnabled: a protocol probed counts as enabled. *)
IsProbed(protocols, p)  == \E r \in protocols : r.protocol = p
IsEnabled(protocols, p) == \E r \in protocols : r.protocol = p /\ r.supported

ProtocolFindings(protocols) ==
  When(IsEnabled(protocols, "Ssl2"), "SSLv2 enabled", "Critical")
    \cup When(IsEnabled(protocols, "Ssl3"), "SSLv3 enabled", "Critical")
    \cup When(IsEnabled(protocols, "Tls10"), "TLS 1.0 enabled", "Deprecated")
    \cup When(IsEnabled(protocols, "Tls11"), "TLS 1.1 enabled", "Deprecated")

has_null(ciphers)       == \E c \in ciphers : c.enc = "None" \/ c.key_bits = 0
has_export(ciphers)     == \E c \in ciphers : c.rating = "Critical" /\ c.key_bits \in 1..56
has_3des(ciphers)       == \E c \in ciphers : c.enc \in ContainsDES

(* Mutant of has_rc4: an else-branch of has_3des. *)
HasRc4Only(ciphers)     == ~has_3des(ciphers) /\ \E c \in ciphers : c.enc = "RC4"
has_rc4(ciphers)        == \E c \in ciphers : c.enc = "RC4"

has_anon(ciphers)       == \E c \in ciphers : c.kx = "Anon"
has_static_rsa(ciphers) == \E c \in ciphers : c.kx = "RSA"

(* Mutant of has_cbc: only the DES suites are looked at. *)
HasDesCbc(ciphers)      == \E c \in ciphers : c.enc \in ContainsDES
has_cbc(ciphers)        == \E c \in ciphers : c.enc \in ContainsCBC

CipherFindings(ciphers) ==
  When(has_null(ciphers), "NULL ciphers", "Critical")
    \cup When(has_export(ciphers), "Export ciphers", "Critical")
    \cup When(has_3des(ciphers), "3DES / DES ciphers", "Insecure")
    \cup When(has_rc4(ciphers), "RC4 ciphers", "Insecure")
    \cup When(has_anon(ciphers), "Anonymous ciphers", "Critical")
    \cup When(has_static_rsa(ciphers), "Static RSA", "Weak")
    \cup When(has_cbc(ciphers), "CBC ciphers", "Weak")

(* Mutant of ExpiresSoon: the fourteenth day is not included. *)
ExpiresVerySoon(leaf) == ~leaf.is_expired /\ leaf.days_remaining < 14
ExpiresSoon(leaf)     == ~leaf.is_expired /\ leaf.days_remaining <= 14

HasWeakRsaKey(leaf) == leaf.key_type = "RSA" /\ leaf.key_bits \in 1..2047

LeafFindings(leaf) ==
  When(leaf.is_expired, "Expired", "Critical")
    \cup When(ExpiresSoon(leaf), "Expiring soon", "Weak")
    \cup When(leaf.is_not_yet_valid, "Not yet valid", "Critical")
    \cup When(HasWeakRsaKey(leaf), "Weak RSA key", "Critical")
    \cup When(leaf.sig_alg_rating = "Critical", "Insecure signature", "Critical")
    \cup When(~leaf.trust_valid, "Not trusted", "Insecure")

CertFindings(cert_report) == UNION {LeafFindings(leaf) : leaf \in cert_report}

evaluate_vulnerabilities(protocols, ciphers, cert_report) ==
  ProtocolFindings(protocols) \cup CipherFindings(ciphers) \cup CertFindings(cert_report)

-----------------------------------------------------------------------------
(***************************************************************************)
(* The first of the four ratings below some finding has, in this order;    *)
(* without such a finding, the best rating for TLS 1.3 with AEAD alone.    *)
(***************************************************************************)
compute_overall_rating(protocols, ciphers, findings) ==
  LET severe   == Filter(<<"Critical", "Insecure", "Deprecated", "Weak">>, {f.rating : f \in findings})
      tls13_on == IsEnabled(protocols, "Tls13")
      all_aead == ciphers # {} /\ \A c \in ciphers : c.is_aead
  IN IF severe # <<>> THEN severe[1]
     ELSE IF tls13_on /\ all_aead THEN "Recommended" ELSE "Secure"

-----------------------------------------------------------------------------
(* A group with its vulnerable suites alone. *)
VulnerablePart(group) ==
  [group EXCEPT !.ciphers = Filter(group.ciphers, {c \in Members(group.ciphers) : SuiteIsVulnerable(c)})]

(* A group left empty is dropped. *)
FilterGroups(groups) ==
  LET parts == [i \in 1..Len(groups) |-> VulnerablePart(groups[i])]
  IN Filter(parts, {g \in Members(parts) : g.ciphers # <<>>})

(* Mutant of filter_vulnerable_ciphers: the flat list is forgotten. *)
FilterOnlyGroups(groups, supported) ==
  [protocol_ciphers |-> FilterGroups(groups), supported_ciphers |-> supported]

(***************************************************************************)
(* ScanReport::filter_vulnerable_ciphers, on the groups and on the flat    *)
(* list of suites (a set here).  It belongs to the library: neither of the *)
(* two reports of --vuln-only calls it, only tests/scanner_tests.rs does.  *)
(***************************************************************************)
filter_vulnerable_ciphers(groups, supported) ==
  [protocol_ciphers  |-> FilterGroups(groups),
   supported_ciphers |-> {c \in supported : SuiteIsVulnerable(c)}]

(* Mutant of VulnerableProtocols: the protocol need not be supported. *)
ObsoleteProtocols(protocols) ==
  {p.protocol : p \in {q \in protocols : is_obsolete(q.protocol) \/ RatingIsVulnerable(q.rating)}}

(***************************************************************************)
(* ScanReport::to_vulnerable_report.  There is no test of is_not_yet_valid *)
(* and the two ratings of the leaf are tested with is_vulnerable.          *)
(***************************************************************************)
VulnerableProtocols(protocols) ==
  {p.protocol : p \in {q \in protocols : q.supported /\ (is_obsolete(q.protocol) \/ RatingIsVulnerable(q.rating))}}

VulnerableCiphers(groups) ==
  UNION {{<<groups[i].protocol, groups[i].ciphers[j]>> :
            j \in {k \in 1..Len(groups[i].ciphers) : SuiteIsVulnerable(groups[i].ciphers[k])}} :
         i \in 1..Len(groups)}

Issue(condition, text) == IF condition THEN {text} ELSE {}

CertificateIssues(cert_report) ==
  UNION {Issue(leaf.is_expired, "Expired")
           \cup Issue(ExpiresSoon(leaf), "Expiring soon")
           \cup Issue(RatingIsVulnerable(leaf.key_rating), "Weak public key")
           \cup Issue(RatingIsVulnerable(leaf.sig_alg_rating), "Weak signature")
           \cup Issue(~leaf.trust_valid, "Not trusted") : leaf \in cert_report}
=============================================================================

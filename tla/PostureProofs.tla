--------------------------- MODULE PostureProofs ---------------------------
(***************************************************************************)
(* Proofs about Posture, and through it about the assessment: for every    *)
(* certificate and every time, and any number of protocols and suites.     *)
(***************************************************************************)
EXTENDS Posture, AssessmentProofs

(* The part of TypeOK the proofs need. *)
InPlace == chain \in Chains /\ moment \in 1..Len(Moments)

(***************************************************************************)
(* The chain in place and the moment stay what the constants say.          *)
(***************************************************************************)
LEMMA AlwaysInPlace == Spec => []InPlace
<1>1. Init => InPlace
  BY MomentsAssumption DEF Init, InPlace
<1>2. InPlace /\ [Next]_vars => InPlace'
  <2> SUFFICES ASSUME InPlace, [Next]_vars PROVE InPlace'
    OBVIOUS
  <2>1. CASE UNCHANGED <<chain, moment>>
    BY <2>1 DEF InPlace
  <2>2. CASE Tick
    BY <2>2, MomentsAssumption DEF Tick, InPlace
  <2> QED BY <2>1, <2>2 DEF Next, EnableProtocol, EnableSuite, vars
<1> QED BY <1>1, <1>2, PTL DEF Spec

-----------------------------------------------------------------------------
(* The division by a day *)

LEMMA Days ==
  ASSUME NEW d \in Int, d >= 0
  PROVE  d < 15 * SecondsPerDay <=> TruncDiv(d, SecondsPerDay) <= 14
<1> DEFINE q == d \div 86400
<1>1. TruncDiv(d, SecondsPerDay) = q
  BY DEF TruncDiv, SecondsPerDay
<1>2. q \in Int /\ 86400 * q <= d /\ d < 86400 * q + 86400
  OBVIOUS
<1>3. 15 * SecondsPerDay = 86400 * 15
  BY DEF SecondsPerDay
<1> HIDE DEF q
<1>4. q <= 14 <=> 86400 * q + 86400 <= 86400 * 15
  BY <1>2
<1> QED BY <1>1, <1>2, <1>3, <1>4

-----------------------------------------------------------------------------
(* What the findings depend on *)

LEMMA OfOneLeaf ==
  ASSUME NEW leaf
  PROVE  CertFindings({leaf}) = LeafFindings(leaf)
BY DEF CertFindings

(* The findings about the end of a certificate and about a weak key. *)
LEMMA TitleFound ==
  ASSUME NEW leaf
  PROVE  /\ (\E f \in CertFindings({leaf}) : f.title = "Expired") <=> leaf.is_expired
         /\ (\E f \in CertFindings({leaf}) : f.title = "Expiring soon") <=> ExpiresSoon(leaf)
         /\ (\E f \in CertFindings({leaf}) : f.title = "Weak RSA key") <=> HasWeakRsaKey(leaf)
<1>1. ASSUME NEW f \in LeafFindings(leaf)
      PROVE  /\ f.title = "Expired" => leaf.is_expired
             /\ f.title = "Expiring soon" => ExpiresSoon(leaf)
             /\ f.title = "Weak RSA key" => HasWeakRsaKey(leaf)
  <2>1. CASE f \in When(leaf.is_expired, "Expired", "Critical")
    <3>1. leaf.is_expired /\ f.title = "Expired"
      BY <2>1, WhenHolds, Zenon
    <3> QED BY <3>1, Zenon
  <2>2. CASE f \in When(ExpiresSoon(leaf), "Expiring soon", "Weak")
    <3>1. ExpiresSoon(leaf) /\ f.title = "Expiring soon"
      BY <2>2, WhenHolds, Zenon
    <3> QED BY <3>1, Zenon
  <2>3. CASE f \in When(leaf.is_not_yet_valid, "Not yet valid", "Critical")
    <3>1. f.title = "Not yet valid"
      BY <2>3, WhenHolds, Zenon
    <3> QED BY <3>1, Zenon
  <2>4. CASE f \in When(HasWeakRsaKey(leaf), "Weak RSA key", "Critical")
    <3>1. HasWeakRsaKey(leaf) /\ f.title = "Weak RSA key"
      BY <2>4, WhenHolds, Zenon
    <3> QED BY <3>1, Zenon
  <2>5. CASE f \in When(leaf.sig_alg_rating = "Critical", "Insecure signature", "Critical")
    <3>1. f.title = "Insecure signature"
      BY <2>5, WhenHolds, Zenon
    <3> QED BY <3>1, Zenon
  <2>6. CASE f \in When(~leaf.trust_valid, "Not trusted", "Insecure")
    <3>1. f.title = "Not trusted"
      BY <2>6, WhenHolds, Zenon
    <3> QED BY <3>1, Zenon
  <2> QED BY <2>1, <2>2, <2>3, <2>4, <2>5, <2>6, Zenon DEF LeafFindings
<1>2. leaf.is_expired => Finding("Expired", "Critical") \in LeafFindings(leaf)
  BY Zenon DEF LeafFindings, When
<1>3. ExpiresSoon(leaf) => Finding("Expiring soon", "Weak") \in LeafFindings(leaf)
  BY Zenon DEF LeafFindings, When
<1>4. HasWeakRsaKey(leaf) => Finding("Weak RSA key", "Critical") \in LeafFindings(leaf)
  BY Zenon DEF LeafFindings, When
<1>5. (\E f \in LeafFindings(leaf) : f.title = "Expired") <=> leaf.is_expired
  BY <1>1, <1>2, FindingFields, Zenon
<1>6. (\E f \in LeafFindings(leaf) : f.title = "Expiring soon") <=> ExpiresSoon(leaf)
  BY <1>1, <1>3, FindingFields, Zenon
<1>7. (\E f \in LeafFindings(leaf) : f.title = "Weak RSA key") <=> HasWeakRsaKey(leaf)
  BY <1>1, <1>4, FindingFields, Zenon
<1>8. CertFindings({leaf}) = LeafFindings(leaf)
  BY OfOneLeaf
<1> QED BY <1>5, <1>6, <1>7, <1>8, Zenon

(* The report on a chain in place is that on its leaf, if the leaf parses. *)
LEMMA ReportOfLeaf ==
  ASSUME InPlace, NEW leaf \in chain, leaf.parses
  PROVE  cert_report = {LeafReport(leaf, "host", Moments[moment])}
<1>1. chain = {leaf}
  BY ChainsAssumption DEF InPlace
<1> QED BY <1>1 DEF cert_report, parse_and_validate_chain

-----------------------------------------------------------------------------
(***************************************************************************)
(* No certificate expires unannounced, whatever its validity and whenever  *)
(* it is looked at.                                                        *)
(***************************************************************************)
THEOREM NoSurprise == Spec => []ExpiryAnnounced
<1>1. InPlace => ExpiryAnnounced
  <2> SUFFICES ASSUME InPlace, NEW leaf \in chain, leaf.parses
               PROVE  /\ leaf.not_after - Moments[moment] <= 14 * Day => ExpiryTitles # {}
                      /\ leaf.not_after - Moments[moment] >= 15 * Day => ExpiryTitles = {}
                      /\ Moments[moment] > leaf.not_after <=> "Expired" \in ExpiryTitles
    BY DEF ExpiryAnnounced
  <2> DEFINE now == Moments[moment]
             left == leaf.not_after - now
             r == LeafReport(leaf, "host", now)
  <2>1. now \in Int /\ leaf.not_after \in Int
    BY MomentsAssumption, ChainsAssumption DEF InPlace
  <2>2. left \in Int /\ (now > leaf.not_after <=> left < 0)
    BY <2>1
  <2>3. r.is_expired <=> left < 0
    BY <2>2 DEF LeafReport, is_expired
  <2>4. r.days_remaining = TruncDiv(left, SecondsPerDay)
    BY DEF LeafReport, days_remaining
  <2>5. ExpiresSoon(r) <=> left >= 0 /\ left < 15 * SecondsPerDay
    BY <2>2, <2>3, <2>4, Days DEF ExpiresSoon
  <2>6. cert_report = {r}
    BY ReportOfLeaf
  <2> HIDE DEF r
  <2>7. /\ "Expired" \in ExpiryTitles <=> left < 0
        /\ "Expiring soon" \in ExpiryTitles <=> left >= 0 /\ left < 15 * SecondsPerDay
    <3>1. \A t \in {"Expired", "Expiring soon"} :
            t \in ExpiryTitles <=> \E f \in CertFindings({r}) : f.title = t
      BY <2>6 DEF ExpiryTitles
    <3>2. "Expired" \in ExpiryTitles <=> r.is_expired
      BY <3>1, TitleFound, Zenon
    <3>3. "Expiring soon" \in ExpiryTitles <=> ExpiresSoon(r)
      BY <3>1, TitleFound, Zenon
    <3> QED BY <2>3, <2>5, <3>2, <3>3, Zenon
  <2>8. ExpiryTitles \subseteq {"Expired", "Expiring soon"}
    BY DEF ExpiryTitles
  <2>9. left <= 14 * SecondsPerDay => left < 15 * SecondsPerDay
    BY <2>2 DEF SecondsPerDay
  <2>10. left >= 15 * SecondsPerDay => left >= 0
    BY <2>2 DEF SecondsPerDay
  <2>11. left < 0 \/ left >= 0
    BY <2>2
  <2>12. ~(left < 0 /\ left >= 0) /\ ~(left < 15 * SecondsPerDay /\ left >= 15 * SecondsPerDay)
    BY <2>2 DEF SecondsPerDay
  <2> HIDE DEF left
  <2> QED BY <2>2, <2>7, <2>8, <2>9, <2>10, <2>11, <2>12 DEF Day, left
<1> QED BY <1>1, AlwaysInPlace, PTL

(***************************************************************************)
(* The rating of RSA keys and the limit of 2048 bits agree.                *)
(***************************************************************************)
THEOREM KeyRules == Spec => []KeyRulesAgree
<1>1. InPlace => KeyRulesAgree
  <2> SUFFICES ASSUME InPlace, NEW leaf \in chain,
                      NEW r, r = LeafReport(leaf, "host", Moments[moment]), cert_report = {r}
               PROVE  r.key_rating = "Critical" <=> \E f \in CertFindings({r}) : f.title = "Weak RSA key"
    <3>1. \A r \in cert_report : \E leaf \in chain :
            leaf.parses /\ r = LeafReport(leaf, "host", Moments[moment])
      BY DEF cert_report, parse_and_validate_chain
    <3> QED BY <3>1, ReportOfLeaf DEF KeyRulesAgree
  <2>1. leaf.spki_len \in Nat
    BY ChainsAssumption DEF InPlace
  <2>2. RsaBits(leaf.spki_len) \in {512, 1024, 2048, 3072, 4096}
    BY <2>1 DEF RsaBits
  <2>3. r.key_type = leaf.key /\ r.key_bits = KeyBits(leaf) /\ r.key_rating = key_rating(leaf)
    BY DEF LeafReport
  <2>4. HasWeakRsaKey(r) <=> leaf.key = "RSA" /\ KeyBits(leaf) \in 1..2047
    BY <2>3 DEF HasWeakRsaKey
  <2>5. key_rating(leaf) = "Critical" <=> leaf.key = "RSA" /\ KeyBits(leaf) \in 1..2047
    <3>1. CASE leaf.key = "RSA"
      <4>1. KeyBits(leaf) \in {512, 1024, 2048, 3072, 4096}
        BY <2>2, <3>1 DEF KeyBits
      <4>2. PICK bits \in {512, 1024, 2048, 3072, 4096} : KeyBits(leaf) = bits
        BY <4>1
      <4>3. bits < 2048 <=> bits \in 1..2047
        OBVIOUS
      <4>4. bits < 2048 => key_rating(leaf) = "Critical"
        BY <3>1, <4>2 DEF key_rating
      <4>5. bits = 2048 => key_rating(leaf) = "Secure"
        BY <3>1, <4>2 DEF key_rating
      <4>6. bits \in {3072, 4096} => key_rating(leaf) = "Recommended"
        BY <3>1, <4>2 DEF key_rating
      <4>7. bits \in {512, 1024} => bits < 2048
        OBVIOUS
      <4> QED BY <3>1, <4>2, <4>3, <4>4, <4>5, <4>6, <4>7
    <3>2. CASE leaf.key # "RSA"
      BY <3>2 DEF key_rating
    <3> QED BY <3>1, <3>2
  <2>6. r.key_rating = "Critical" <=> HasWeakRsaKey(r)
    BY <2>3, <2>4, <2>5
  <2> QED BY <2>6, TitleFound, Zenon
<1> QED BY <1>1, AlwaysInPlace, PTL

-----------------------------------------------------------------------------
(***************************************************************************)
(* Enabling one more protocol or suite never makes a finding disappear.    *)
(***************************************************************************)
THEOREM MoreIsWorse == Spec => FindingsGrow
<1>1. [Next]_vars => [moment' = moment => findings \subseteq findings']_vars
  <2> SUFFICES ASSUME Next, moment' = moment
               PROVE  findings \subseteq findings'
    BY DEF vars, findings, protocols, cert_report
  <2>1. enabled \subseteq enabled' /\ suites \subseteq suites' /\ chain' = chain
    BY DEF Next, EnableProtocol, EnableSuite, Tick
  <2>2. cert_report' = cert_report
    BY <2>1 DEF cert_report
  <2>3. ProtocolFindings(protocols) \subseteq ProtocolFindings(protocols')
    <3>1. ASSUME NEW r \in protocols
          PROVE  r.protocol \in Protocol /\ (r.supported => r.protocol \in enabled)
      <4>1. PICK p \in Protocol :
              r = [protocol |-> p, supported |-> p \in enabled,
                   rating |-> IF p \in enabled THEN default_rating(p) ELSE "Recommended"]
        BY Zenon DEF protocols
      <4> QED BY <4>1, Zenon
    <3>2. ASSUME NEW p \in Protocol, p \in enabled'
          PROVE  \E r \in protocols' : r.protocol = p /\ r.supported
      <4> DEFINE r == [protocol |-> p, supported |-> p \in enabled',
                       rating |-> IF p \in enabled' THEN default_rating(p) ELSE "Recommended"]
      <4>1. r \in protocols'
        BY Zenon DEF protocols
      <4>2. r.protocol = p /\ (p \in enabled' => r.supported)
        OBVIOUS
      <4> HIDE DEF r
      <4> QED BY <3>2, <4>1, <4>2, Zenon
    <3>3. ASSUME NEW p, IsEnabled(protocols, p) PROVE IsEnabled(protocols', p)
      <4>1. p \in Protocol /\ p \in enabled'
        BY <2>1, <3>1, <3>3, Zenon DEF IsEnabled
      <4> QED BY <3>2, <4>1, Zenon DEF IsEnabled
    <3>4. \A p, title, rating :
            When(IsEnabled(protocols, p), title, rating) \subseteq When(IsEnabled(protocols', p), title, rating)
      BY <3>3, Zenon DEF When
    <3>5. ASSUME NEW f \in ProtocolFindings(protocols) PROVE f \in ProtocolFindings(protocols')
      BY <3>4, Zenon DEF ProtocolFindings
    <3> QED BY <3>5
  <2>4. CipherFindings(suites) \subseteq CipherFindings(suites')
    <3>1. \A title, rating : When(has_null(suites), title, rating) \subseteq When(has_null(suites'), title, rating)
      <4>1. has_null(suites) => has_null(suites')
        BY <2>1 DEF has_null
      <4> QED BY <4>1, Zenon DEF When
    <3>2. \A title, rating : When(has_export(suites), title, rating) \subseteq When(has_export(suites'), title, rating)
      <4>1. has_export(suites) => has_export(suites')
        BY <2>1 DEF has_export
      <4> QED BY <4>1, Zenon DEF When
    <3>3. \A title, rating : When(has_3des(suites), title, rating) \subseteq When(has_3des(suites'), title, rating)
      <4>1. has_3des(suites) => has_3des(suites')
        BY <2>1 DEF has_3des
      <4> QED BY <4>1, Zenon DEF When
    <3>4. \A title, rating : When(has_rc4(suites), title, rating) \subseteq When(has_rc4(suites'), title, rating)
      <4>1. has_rc4(suites) => has_rc4(suites')
        BY <2>1 DEF has_rc4
      <4> QED BY <4>1, Zenon DEF When
    <3>5. \A title, rating : When(has_anon(suites), title, rating) \subseteq When(has_anon(suites'), title, rating)
      <4>1. has_anon(suites) => has_anon(suites')
        BY <2>1 DEF has_anon
      <4> QED BY <4>1, Zenon DEF When
    <3>6. \A title, rating : When(has_static_rsa(suites), title, rating) \subseteq When(has_static_rsa(suites'), title, rating)
      <4>1. has_static_rsa(suites) => has_static_rsa(suites')
        BY <2>1 DEF has_static_rsa
      <4> QED BY <4>1, Zenon DEF When
    <3>7. \A title, rating : When(has_cbc(suites), title, rating) \subseteq When(has_cbc(suites'), title, rating)
      <4>1. has_cbc(suites) => has_cbc(suites')
        BY <2>1 DEF has_cbc
      <4> QED BY <4>1, Zenon DEF When
    <3>8. ASSUME NEW f \in CipherFindings(suites) PROVE f \in CipherFindings(suites')
      BY <3>1, <3>2, <3>3, <3>4, <3>5, <3>6, <3>7, Zenon DEF CipherFindings
    <3> QED BY <3>8
  <2> QED BY <2>2, <2>3, <2>4 DEF findings, evaluate_vulnerabilities
<1> QED BY <1>1, PTL DEF Spec, FindingsGrow

-----------------------------------------------------------------------------
(* The protocols and the suites enabled *)

(* The suites are rows of the table, and so rated by the rules. *)
Enabled == enabled \subseteq Protocol /\ suites \subseteq Members(ALL_CIPHERS)

(***************************************************************************)
(* What is enabled stays what the table and the enum of protocols have.    *)
(***************************************************************************)
LEMMA AlwaysEnabled == Spec => []Enabled
<1>1. Init => Enabled
  BY DEF Init, Enabled
<1>2. Enabled /\ [Next]_vars => Enabled'
  <2> SUFFICES ASSUME Enabled, [Next]_vars PROVE Enabled'
    OBVIOUS
  <2>1. CASE EnableProtocol
    BY <2>1 DEF EnableProtocol, Enabled
  <2>2. CASE EnableSuite
    <3>1. PICK i \in 1..(IF chain = {} THEN Len(ALL_CIPHERS) ELSE 1) : suites' = suites \cup {ALL_CIPHERS[i]}
      BY <2>2 DEF EnableSuite
    <3>2. Len(ALL_CIPHERS) = 67
      BY TheTable, Zenon
    <3>3. i \in 1..Len(ALL_CIPHERS)
      BY <3>1, <3>2
    <3>4. suites' \subseteq Members(ALL_CIPHERS)
      BY <3>1, <3>3 DEF Enabled, Members
    <3> QED BY <2>2, <3>4 DEF EnableSuite, Enabled
  <2>3. CASE Tick \/ UNCHANGED vars
    BY <2>3 DEF Tick, vars, Enabled
  <2> QED BY <2>1, <2>2, <2>3 DEF Next
<1> QED BY <1>1, <1>2, PTL DEF Spec

LEMMA EnabledRows ==
  ASSUME Enabled, NEW c \in suites
  PROVE  c \in CipherSuiteInfo /\ RatedByRule(c)
BY TheTable DEF Enabled

(***************************************************************************)
(* A suite rated vulnerable leads to a finding at least as severe.         *)
(***************************************************************************)
THEOREM WeakSuitesAreFound == Spec => []EveryWeakSuiteIsFound
<1>1. Enabled => EveryWeakSuiteIsFound
  BY EnabledRows, SevereEnough DEF EveryWeakSuiteIsFound
<1> QED BY <1>1, AlwaysEnabled, PTL

(* The results of a complete scan, protocol by protocol. *)
LEMMA ResultOf ==
  ASSUME NEW r \in protocols
  PROVE  /\ r.protocol \in Protocol /\ (r.supported <=> r.protocol \in enabled)
         /\ r.supported => r.rating = default_rating(r.protocol)
<1>1. PICK p \in Protocol :
        r = [protocol |-> p, supported |-> p \in enabled,
             rating |-> IF p \in enabled THEN default_rating(p) ELSE "Recommended"]
  BY Zenon DEF protocols
<1> QED BY <1>1, Zenon

LEMMA HasResult ==
  ASSUME NEW p \in Protocol
  PROVE  \E r \in protocols : r.protocol = p
<1> DEFINE r == [protocol |-> p, supported |-> p \in enabled,
                 rating |-> IF p \in enabled THEN default_rating(p) ELSE "Recommended"]
<1>1. r \in protocols /\ r.protocol = p
  BY Zenon DEF protocols
<1> QED BY <1>1

LEMMA ObsoleteRatings ==
  ASSUME NEW p \in Protocol
  PROVE  /\ RatingIsVulnerable(default_rating(p)) <=> is_obsolete(p)
         /\ default_rating(p) \in SecurityRating
BY TheProtocols, TheRatings DEF default_rating, RatingIsVulnerable, is_obsolete

LEMMA TheGroup ==
  ASSUME Enabled
  PROVE  /\ groups \in Seq(CipherGroups({"Tls12"}, Members(ALL_CIPHERS)))
         /\ \A x : x \in VulnerableCiphers(groups) <=>
                     \E c \in suites : SuiteIsVulnerable(c) /\ x = <<"Tls12", c>>
         /\ suites = UNION {Members(g.ciphers) : g \in Members(groups)}
<1> DEFINE all   == Members(ALL_CIPHERS)
           kept  == Filter(ALL_CIPHERS, suites)
           group == [protocol |-> "Tls12", ciphers |-> kept]
<1>1. ALL_CIPHERS \in Seq(all)
  BY TheTable
<1>2. suites \subseteq all
  BY DEF Enabled
<1> HIDE DEF all
<1>3. kept \in Seq(all) /\ Members(kept) = Members(ALL_CIPHERS) \cap suites
  BY <1>1, FilterKeeps
<1>4. Members(kept) = suites
  BY <1>2, <1>3 DEF all
<1> HIDE DEF kept
<1>5. group \in CipherGroups({"Tls12"}, all) /\ group.protocol = "Tls12" /\ group.ciphers = kept
  BY <1>3 DEF CipherGroups
<1> HIDE DEF group
<1>6. groups = <<group>>
  BY DEF groups, group, kept
<1>7. groups \in Seq(CipherGroups({"Tls12"}, all)) /\ Members(groups) = {group}
  BY <1>5, <1>6 DEF Members
<1> QED BY <1>4, <1>5, <1>7, ListedSuites DEF all

(* Obsolete protocols, and vulnerable suites, in the findings. *)
LEMMA ObsoleteIsReported ==
  ProtocolFindings(protocols) # {} <=> VulnerableProtocols(protocols) # {}
<1>1. ASSUME NEW r \in protocols, r.supported
      PROVE  RatingIsVulnerable(r.rating) <=> is_obsolete(r.protocol)
  BY <1>1, ResultOf, ObsoleteRatings
<1>2. VulnerableProtocols(protocols) # {} <=> \E r \in protocols : r.supported /\ is_obsolete(r.protocol)
  <2>1. VulnerableProtocols(protocols) # {} <=>
          \E r \in protocols : r.supported /\ (is_obsolete(r.protocol) \/ RatingIsVulnerable(r.rating))
    BY DEF VulnerableProtocols
  <2> QED BY <1>1, <2>1
<1> QED BY <1>2, ProtocolAlarm

LEMMA WeakIsReported ==
  ASSUME Enabled
  PROVE  CipherFindings(suites) # {} <=> \E c \in suites : SuiteIsVulnerable(c)
<1>1. ASSUME NEW f \in CipherFindings(suites) PROVE \E c \in suites : SuiteIsVulnerable(c)
  <2>1. PICK c \in suites : Alarm(c)
    BY CipherFindingsHaveCause
  <2> QED BY <2>1, EnabledRows, AlarmIsVulnerable
<1>2. ASSUME NEW c \in suites, SuiteIsVulnerable(c) PROVE CipherFindings(suites) # {}
  BY <1>2, EnabledRows, SevereEnough
<1> QED BY <1>1, <1>2

-----------------------------------------------------------------------------
(* What is printed *)

(***************************************************************************)
(* For any certificate report whose leaf is trusted only when valid, the   *)
(* text shows the defects the JSON report has, and the heading if there    *)
(* is one: nothing else can be an issue.                                   *)
(***************************************************************************)
TextIssues(leaf) ==
  Issue(ValidityStatus(leaf) # "Valid", ValidityStatus(leaf))
    \cup Issue(RatingIsVulnerable(leaf.key_rating), "Weak public key")
    \cup Issue(RatingIsVulnerable(leaf.sig_alg_rating), "Weak signature")
    \cup Issue(~leaf.trust_valid, "Not trusted")

JsonIssues(leaf) ==
  Issue(leaf.is_expired, "Expired")
    \cup Issue(ExpiresSoon(leaf), "Expiring soon")
    \cup Issue(RatingIsVulnerable(leaf.key_rating), "Weak public key")
    \cup Issue(RatingIsVulnerable(leaf.sig_alg_rating), "Weak signature")
    \cup Issue(~leaf.trust_valid, "Not trusted")

LEMMA SameIssues ==
  ASSUME NEW leaf, leaf.is_not_yet_valid => ~leaf.trust_valid
  PROVE  /\ TextIssues(leaf) = JsonIssues(leaf)
         /\ "Heading" \notin JsonIssues(leaf)
         /\ has_issue(leaf) <=> JsonIssues(leaf) # {}
<1>1. \A condition, text, x : x \in Issue(condition, text) <=> condition /\ x = text
  BY DEF Issue
<1>2. /\ ValidityStatus(leaf) # "Valid" <=> leaf.is_expired \/ ExpiresSoon(leaf)
      /\ leaf.is_expired => ValidityStatus(leaf) = "Expired"
      /\ ExpiresSoon(leaf) => ValidityStatus(leaf) = "Expiring soon"
  BY DEF ValidityStatus, ExpiresSoon
<1>3. ~(leaf.is_expired /\ ExpiresSoon(leaf))
  BY DEF ExpiresSoon
<1>4. Issue(ValidityStatus(leaf) # "Valid", ValidityStatus(leaf)) =
        Issue(leaf.is_expired, "Expired") \cup Issue(ExpiresSoon(leaf), "Expiring soon")
  <2>1. CASE leaf.is_expired
    BY <1>2, <1>3, <2>1 DEF Issue
  <2>2. CASE ExpiresSoon(leaf)
    BY <1>2, <1>3, <2>2 DEF Issue
  <2>3. CASE ~leaf.is_expired /\ ~ExpiresSoon(leaf)
    BY <1>2, <2>3 DEF Issue
  <2> QED BY <2>1, <2>2, <2>3
<1>5. TextIssues(leaf) = JsonIssues(leaf)
  BY <1>4, Zenon DEF TextIssues, JsonIssues
<1>6. "Heading" \notin JsonIssues(leaf)
  BY <1>1 DEF JsonIssues
<1>7. JsonIssues(leaf) # {} <=>
        \/ leaf.is_expired \/ ExpiresSoon(leaf) \/ RatingIsVulnerable(leaf.key_rating)
        \/ RatingIsVulnerable(leaf.sig_alg_rating) \/ ~leaf.trust_valid
  BY DEF JsonIssues, Issue
<1>8. has_issue(leaf) <=>
        \/ leaf.is_expired \/ ExpiresSoon(leaf) \/ RatingIsVulnerable(leaf.key_rating)
        \/ RatingIsVulnerable(leaf.sig_alg_rating) \/ ~leaf.trust_valid
  BY DEF has_issue, ExpiresSoon
<1> QED BY <1>5, <1>6, <1>7, <1>8

(* An issue with a leaf is one of five. *)
LEMMA IssuesOfLeaf ==
  ASSUME NEW leaf
  PROVE  CertificateIssues({leaf}) # {} <=>
           \/ leaf.is_expired \/ ExpiresSoon(leaf) \/ RatingIsVulnerable(leaf.key_rating)
           \/ RatingIsVulnerable(leaf.sig_alg_rating) \/ ~leaf.trust_valid
<1>1. CertificateIssues({leaf}) = UNION {JsonIssues(l) : l \in {leaf}}
  BY Zenon DEF CertificateIssues, JsonIssues
<1>2. CertificateIssues({leaf}) = JsonIssues(leaf)
  BY <1>1
<1> QED BY <1>2 DEF JsonIssues, Issue

LEMMA TrustedIsValid ==
  ASSUME NEW leaf \in cert_report
  PROVE  leaf.is_not_yet_valid => ~leaf.trust_valid
<1>1. PICK cert \in chain : leaf = LeafReport(cert, "host", Moments[moment])
  BY DEF cert_report, parse_and_validate_chain
<1>2. /\ leaf.is_not_yet_valid = is_not_yet_valid(cert, Moments[moment])
      /\ leaf.trust_valid = (ChainVerifies(cert, Moments[moment]) /\ "host" \in cert.names \cup {NotAName})
  BY <1>1, Zenon DEF LeafReport
<1> QED BY <1>2, Zenon DEF ChainVerifies

LEMMA SupportedIsBoolean ==
  ASSUME NEW r \in protocols
  PROVE  r.supported \in BOOLEAN
<1>1. PICK p \in Protocol : r.supported = (p \in enabled)
  BY DEF protocols
<1> QED BY <1>1

LEMMA PrintedCertificate ==
  LET lines == VulnerableCertificateLines(cert_report)
  IN /\ lines \ {"Heading"} = CertificateIssues(cert_report)
     /\ "Heading" \in lines <=> CertificateIssues(cert_report) # {}
<1> DEFINE lines == VulnerableCertificateLines(cert_report)
           issues == CertificateIssues(cert_report)
<1>1. \A x : x \in lines <=>
        \E leaf \in cert_report : has_issue(leaf) /\ (x = "Heading" \/ x \in TextIssues(leaf))
  <2>1. ASSUME NEW leaf
        PROVE  {"Heading"} \cup TextIssues(leaf) =
                 {"Heading"}
                   \cup Issue(ValidityStatus(leaf) # "Valid", ValidityStatus(leaf))
                   \cup Issue(RatingIsVulnerable(leaf.key_rating), "Weak public key")
                   \cup Issue(RatingIsVulnerable(leaf.sig_alg_rating), "Weak signature")
                   \cup Issue(~leaf.trust_valid, "Not trusted")
    BY Zenon DEF TextIssues
  <2>2. lines = UNION {{"Heading"} \cup TextIssues(leaf) : leaf \in {l \in cert_report : has_issue(l)}}
    BY <2>1, Zenon DEF VulnerableCertificateLines
  <2> HIDE DEF lines
  <2> QED BY <2>2
<1>2. \A x : x \in issues <=> \E leaf \in cert_report : x \in JsonIssues(leaf)
  <2>1. issues = UNION {JsonIssues(leaf) : leaf \in cert_report}
    BY Zenon DEF CertificateIssues, JsonIssues
  <2> HIDE DEF issues
  <2> QED BY <2>1
<1>3. ASSUME NEW leaf \in cert_report
      PROVE  /\ TextIssues(leaf) = JsonIssues(leaf)
             /\ "Heading" \notin JsonIssues(leaf)
             /\ has_issue(leaf) <=> JsonIssues(leaf) # {}
  BY SameIssues, TrustedIsValid
<1> HIDE DEF lines, issues
<1>4. \A x : x \in lines /\ x # "Heading" <=> x \in issues
  BY <1>1, <1>2, <1>3
<1>5. "Heading" \in lines <=> issues # {}
  BY <1>1, <1>2, <1>3
<1> QED BY <1>4, <1>5 DEF lines, issues

LEMMA PrintedSuites ==
  ASSUME Enabled
  PROVE  VulnerableSuiteLines(groups, suites) = VulnerableCiphers(groups)
<1>1. \A x : x \in SuiteLines(groups) <=>
        \E g \in Members(groups) : \E c \in Members(g.ciphers) : x = <<g.protocol, c>>
  BY DEF SuiteLines, Members
<1>2. \A x : x \in {line \in SuiteLines(groups) : SuiteIsVulnerable(line[2])} <=> x \in VulnerableCiphers(groups)
  BY <1>1, ListedSuites
<1>3. VulnerableCiphers(groups) # {} => \E c \in suites : SuiteIsVulnerable(c)
  BY TheGroup
<1> QED BY <1>2, <1>3 DEF VulnerableSuiteLines

LEMMA PrintedProtocols ==
  /\ {line.protocol : line \in VulnerableProtocolLines(protocols)} = VulnerableProtocols(protocols)
  /\ VulnerableProtocolLines(protocols) \subseteq ProtocolLines(protocols)
<1> DEFINE weak == {q \in protocols : q.supported /\ (is_obsolete(q.protocol) \/ RatingIsVulnerable(q.rating))}
           line(r) == [protocol |-> r.protocol, status |-> "Offered (Obsolete)", rating |-> {r.rating}]
<1>1. VulnerableProtocolLines(protocols) = {line(r) : r \in weak}
  BY Zenon DEF VulnerableProtocolLines
<1>2. VulnerableProtocols(protocols) = {r.protocol : r \in weak}
  BY Zenon DEF VulnerableProtocols
<1>3. \A r : line(r).protocol = r.protocol
  OBVIOUS
<1>4. ASSUME NEW r \in weak PROVE line(r) = ProtocolLine(r)
  <2>1. r.supported /\ is_obsolete(r.protocol)
    BY ResultOf, ObsoleteRatings
  <2>2. (IF ~r.supported THEN "Not Offered"
         ELSE IF is_obsolete(r.protocol) THEN "Offered (Obsolete)" ELSE "Offered") = "Offered (Obsolete)"
    BY <2>1
  <2>3. {r.rating : supported \in {r.supported} \cap {TRUE}} = {r.rating}
    <3>1. r.supported = TRUE
      BY SupportedIsBoolean, <2>1
    <3> QED BY <3>1
  <2> QED BY <2>2, <2>3, Zenon DEF ProtocolLine
<1> HIDE DEF line
<1>5. {l.protocol : l \in {line(r) : r \in weak}} = {r.protocol : r \in weak}
  BY <1>3
<1>6. {line(r) : r \in weak} \subseteq ProtocolLines(protocols)
  BY <1>4 DEF ProtocolLines
<1> QED BY <1>1, <1>2, <1>5, <1>6

LEMMA TextParts ==
  /\ Text(TRUE).protocols = VulnerableProtocolLines(protocols)
  /\ Text(TRUE).certificate = VulnerableCertificateLines(cert_report)
  /\ Text(TRUE).ciphers = VulnerableSuiteLines(groups, suites)
  /\ Text(FALSE).protocols = ProtocolLines(protocols)
  /\ Text(FALSE).certificate = {CertificateLines(leaf) : leaf \in cert_report}
BY Zenon DEF Text, print_report

(***************************************************************************)
(* The text and the JSON of --vuln-only say the same of the same scan,     *)
(* whatever is enabled and whatever the certificate.                       *)
(***************************************************************************)
THEOREM PrintedIsReported == Spec => []PrintedAgrees
<1>1. Enabled => PrintedAgrees
  BY TextParts, PrintedProtocols, PrintedSuites, PrintedCertificate DEF PrintedAgrees
<1> QED BY <1>1, AlwaysEnabled, PTL

(***************************************************************************)
(* For any suites of the table the library's filter, the text and the JSON *)
(* report of --vuln-only select the same ones.                             *)
(***************************************************************************)
THEOREM FiltersAgree == Spec => []FilterAgrees
<1>1. Enabled => FilterAgrees
  <2> SUFFICES ASSUME Enabled PROVE FilterAgrees
    OBVIOUS
  <2> DEFINE kept == Members(Kept.protocol_ciphers)
             left == SuiteLines(Kept.protocol_ciphers)
  <2>1. /\ \A x : x \in VulnerableCiphers(groups) <=>
                     \E g \in kept : \E c \in Members(g.ciphers) : x = <<g.protocol, c>>
        /\ \A g \in kept : g.ciphers # <<>>
        /\ Kept.supported_ciphers = UNION {Members(g.ciphers) : g \in kept}
    BY TheGroup, FilterIsExact DEF Kept
  <2>2. \A x : x \in left <=> \E g \in kept : \E c \in Members(g.ciphers) : x = <<g.protocol, c>>
    BY DEF SuiteLines, Members
  <2> HIDE DEF kept, left
  <2>3. left = VulnerableCiphers(groups)
    BY <2>1, <2>2
  <2>4. left = Text(TRUE).ciphers
    BY <2>3, TextParts, PrintedSuites
  <2>5. Kept.supported_ciphers = {line[2] : line \in left}
    <3>1. ASSUME NEW c \in Kept.supported_ciphers PROVE c \in {line[2] : line \in left}
      <4>1. PICK g \in kept : c \in Members(g.ciphers)
        BY <2>1
      <4>2. <<g.protocol, c>> \in left /\ <<g.protocol, c>>[2] = c
        BY <2>2, <4>1
      <4> QED BY <4>2
    <3>2. ASSUME NEW line \in left PROVE line[2] \in Kept.supported_ciphers
      <4>1. PICK g \in kept : \E c \in Members(g.ciphers) : line = <<g.protocol, c>>
        BY <2>2
      <4> QED BY <2>1, <4>1
    <3> QED BY <3>1, <3>2
  <2> QED BY <2>1, <2>3, <2>4, <2>5 DEF FilterAgrees, kept, left
<1> QED BY <1>1, AlwaysEnabled, PTL

-----------------------------------------------------------------------------
(* What a grade stands for *)

LEMMA GradeOfFindings ==
  /\ overall = "Recommended" => /\ findings = {} /\ IsEnabled(protocols, "Tls13")
                                /\ suites # {} /\ \A c \in suites : c.is_aead
  /\ overall \in SecurityRating
  /\ \A f \in findings : f.rating \in SecurityRating
<1>1. \A f \in findings : RatingIsVulnerable(f.rating)
  BY FindingsAreSevere DEF findings
<1>2. /\ overall \in {"Recommended", "Secure"} <=> findings = {}
      /\ overall \in SecurityRating
      /\ overall = "Recommended" => /\ IsEnabled(protocols, "Tls13")
                                    /\ suites # {} /\ \A c \in suites : c.is_aead
  BY <1>1, OverallRating DEF overall
<1>3. \A r : RatingIsVulnerable(r) => r \in SecurityRating
  BY TheRatings DEF RatingIsVulnerable
<1> QED BY <1>1, <1>2, <1>3

(* Without a finding the certificate has none of the defects either. *)
LEMMA CleanLeaf ==
  ASSUME NEW leaf, LeafFindings(leaf) = {}
  PROVE  /\ ~leaf.is_expired /\ ~ExpiresSoon(leaf) /\ ~leaf.is_not_yet_valid
         /\ ~HasWeakRsaKey(leaf) /\ leaf.trust_valid /\ leaf.sig_alg_rating # "Critical"
<1>1. /\ When(leaf.is_expired, "Expired", "Critical") = {}
      /\ When(ExpiresSoon(leaf), "Expiring soon", "Weak") = {}
      /\ When(leaf.is_not_yet_valid, "Not yet valid", "Critical") = {}
      /\ When(HasWeakRsaKey(leaf), "Weak RSA key", "Critical") = {}
      /\ When(~leaf.trust_valid, "Not trusted", "Insecure") = {}
      /\ When(leaf.sig_alg_rating = "Critical", "Insecure signature", "Critical") = {}
  BY DEF LeafFindings
<1>2. \A condition, title, rating : When(condition, title, rating) = {} => ~condition
  BY DEF When
<1> QED BY <1>1, <1>2

(* A certificate without findings is safe in itself, whatever the report says. *)
LEMMA CleanIsSafe ==
  ASSUME InPlace, NEW cert \in chain,
         LeafFindings(LeafReport(cert, "host", Moments[moment])) = {}
  PROVE  IsSafe(cert, Moments[moment])
<1> DEFINE now  == Moments[moment]
           leaf == LeafReport(cert, "host", now)
<1>1. /\ now \in Int /\ cert.not_before \in Int /\ cert.not_after \in Int
      /\ cert.spki_len \in Nat
  BY ChainsAssumption, MomentsAssumption DEF InPlace
<1>2. /\ leaf.is_expired = is_expired(cert, now)
      /\ leaf.days_remaining = TruncDiv(cert.not_after - now, SecondsPerDay)
      /\ leaf.key_type = cert.key /\ leaf.key_bits = KeyBits(cert)
      /\ leaf.trust_valid = (ChainVerifies(cert, now) /\ "host" \in cert.names \cup {NotAName})
  BY Zenon DEF LeafReport, days_remaining
<1>3. ~leaf.is_expired /\ ~ExpiresSoon(leaf) /\ ~HasWeakRsaKey(leaf) /\ leaf.trust_valid
  BY CleanLeaf
<1> HIDE DEF leaf, now
<1>4. ChainVerifies(cert, now) /\ "host" \in cert.names \cup {NotAName}
  BY <1>2, <1>3, Zenon
<1>5. /\ cert.anchored /\ cert.sig \notin BrokenSignatures
      /\ cert.not_before <= now /\ now <= cert.not_after
  BY <1>1, <1>4 DEF ChainVerifies, is_expired, is_not_yet_valid
<1>6. "host" \in cert.names
  BY <1>4 DEF NotAName
<1>7. now + 14 * Day < cert.not_after
  <2> DEFINE d == cert.not_after - now
  <2>1. d \in Int /\ d >= 0
    BY <1>1, <1>5
  <2>2. ~(TruncDiv(d, SecondsPerDay) <= 14)
    BY <1>2, <1>3 DEF ExpiresSoon
  <2>3. ~(d < 15 * SecondsPerDay)
    <3> HIDE DEF d
    <3> QED BY <2>1, <2>2, Days
  <2> QED BY <1>1, <2>3 DEF Day, SecondsPerDay
<1>8. ASSUME cert.key = "RSA" PROVE KeyBits(cert) >= 2048
  <2>1. KeyBits(cert) \notin 1..2047
    BY <1>2, <1>3, <1>8 DEF HasWeakRsaKey
  <2>2. KeyBits(cert) \in {4096, 3072, 2048, 1024, 512}
    BY <1>1, <1>8 DEF KeyBits, RsaBits
  <2> QED BY <2>1, <2>2
<1> QED BY <1>5, <1>6, <1>7, <1>8 DEF IsSafe, now

(***************************************************************************)
(* The best grade is only given for TLS 1.2 and 1.3 alone, with AEAD       *)
(* suites and forward secrecy, and a certificate that could be judged is   *)
(* safe.  It is also given when there is none.                             *)
(***************************************************************************)
THEOREM BestGradeEarned == Spec => []BestGradeIsEarned
<1>1. InPlace /\ Enabled => BestGradeIsEarned
  <2> SUFFICES ASSUME InPlace, Enabled, overall = "Recommended"
               PROVE  /\ "Tls13" \in enabled /\ enabled \subseteq {"Tls12", "Tls13"}
                      /\ suites # {}
                      /\ \A c \in suites : c.is_aead /\ c.kx \notin {"RSA", "Anon"} /\ ~SuiteIsVulnerable(c)
                      /\ \A cert \in chain : cert.parses => IsSafe(cert, Moments[moment])
    BY DEF BestGradeIsEarned
  <2>1. /\ findings = {} /\ IsEnabled(protocols, "Tls13")
        /\ suites # {} /\ \A c \in suites : c.is_aead
    BY GradeOfFindings
  <2>2. ProtocolFindings(protocols) = {} /\ CipherFindings(suites) = {} /\ CertFindings(cert_report) = {}
    BY <2>1 DEF findings, evaluate_vulnerabilities
  <2>3. "Tls13" \in enabled
    BY <2>1, ResultOf DEF IsEnabled
  <2>4. ASSUME NEW p \in enabled PROVE p \in {"Tls12", "Tls13"}
    <3>1. p \in Protocol
      BY DEF Enabled
    <3>2. PICK r \in protocols : r.protocol = p
      BY <3>1, HasResult
    <3>3. r.supported
      BY <3>2, ResultOf
    <3>4. ~is_obsolete(p)
      BY <2>2, <3>2, <3>3, ProtocolAlarm
    <3> QED BY <3>1, <3>4, TheProtocols DEF is_obsolete
  <2>5. ASSUME NEW c \in suites PROVE c.kx \notin {"RSA", "Anon"} /\ ~SuiteIsVulnerable(c)
    <3>1. ~SuiteIsVulnerable(c)
      BY <2>2, WeakIsReported
    <3>2. ~Alarm(c)
      BY <3>1, EnabledRows, AlarmIsVulnerable
    <3> QED BY <3>1, <3>2 DEF Alarm, Flagged
  <2>6. ASSUME NEW cert \in chain, cert.parses PROVE IsSafe(cert, Moments[moment])
    <3>1. cert_report = {LeafReport(cert, "host", Moments[moment])}
      BY <2>6, ReportOfLeaf
    <3>2. LeafFindings(LeafReport(cert, "host", Moments[moment])) = {}
      BY <2>2, <3>1, OfOneLeaf
    <3> QED BY <3>2, CleanIsSafe
  <2> QED BY <2>1, <2>3, <2>4, <2>5, <2>6
<1> QED BY <1>1, AlwaysInPlace, AlwaysEnabled, PTL

(* A certificate with an issue has a finding, unless its key is unknown. *)
LEMMA IssueIsFound ==
  ASSUME InPlace, NEW cert \in chain, cert.key \in {"RSA", "ECDSA", "Ed25519"},
         LeafFindings(LeafReport(cert, "host", Moments[moment])) = {}
  PROVE  CertificateIssues({LeafReport(cert, "host", Moments[moment])}) = {}
<1> DEFINE leaf == LeafReport(cert, "host", Moments[moment])
<1>1. /\ leaf.key_type = cert.key /\ leaf.key_bits = KeyBits(cert)
      /\ leaf.key_rating = key_rating(cert) /\ leaf.sig_alg_rating = sig_alg_rating(cert)
  BY Zenon DEF LeafReport
<1>2. /\ ~leaf.is_expired /\ ~ExpiresSoon(leaf) /\ ~HasWeakRsaKey(leaf) /\ leaf.trust_valid
      /\ leaf.sig_alg_rating # "Critical"
  BY CleanLeaf
<1> HIDE DEF leaf
<1>3. ~RatingIsVulnerable(leaf.sig_alg_rating)
  BY <1>1, <1>2, TheRatings DEF sig_alg_rating, RatingIsVulnerable
<1>4. ~(cert.key = "RSA" /\ KeyBits(cert) < 2048)
  <2> SUFFICES ASSUME cert.key = "RSA" PROVE ~(KeyBits(cert) < 2048)
    OBVIOUS
  <2>1. KeyBits(cert) \notin 1..2047
    BY <1>1, <1>2 DEF HasWeakRsaKey
  <2>2. KeyBits(cert) \in {4096, 3072, 2048, 1024, 512}
    BY ChainsAssumption DEF InPlace, KeyBits, RsaBits
  <2> QED BY <2>1, <2>2
<1>5. key_rating(cert) \in {"Secure", "Recommended"}
  BY <1>4 DEF key_rating
<1>6. ~RatingIsVulnerable(leaf.key_rating)
  BY <1>1, <1>5, TheRatings DEF RatingIsVulnerable
<1>7. CertificateIssues({leaf}) = {}
  BY <1>2, <1>3, <1>6, IssuesOfLeaf
<1> QED BY <1>7 DEF leaf

(* A certificate without an issue has no finding, not yet valid or not. *)
LEMMA FoundIsIssue ==
  ASSUME InPlace, NEW cert \in chain,
         CertificateIssues({LeafReport(cert, "host", Moments[moment])}) = {}
  PROVE  LeafFindings(LeafReport(cert, "host", Moments[moment])) = {}
<1> DEFINE leaf == LeafReport(cert, "host", Moments[moment])
<1>1. /\ leaf.key_type = cert.key /\ leaf.key_bits = KeyBits(cert)
      /\ leaf.key_rating = key_rating(cert) /\ leaf.sig_alg_rating = sig_alg_rating(cert)
      /\ leaf.is_not_yet_valid = is_not_yet_valid(cert, Moments[moment])
      /\ leaf.trust_valid = (/\ ChainVerifies(cert, Moments[moment])
                             /\ "host" \in cert.names \cup {NotAName})
  BY Zenon DEF LeafReport
<1> HIDE DEF leaf
<1>2. /\ ~leaf.is_expired /\ ~ExpiresSoon(leaf) /\ leaf.trust_valid
      /\ ~RatingIsVulnerable(leaf.key_rating) /\ ~RatingIsVulnerable(leaf.sig_alg_rating)
  <2>1. CertificateIssues({leaf}) = {}
    BY DEF leaf
  <2> QED BY <2>1, IssuesOfLeaf
<1>3. ~leaf.is_not_yet_valid
  BY <1>1, <1>2, Zenon DEF ChainVerifies
<1>4. leaf.sig_alg_rating # "Critical"
  BY <1>2, TheRatings DEF RatingIsVulnerable
<1>5. ~HasWeakRsaKey(leaf)
  <2> SUFFICES ASSUME cert.key = "RSA", KeyBits(cert) \in 1..2047 PROVE FALSE
    BY <1>1 DEF HasWeakRsaKey
  <2> DEFINE bits == KeyBits(cert)
  <2> HIDE DEF bits
  <2>1. bits < 2048 /\ bits # 2048
    BY DEF bits
  <2>2. key_rating(cert) = "Critical"
    BY <2>1 DEF key_rating, bits
  <2> QED BY <1>1, <1>2, <2>2, TheRatings DEF RatingIsVulnerable
<1> QED BY <1>2, <1>3, <1>4, <1>5, Zenon DEF LeafFindings, When, leaf

(***************************************************************************)
(* The report of --vuln-only and the findings flag the same servers, for   *)
(* any protocols, suites and certificate, at any time, if the kind of the  *)
(* certificate's key is known.                                             *)
(***************************************************************************)
THEOREM ReportsFlagTheSame == Spec => []ReportsAgree
<1>1. InPlace /\ Enabled => ReportsAgree
  <2> SUFFICES ASSUME InPlace, Enabled PROVE ReportsAgree
    OBVIOUS
  <2>1. VulnerableCiphers(groups) # {} <=> \E c \in suites : SuiteIsVulnerable(c)
    BY TheGroup
  <2>2. (VulnerableProtocols(protocols) # {} \/ VulnerableCiphers(groups) # {})
          <=> (ProtocolFindings(protocols) \cup CipherFindings(suites) # {})
    BY <2>1, ObsoleteIsReported, WeakIsReported
  <2>3. ASSUME NEW leaf \in cert_report, leaf.key_type \in {"RSA", "ECDSA", "Ed25519"}
        PROVE  CertificateIssues({leaf}) # {} <=> LeafFindings(leaf) # {}
    <3>1. PICK cert \in chain : leaf = LeafReport(cert, "host", Moments[moment])
      BY DEF cert_report, parse_and_validate_chain
    <3>2. cert.key \in {"RSA", "ECDSA", "Ed25519"}
      BY <2>3, <3>1, Zenon DEF LeafReport
    <3> QED BY <3>1, <3>2, IssueIsFound, FoundIsIssue
  <2> QED BY <2>2, <2>3 DEF ReportsAgree
<1> QED BY <1>1, AlwaysInPlace, AlwaysEnabled, PTL

-----------------------------------------------------------------------------
(* Types *)

(* The days that remain are the quotient rounded toward zero. *)
LEMMA Rounding ==
  ASSUME NEW d \in Int
  PROVE  TruncDiv(d, SecondsPerDay) - d \div Day \in {0, 1}
<1> DEFINE q == d \div 86400
           n == (-d) \div 86400
<1>1. TruncDiv(d, SecondsPerDay) = IF d >= 0 THEN q ELSE -n
  BY DEF TruncDiv, SecondsPerDay
<1>2. d \div Day = q
  BY DEF Day, SecondsPerDay
<1>3. q \in Int /\ 86400 * q <= d /\ d < 86400 * q + 86400
  OBVIOUS
<1>4. n \in Int /\ 86400 * n <= -d /\ -d < 86400 * n + 86400
  OBVIOUS
<1> HIDE DEF q, n
<1>5. -n - q >= 0 /\ -n - q <= 1
  BY <1>3, <1>4
<1>6. -n - q \in {0, 1}
  BY <1>3, <1>4, <1>5
<1> QED BY <1>1, <1>2, <1>3, <1>6

LEMMA LeafTyped ==
  ASSUME InPlace, NEW leaf \in cert_report
  PROVE  /\ \A c \in chain :
              leaf.days_remaining - (c.not_after - Moments[moment]) \div Day \in {0, 1}
         /\ {leaf.key_rating, leaf.sig_alg_rating} \subseteq SecurityRating
<1> DEFINE now == Moments[moment]
<1>1. PICK cert \in chain : leaf = LeafReport(cert, "host", now)
  BY DEF cert_report, parse_and_validate_chain
<1>2. /\ leaf.days_remaining = TruncDiv(cert.not_after - now, SecondsPerDay)
      /\ leaf.key_rating = key_rating(cert) /\ leaf.sig_alg_rating = sig_alg_rating(cert)
  BY <1>1 DEF LeafReport, days_remaining
<1>3. cert.not_after \in Int /\ now \in Int /\ \A c \in chain : c = cert
  BY MomentsAssumption, ChainsAssumption DEF InPlace
<1>4. leaf.days_remaining - (cert.not_after - now) \div Day \in {0, 1}
  <2> DEFINE left == cert.not_after - now
  <2>1. left \in Int
    BY <1>3
  <2> HIDE DEF left
  <2>2. TruncDiv(left, SecondsPerDay) - left \div Day \in {0, 1}
    BY <2>1, Rounding
  <2> QED BY <1>2, <2>2 DEF left
<1>5. key_rating(cert) \in SecurityRating /\ sig_alg_rating(cert) \in SecurityRating
  BY TheRatings DEF key_rating, sig_alg_rating
<1> QED BY <1>2, <1>3, <1>4, <1>5

(***************************************************************************)
(* The state stays what it is declared to be, and so does what is derived  *)
(* from it; the days that remain are whole days, rounded toward zero.      *)
(***************************************************************************)
THEOREM TypeCorrect == Spec => []TypeOK
<1>1. InPlace /\ Enabled => TypeOK
  <2> SUFFICES ASSUME InPlace, Enabled PROVE TypeOK
    OBVIOUS
  <2>1. enabled \in SUBSET Protocol /\ moment \in 1..Len(Moments)
    BY DEF InPlace, Enabled
  <2>2. \A c \in suites : c \in CipherSuiteInfo
    BY EnabledRows
  <2> QED BY <2>1, <2>2, GradeOfFindings, LeafTyped DEF TypeOK
<1> QED BY <1>1, AlwaysInPlace, AlwaysEnabled, PTL
=============================================================================

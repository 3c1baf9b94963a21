------------------------- MODULE AssessmentProofs -------------------------
(***************************************************************************)
(* What is proved of the suite table and of the assessment: for every set  *)
(* of results, of suites and of certificate reports.                       *)
(***************************************************************************)
EXTENDS Assessment, ListProofs

LEMMA TheRatings == SecurityRating = {"Recommended", "Secure", "Deprecated", "Weak", "Insecure", "Critical"}
BY DEF SecurityRating, SecurityRatingOrder
LEMMA TheProtocols == Protocol = {"Ssl2", "Ssl3", "Tls10", "Tls11", "Tls12", "Tls13"}
BY DEF Protocol, ALL

-----------------------------------------------------------------------------
(* The rows of the table *)

(* The rules of CipherFindings that look at the fields of one suite alone. *)
Flagged(c) ==
  \/ c.enc \in {"None", "RC4"} \cup ContainsCBC \cup ContainsDES
  \/ c.key_bits = 0
  \/ c.kx \in {"Anon", "RSA"}

(* The rating of a row and the rules that look at it agree. *)
RatedByRule(c) ==
  /\ c.is_obsolete => RatingIsVulnerable(c.rating)
  /\ c.rating = "Critical" => c.enc = "None" \/ c.key_bits \in 1..56 \/ c.kx = "Anon"
  /\ c.rating = "Insecure" => c.enc \in ContainsDES \cup {"RC4"}
  /\ c.rating \in {"Deprecated", "Weak"} => c.kx = "RSA" \/ c.enc \in ContainsCBC
  /\ Flagged(c) => RatingIsVulnerable(c.rating)

(* The values of a row's fields, and that it has no others. *)
RowTyped(c) ==
  /\ c.protocol_min \in Protocol /\ c.rating \in SecurityRating
  /\ c.kx \in KeyExchanges /\ c.enc \in Encryptions
  /\ c.key_bits \in Nat
  /\ c.is_aead = TRUE \/ c.is_aead = FALSE
  /\ c.is_obsolete = TRUE \/ c.is_obsolete = FALSE

HasFields(c) ==
  c = [id |-> c.id, protocol_min |-> c.protocol_min, kx |-> c.kx, enc |-> c.enc,
       key_bits |-> c.key_bits, is_aead |-> c.is_aead, is_obsolete |-> c.is_obsolete,
       rating |-> c.rating]

(***************************************************************************)
(* n rows, well formed, rated by the rules, and with ids of their own from *)
(* the set.  The table is proved to be such group by group, and then as a  *)
(* whole, the ids of each group being none of those before it.             *)
(***************************************************************************)
IsGroup(s, n, ids) ==
  /\ s = [i \in 1..n |-> s[i]]
  /\ \A i \in 1..n : HasFields(s[i])
  /\ \A i \in 1..n : RowTyped(s[i])
  /\ \A i \in 1..n : RatedByRule(s[i])
  /\ \A i \in 1..n : s[i].id \in ids
  /\ \A i, j \in 1..n : s[i].id = s[j].id => i = j

LEMMA EnumMembers ==
  /\ "Ssl3" \in Protocol /\ "Tls10" \in Protocol /\ "Tls11" \in Protocol
  /\ "Tls12" \in Protocol /\ "Tls13" \in Protocol
  /\ "Recommended" \in SecurityRating /\ "Secure" \in SecurityRating
  /\ "Deprecated" \in SecurityRating /\ "Weak" \in SecurityRating
  /\ "Insecure" \in SecurityRating /\ "Critical" \in SecurityRating
BY TheProtocols, TheRatings

Tls13Ids == {
  "0x1301", "0x1302", "0x1303", "0x1304", "0x1305"}

Tls12AeadIds == {
  "0xc02b", "0xc02c", "0xc02f", "0xc030", "0xcca9", "0xcca8", "0xccaa", "0x009e", "0x009f"}

Tls12CbcIds == {
  "0xc027", "0xc028", "0xc023", "0xc024", "0x0067", "0x006b"}

Sha1Ids == {
  "0xc013", "0xc014", "0xc009", "0xc00a", "0x0033", "0x0039"}

StaticRsaIds == {
  "0x009c", "0x009d", "0x003c", "0x003d", "0x002f", "0x0035"}

TripleDesIds == {
  "0x000a", "0xc012", "0xc008", "0x0016"}

Rc4Ids == {
  "0x0005", "0x0004", "0xc011", "0xc007"}

DesIds == {
  "0x0009", "0x0015"}

ExportIds == {
  "0x0003", "0x0006", "0x0008", "0x0014"}

AnonIds == {
  "0x0018", "0x001b", "0x0034", "0x003a", "0x00a6", "0x00a7", "0xc018", "0xc019", "0xc01a"}

NullIds == {
  "0x0001", "0x0002", "0x003b", "0xc001", "0xc006", "0xc00b", "0xc010"}

AdditionalIds == {
  "0x0041", "0x0084", "0x0096", "0xc07a", "0xc07b"}

LEMMA Tls13Rows == IsGroup(Tls13Suites, 5, Tls13Ids)
<1>1. Tls13Suites = [i \in 1..5 |-> Tls13Suites[i]]
  BY DEF Tls13Suites
<1>2. \A i \in 1..5 : HasFields(Tls13Suites[i])
  BY DEF Tls13Suites, Suite, HasFields
<1>3. \A i \in 1..5 : RowTyped(Tls13Suites[i])
  BY EnumMembers DEF Tls13Suites, Suite, RowTyped, KeyExchanges, Encryptions
<1>4. \A i \in 1..5 : RatedByRule(Tls13Suites[i])
  BY DEF Tls13Suites, Suite, RatedByRule, Flagged, RatingIsVulnerable, ContainsDES, ContainsCBC
<1>5. \A i \in 1..5 : Tls13Suites[i].id \in Tls13Ids
  BY DEF Tls13Suites, Suite, Tls13Ids
<1>6. \A i, j \in 1..5 : Tls13Suites[i].id = Tls13Suites[j].id => i = j
  BY DEF Tls13Suites, Suite
<1> QED BY <1>1, <1>2, <1>3, <1>4, <1>5, <1>6, Zenon DEF IsGroup

LEMMA Tls12AeadRows == IsGroup(Tls12AeadSuites, 9, Tls12AeadIds)
<1>1. Tls12AeadSuites = [i \in 1..9 |-> Tls12AeadSuites[i]]
  BY DEF Tls12AeadSuites
<1>2. \A i \in 1..9 : HasFields(Tls12AeadSuites[i])
  BY DEF Tls12AeadSuites, Suite, HasFields
<1>3. \A i \in 1..9 : RowTyped(Tls12AeadSuites[i])
  BY EnumMembers DEF Tls12AeadSuites, Suite, RowTyped, KeyExchanges, Encryptions
<1>4. \A i \in 1..9 : RatedByRule(Tls12AeadSuites[i])
  BY DEF Tls12AeadSuites, Suite, RatedByRule, Flagged, RatingIsVulnerable, ContainsDES, ContainsCBC
<1>5. \A i \in 1..9 : Tls12AeadSuites[i].id \in Tls12AeadIds
  BY DEF Tls12AeadSuites, Suite, Tls12AeadIds
<1>6. \A i, j \in 1..9 : Tls12AeadSuites[i].id = Tls12AeadSuites[j].id => i = j
  BY DEF Tls12AeadSuites, Suite
<1> QED BY <1>1, <1>2, <1>3, <1>4, <1>5, <1>6, Zenon DEF IsGroup

LEMMA Tls12CbcRows == IsGroup(Tls12CbcSuites, 6, Tls12CbcIds)
<1>1. Tls12CbcSuites = [i \in 1..6 |-> Tls12CbcSuites[i]]
  BY DEF Tls12CbcSuites
<1>2. \A i \in 1..6 : HasFields(Tls12CbcSuites[i])
  BY DEF Tls12CbcSuites, Suite, HasFields
<1>3. \A i \in 1..6 : RowTyped(Tls12CbcSuites[i])
  BY EnumMembers DEF Tls12CbcSuites, Suite, RowTyped, KeyExchanges, Encryptions
<1>4. \A i \in 1..6 : RatedByRule(Tls12CbcSuites[i])
  BY DEF Tls12CbcSuites, Suite, RatedByRule, Flagged, RatingIsVulnerable, ContainsDES, ContainsCBC
<1>5. \A i \in 1..6 : Tls12CbcSuites[i].id \in Tls12CbcIds
  BY DEF Tls12CbcSuites, Suite, Tls12CbcIds
<1>6. \A i, j \in 1..6 : Tls12CbcSuites[i].id = Tls12CbcSuites[j].id => i = j
  BY DEF Tls12CbcSuites, Suite
<1> QED BY <1>1, <1>2, <1>3, <1>4, <1>5, <1>6, Zenon DEF IsGroup

LEMMA Sha1Rows == IsGroup(Sha1Suites, 6, Sha1Ids)
<1>1. Sha1Suites = [i \in 1..6 |-> Sha1Suites[i]]
  BY DEF Sha1Suites
<1>2. \A i \in 1..6 : HasFields(Sha1Suites[i])
  BY DEF Sha1Suites, Suite, HasFields
<1>3. \A i \in 1..6 : RowTyped(Sha1Suites[i])
  BY EnumMembers DEF Sha1Suites, Suite, RowTyped, KeyExchanges, Encryptions
<1>4. \A i \in 1..6 : RatedByRule(Sha1Suites[i])
  BY DEF Sha1Suites, Suite, RatedByRule, Flagged, RatingIsVulnerable, ContainsDES, ContainsCBC
<1>5. \A i \in 1..6 : Sha1Suites[i].id \in Sha1Ids
  BY DEF Sha1Suites, Suite, Sha1Ids
<1>6. \A i, j \in 1..6 : Sha1Suites[i].id = Sha1Suites[j].id => i = j
  BY DEF Sha1Suites, Suite
<1> QED BY <1>1, <1>2, <1>3, <1>4, <1>5, <1>6, Zenon DEF IsGroup

LEMMA StaticRsaRows == IsGroup(StaticRsaSuites, 6, StaticRsaIds)
<1>1. StaticRsaSuites = [i \in 1..6 |-> StaticRsaSuites[i]]
  BY DEF StaticRsaSuites
<1>2. \A i \in 1..6 : HasFields(StaticRsaSuites[i])
  BY DEF StaticRsaSuites, Suite, HasFields
<1>3. \A i \in 1..6 : RowTyped(StaticRsaSuites[i])
  BY EnumMembers DEF StaticRsaSuites, Suite, RowTyped, KeyExchanges, Encryptions
<1>4. \A i \in 1..6 : RatedByRule(StaticRsaSuites[i])
  BY DEF StaticRsaSuites, Suite, RatedByRule, Flagged, RatingIsVulnerable, ContainsDES, ContainsCBC
<1>5. \A i \in 1..6 : StaticRsaSuites[i].id \in StaticRsaIds
  BY DEF StaticRsaSuites, Suite, StaticRsaIds
<1>6. \A i, j \in 1..6 : StaticRsaSuites[i].id = StaticRsaSuites[j].id => i = j
  BY DEF StaticRsaSuites, Suite
<1> QED BY <1>1, <1>2, <1>3, <1>4, <1>5, <1>6, Zenon DEF IsGroup

LEMMA TripleDesRows == IsGroup(TripleDesSuites, 4, TripleDesIds)
<1>1. TripleDesSuites = [i \in 1..4 |-> TripleDesSuites[i]]
  BY DEF TripleDesSuites
<1>2. \A i \in 1..4 : HasFields(TripleDesSuites[i])
  BY DEF TripleDesSuites, Suite, HasFields
<1>3. \A i \in 1..4 : RowTyped(TripleDesSuites[i])
  BY EnumMembers DEF TripleDesSuites, Suite, RowTyped, KeyExchanges, Encryptions
<1>4. \A i \in 1..4 : RatedByRule(TripleDesSuites[i])
  BY DEF TripleDesSuites, Suite, RatedByRule, Flagged, RatingIsVulnerable, ContainsDES, ContainsCBC
<1>5. \A i \in 1..4 : TripleDesSuites[i].id \in TripleDesIds
  BY DEF TripleDesSuites, Suite, TripleDesIds
<1>6. \A i, j \in 1..4 : TripleDesSuites[i].id = TripleDesSuites[j].id => i = j
  BY DEF TripleDesSuites, Suite
<1> QED BY <1>1, <1>2, <1>3, <1>4, <1>5, <1>6, Zenon DEF IsGroup

LEMMA Rc4Rows == IsGroup(Rc4Suites, 4, Rc4Ids)
<1>1. Rc4Suites = [i \in 1..4 |-> Rc4Suites[i]]
  BY DEF Rc4Suites
<1>2. \A i \in 1..4 : HasFields(Rc4Suites[i])
  BY DEF Rc4Suites, Suite, HasFields
<1>3. \A i \in 1..4 : RowTyped(Rc4Suites[i])
  BY EnumMembers DEF Rc4Suites, Suite, RowTyped, KeyExchanges, Encryptions
<1>4. \A i \in 1..4 : RatedByRule(Rc4Suites[i])
  BY DEF Rc4Suites, Suite, RatedByRule, Flagged, RatingIsVulnerable, ContainsDES, ContainsCBC
<1>5. \A i \in 1..4 : Rc4Suites[i].id \in Rc4Ids
  BY DEF Rc4Suites, Suite, Rc4Ids
<1>6. \A i, j \in 1..4 : Rc4Suites[i].id = Rc4Suites[j].id => i = j
  BY DEF Rc4Suites, Suite
<1> QED BY <1>1, <1>2, <1>3, <1>4, <1>5, <1>6, Zenon DEF IsGroup

LEMMA DesRows == IsGroup(DesSuites, 2, DesIds)
<1>1. DesSuites = [i \in 1..2 |-> DesSuites[i]]
  BY DEF DesSuites
<1>2. \A i \in 1..2 : HasFields(DesSuites[i])
  BY DEF DesSuites, Suite, HasFields
<1>3. \A i \in 1..2 : RowTyped(DesSuites[i])
  BY EnumMembers DEF DesSuites, Suite, RowTyped, KeyExchanges, Encryptions
<1>4. \A i \in 1..2 : RatedByRule(DesSuites[i])
  BY DEF DesSuites, Suite, RatedByRule, Flagged, RatingIsVulnerable, ContainsDES, ContainsCBC
<1>5. \A i \in 1..2 : DesSuites[i].id \in DesIds
  BY DEF DesSuites, Suite, DesIds
<1>6. \A i, j \in 1..2 : DesSuites[i].id = DesSuites[j].id => i = j
  BY DEF DesSuites, Suite
<1> QED BY <1>1, <1>2, <1>3, <1>4, <1>5, <1>6, Zenon DEF IsGroup

LEMMA ExportRows == IsGroup(ExportSuites, 4, ExportIds)
<1>1. ExportSuites = [i \in 1..4 |-> ExportSuites[i]]
  BY DEF ExportSuites
<1>2. \A i \in 1..4 : HasFields(ExportSuites[i])
  BY DEF ExportSuites, Suite, HasFields
<1>3. \A i \in 1..4 : RowTyped(ExportSuites[i])
  BY EnumMembers DEF ExportSuites, Suite, RowTyped, KeyExchanges, Encryptions
<1>4. \A i \in 1..4 : RatedByRule(ExportSuites[i])
  BY DEF ExportSuites, Suite, RatedByRule, Flagged, RatingIsVulnerable, ContainsDES, ContainsCBC
<1>5. \A i \in 1..4 : ExportSuites[i].id \in ExportIds
  BY DEF ExportSuites, Suite, ExportIds
<1>6. \A i, j \in 1..4 : ExportSuites[i].id = ExportSuites[j].id => i = j
  BY DEF ExportSuites, Suite
<1> QED BY <1>1, <1>2, <1>3, <1>4, <1>5, <1>6, Zenon DEF IsGroup

LEMMA AnonRows == IsGroup(AnonSuites, 9, AnonIds)
<1>1. AnonSuites = [i \in 1..9 |-> AnonSuites[i]]
  BY DEF AnonSuites
<1>2. \A i \in 1..9 : HasFields(AnonSuites[i])
  BY DEF AnonSuites, Suite, HasFields
<1>3. \A i \in 1..9 : RowTyped(AnonSuites[i])
  BY EnumMembers DEF AnonSuites, Suite, RowTyped, KeyExchanges, Encryptions
<1>4. \A i \in 1..9 : RatedByRule(AnonSuites[i])
  BY DEF AnonSuites, Suite, RatedByRule, Flagged, RatingIsVulnerable, ContainsDES, ContainsCBC
<1>5. \A i \in 1..9 : AnonSuites[i].id \in AnonIds
  BY DEF AnonSuites, Suite, AnonIds
<1>6. \A i, j \in 1..9 : AnonSuites[i].id = AnonSuites[j].id => i = j
  BY DEF AnonSuites, Suite
<1> QED BY <1>1, <1>2, <1>3, <1>4, <1>5, <1>6, Zenon DEF IsGroup

LEMMA NullRows == IsGroup(NullSuites, 7, NullIds)
<1>1. NullSuites = [i \in 1..7 |-> NullSuites[i]]
  BY DEF NullSuites
<1>2. \A i \in 1..7 : HasFields(NullSuites[i])
  BY DEF NullSuites, Suite, HasFields
<1>3. \A i \in 1..7 : RowTyped(NullSuites[i])
  BY EnumMembers DEF NullSuites, Suite, RowTyped, KeyExchanges, Encryptions
<1>4. \A i \in 1..7 : RatedByRule(NullSuites[i])
  BY DEF NullSuites, Suite, RatedByRule, Flagged, RatingIsVulnerable, ContainsDES, ContainsCBC
<1>5. \A i \in 1..7 : NullSuites[i].id \in NullIds
  BY DEF NullSuites, Suite, NullIds
<1>6. \A i, j \in 1..7 : NullSuites[i].id = NullSuites[j].id => i = j
  BY DEF NullSuites, Suite
<1> QED BY <1>1, <1>2, <1>3, <1>4, <1>5, <1>6, Zenon DEF IsGroup

LEMMA AdditionalRows == IsGroup(AdditionalSuites, 5, AdditionalIds)
<1>1. AdditionalSuites = [i \in 1..5 |-> AdditionalSuites[i]]
  BY DEF AdditionalSuites
<1>2. \A i \in 1..5 : HasFields(AdditionalSuites[i])
  BY DEF AdditionalSuites, Suite, HasFields
<1>3. \A i \in 1..5 : RowTyped(AdditionalSuites[i])
  BY EnumMembers DEF AdditionalSuites, Suite, RowTyped, KeyExchanges, Encryptions
<1>4. \A i \in 1..5 : RatedByRule(AdditionalSuites[i])
  BY DEF AdditionalSuites, Suite, RatedByRule, Flagged, RatingIsVulnerable, ContainsDES, ContainsCBC
<1>5. \A i \in 1..5 : AdditionalSuites[i].id \in AdditionalIds
  BY DEF AdditionalSuites, Suite, AdditionalIds
<1>6. \A i, j \in 1..5 : AdditionalSuites[i].id = AdditionalSuites[j].id => i = j
  BY DEF AdditionalSuites, Suite
<1> QED BY <1>1, <1>2, <1>3, <1>4, <1>5, <1>6, Zenon DEF IsGroup

-----------------------------------------------------------------------------
(* The groups together *)

TableIds ==
  Tls13Ids \cup Tls12AeadIds \cup Tls12CbcIds \cup Sha1Ids \cup StaticRsaIds \cup TripleDesIds
    \cup Rc4Ids \cup DesIds \cup ExportIds \cup AnonIds \cup NullIds \cup AdditionalIds

Rows ==
  {c \in [id : TableIds, protocol_min : Protocol, kx : KeyExchanges, enc : Encryptions,
          key_bits : Nat, is_aead : BOOLEAN, is_obsolete : BOOLEAN, rating : SecurityRating] :
     RatedByRule(c)}

Sound(s, n, ids) ==
  /\ s \in Seq(Rows) /\ Len(s) = n
  /\ \A i \in 1..Len(s) : s[i].id \in ids
  /\ \A i, j \in 1..Len(s) : s[i].id = s[j].id => i = j

LEMMA GroupIsSound ==
  ASSUME NEW s, NEW n \in Nat, NEW ids \in SUBSET TableIds, IsGroup(s, n, ids)
  PROVE  Sound(s, n, ids)
<1>1. ASSUME NEW i \in 1..n PROVE s[i] \in Rows
  <2> DEFINE c == s[i]
  <2>1. HasFields(c) /\ RowTyped(c) /\ RatedByRule(c) /\ c.id \in TableIds
    BY DEF IsGroup
  <2>2. c.is_aead \in BOOLEAN /\ c.is_obsolete \in BOOLEAN
    BY <2>1 DEF RowTyped
  <2> HIDE DEF c
  <2>3. c \in [id : TableIds, protocol_min : Protocol, kx : KeyExchanges, enc : Encryptions,
               key_bits : Nat, is_aead : BOOLEAN, is_obsolete : BOOLEAN, rating : SecurityRating]
    BY <2>1, <2>2 DEF RowTyped, HasFields
  <2> QED BY <2>1, <2>3 DEF Rows, c
<1>2. s = [i \in 1..n |-> s[i]]
  BY DEF IsGroup
<1>3. s \in Seq(Rows) /\ Len(s) = n
  BY <1>1, <1>2
<1> QED BY <1>3 DEF Sound, IsGroup

(* Groups without an id in common make one sequence with distinct ids. *)
LEMMA Joined ==
  ASSUME NEW A, NEW m \in Nat, NEW s, Sound(s, m, A),
         NEW B, NEW n \in Nat, NEW t, Sound(t, n, B),
         \A id \in B : id \notin A, NEW k, m + n = k
  PROVE  Sound(s \o t, k, A \cup B)
<1> DEFINE u == s \o t
<1>1. s \in Seq(Rows) /\ t \in Seq(Rows) /\ Len(s) = m /\ Len(t) = n
  BY DEF Sound
<1>2. /\ u \in Seq(Rows) /\ Len(u) = Len(s) + Len(t)
      /\ \A i \in 1..Len(s) : u[i] = s[i]
      /\ \A i \in 1..Len(t) : u[Len(s) + i] = t[i]
  BY <1>1
<1> HIDE DEF u
<1>3. ASSUME NEW i \in 1..Len(u)
      PROVE  \/ i \in 1..Len(s) /\ u[i] = s[i] /\ u[i].id \in A
             \/ i - Len(s) \in 1..Len(t) /\ u[i] = t[i - Len(s)] /\ u[i].id \in B
  <2>1. CASE i \in 1..Len(s)
    BY <1>2, <2>1 DEF Sound
  <2>2. CASE i \notin 1..Len(s)
    <3>1. i - Len(s) \in 1..Len(t) /\ Len(s) + (i - Len(s)) = i
      BY <1>1, <1>2, <2>2
    <3> QED BY <1>2, <3>1 DEF Sound
  <2> QED BY <2>1, <2>2
<1>4. ASSUME NEW i \in 1..Len(u), NEW j \in 1..Len(u), u[i].id = u[j].id
      PROVE  i = j
  <2>1. CASE i \in 1..Len(s) /\ j \in 1..Len(s)
    BY <1>2, <1>4, <2>1 DEF Sound
  <2>2. CASE i - Len(s) \in 1..Len(t) /\ j - Len(s) \in 1..Len(t)
    <3>1. u[i] = t[i - Len(s)] /\ u[j] = t[j - Len(s)]
      <4>1. i \notin 1..Len(s) /\ j \notin 1..Len(s)
        BY <1>1, <2>2
      <4> QED BY <1>3, <4>1
    <3>2. i - Len(s) = j - Len(s)
      BY <1>4, <2>2, <3>1 DEF Sound
    <3> QED BY <1>1, <1>2, <3>2
  <2> QED BY <1>3, <1>4, <2>1, <2>2
<1>5. Len(u) = k
  BY <1>1, <1>2
<1> QED BY <1>2, <1>3, <1>4, <1>5 DEF Sound, u

(* No id is in two groups. *)
LEMMA Tls12AeadFresh ==
  ASSUME NEW id \in Tls12AeadIds
  PROVE  id \notin Tls13Ids
BY DEF Tls13Ids, Tls12AeadIds

LEMMA Tls12CbcFresh ==
  ASSUME NEW id \in Tls12CbcIds
  PROVE  id \notin Tls13Ids \cup Tls12AeadIds
BY DEF Tls13Ids, Tls12AeadIds, Tls12CbcIds

LEMMA Sha1Fresh ==
  ASSUME NEW id \in Sha1Ids
  PROVE  id \notin Tls13Ids \cup Tls12AeadIds \cup Tls12CbcIds
BY DEF Tls13Ids, Tls12AeadIds, Tls12CbcIds, Sha1Ids

LEMMA StaticRsaFresh ==
  ASSUME NEW id \in StaticRsaIds
  PROVE  id \notin 
           Tls13Ids \cup Tls12AeadIds \cup Tls12CbcIds \cup Sha1Ids
BY DEF Tls13Ids, Tls12AeadIds, Tls12CbcIds, Sha1Ids, StaticRsaIds

LEMMA TripleDesFresh ==
  ASSUME NEW id \in TripleDesIds
  PROVE  id \notin 
           Tls13Ids \cup Tls12AeadIds \cup Tls12CbcIds \cup Sha1Ids \cup StaticRsaIds
BY DEF Tls13Ids, Tls12AeadIds, Tls12CbcIds, Sha1Ids, StaticRsaIds, TripleDesIds

LEMMA Rc4Fresh ==
  ASSUME NEW id \in Rc4Ids
  PROVE  id \notin 
           Tls13Ids \cup Tls12AeadIds \cup Tls12CbcIds \cup Sha1Ids \cup StaticRsaIds \cup TripleDesIds
BY DEF Tls13Ids, Tls12AeadIds, Tls12CbcIds, Sha1Ids, StaticRsaIds, TripleDesIds, Rc4Ids

LEMMA DesFresh ==
  ASSUME NEW id \in DesIds
  PROVE  id \notin 
           Tls13Ids \cup Tls12AeadIds \cup Tls12CbcIds \cup Sha1Ids \cup StaticRsaIds \cup TripleDesIds
             \cup Rc4Ids
BY DEF Tls13Ids, Tls12AeadIds, Tls12CbcIds, Sha1Ids, StaticRsaIds, TripleDesIds, Rc4Ids, DesIds

LEMMA ExportFresh ==
  ASSUME NEW id \in ExportIds
  PROVE  id \notin 
           Tls13Ids \cup Tls12AeadIds \cup Tls12CbcIds \cup Sha1Ids \cup StaticRsaIds \cup TripleDesIds
             \cup Rc4Ids \cup DesIds
BY DEF Tls13Ids, Tls12AeadIds, Tls12CbcIds, Sha1Ids, StaticRsaIds, TripleDesIds, Rc4Ids, DesIds, ExportIds

LEMMA AnonFresh ==
  ASSUME NEW id \in AnonIds
  PROVE  id \notin 
           Tls13Ids \cup Tls12AeadIds \cup Tls12CbcIds \cup Sha1Ids \cup StaticRsaIds \cup TripleDesIds
             \cup Rc4Ids \cup DesIds \cup ExportIds
BY DEF Tls13Ids, Tls12AeadIds, Tls12CbcIds, Sha1Ids, StaticRsaIds, TripleDesIds, Rc4Ids, DesIds, ExportIds, AnonIds

LEMMA NullFresh ==
  ASSUME NEW id \in NullIds
  PROVE  id \notin 
           Tls13Ids \cup Tls12AeadIds \cup Tls12CbcIds \cup Sha1Ids \cup StaticRsaIds \cup TripleDesIds
             \cup Rc4Ids \cup DesIds \cup ExportIds \cup AnonIds
BY DEF Tls13Ids, Tls12AeadIds, Tls12CbcIds, Sha1Ids, StaticRsaIds, TripleDesIds, Rc4Ids, DesIds, ExportIds, AnonIds, NullIds

LEMMA AdditionalFresh ==
  ASSUME NEW id \in AdditionalIds
  PROVE  id \notin 
           Tls13Ids \cup Tls12AeadIds \cup Tls12CbcIds \cup Sha1Ids \cup StaticRsaIds \cup TripleDesIds
             \cup Rc4Ids \cup DesIds \cup ExportIds \cup AnonIds \cup NullIds
BY DEF Tls13Ids, Tls12AeadIds, Tls12CbcIds, Sha1Ids, StaticRsaIds, TripleDesIds, Rc4Ids, DesIds, ExportIds, AnonIds, NullIds, AdditionalIds

LEMMA TableSound == Sound(ALL_CIPHERS, 67, TableIds)
<1>1. Sound(Tls13Suites, 5, Tls13Ids)
  BY Tls13Rows, GroupIsSound DEF TableIds
<1>2. Sound(Tls12AeadSuites, 9, Tls12AeadIds)
  BY Tls12AeadRows, GroupIsSound DEF TableIds
<1>3. Sound(Tls12CbcSuites, 6, Tls12CbcIds)
  BY Tls12CbcRows, GroupIsSound DEF TableIds
<1>4. Sound(Sha1Suites, 6, Sha1Ids)
  BY Sha1Rows, GroupIsSound DEF TableIds
<1>5. Sound(StaticRsaSuites, 6, StaticRsaIds)
  BY StaticRsaRows, GroupIsSound DEF TableIds
<1>6. Sound(TripleDesSuites, 4, TripleDesIds)
  BY TripleDesRows, GroupIsSound DEF TableIds
<1>7. Sound(Rc4Suites, 4, Rc4Ids)
  BY Rc4Rows, GroupIsSound DEF TableIds
<1>8. Sound(DesSuites, 2, DesIds)
  BY DesRows, GroupIsSound DEF TableIds
<1>9. Sound(ExportSuites, 4, ExportIds)
  BY ExportRows, GroupIsSound DEF TableIds
<1>10. Sound(AnonSuites, 9, AnonIds)
  BY AnonRows, GroupIsSound DEF TableIds
<1>11. Sound(NullSuites, 7, NullIds)
  BY NullRows, GroupIsSound DEF TableIds
<1>12. Sound(AdditionalSuites, 5, AdditionalIds)
  BY AdditionalRows, GroupIsSound DEF TableIds
<1>13. Sound(Tls13Suites \o Tls12AeadSuites, 14,
             Tls13Ids \cup Tls12AeadIds)
  <2>1. \A id \in Tls12AeadIds : id \notin Tls13Ids
    BY Tls12AeadFresh
  <2>2. 5 \in Nat /\ 9 \in Nat /\ 5 + 9 = 14
    OBVIOUS
  <2> QED BY <1>1, <1>2, <2>1, <2>2, Joined, Zenon
<1>14. Sound(Tls13Suites \o Tls12AeadSuites \o Tls12CbcSuites, 20,
             Tls13Ids \cup Tls12AeadIds \cup Tls12CbcIds)
  <2>1. \A id \in Tls12CbcIds : id \notin Tls13Ids \cup Tls12AeadIds
    BY Tls12CbcFresh
  <2>2. 14 \in Nat /\ 6 \in Nat /\ 14 + 6 = 20
    OBVIOUS
  <2> QED BY <1>13, <1>3, <2>1, <2>2, Joined, Zenon
<1>15. Sound(Tls13Suites \o Tls12AeadSuites \o Tls12CbcSuites \o Sha1Suites, 26,
             Tls13Ids \cup Tls12AeadIds \cup Tls12CbcIds \cup Sha1Ids)
  <2>1. \A id \in Sha1Ids : id \notin Tls13Ids \cup Tls12AeadIds \cup Tls12CbcIds
    BY Sha1Fresh
  <2>2. 20 \in Nat /\ 6 \in Nat /\ 20 + 6 = 26
    OBVIOUS
  <2> QED BY <1>14, <1>4, <2>1, <2>2, Joined, Zenon
<1>16. Sound(Tls13Suites \o Tls12AeadSuites \o Tls12CbcSuites \o Sha1Suites
             \o StaticRsaSuites, 32,
             Tls13Ids \cup Tls12AeadIds \cup Tls12CbcIds \cup Sha1Ids
             \cup StaticRsaIds)
  <2>1. \A id \in StaticRsaIds : id \notin Tls13Ids \cup Tls12AeadIds \cup Tls12CbcIds \cup Sha1Ids
    BY StaticRsaFresh
  <2>2. 26 \in Nat /\ 6 \in Nat /\ 26 + 6 = 32
    OBVIOUS
  <2> QED BY <1>15, <1>5, <2>1, <2>2, Joined, Zenon
<1>17. Sound(Tls13Suites \o Tls12AeadSuites \o Tls12CbcSuites \o Sha1Suites
             \o StaticRsaSuites \o TripleDesSuites, 36,
             Tls13Ids \cup Tls12AeadIds \cup Tls12CbcIds \cup Sha1Ids
             \cup StaticRsaIds \cup TripleDesIds)
  <2>1. \A id \in TripleDesIds : id \notin Tls13Ids \cup Tls12AeadIds \cup Tls12CbcIds \cup Sha1Ids
                           \cup StaticRsaIds
    BY TripleDesFresh
  <2>2. 32 \in Nat /\ 4 \in Nat /\ 32 + 4 = 36
    OBVIOUS
  <2> QED BY <1>16, <1>6, <2>1, <2>2, Joined, Zenon
<1>18. Sound(Tls13Suites \o Tls12AeadSuites \o Tls12CbcSuites \o Sha1Suites
             \o StaticRsaSuites \o TripleDesSuites \o Rc4Suites, 40,
             Tls13Ids \cup Tls12AeadIds \cup Tls12CbcIds \cup Sha1Ids
             \cup StaticRsaIds \cup TripleDesIds \cup Rc4Ids)
  <2>1. \A id \in Rc4Ids : id \notin Tls13Ids \cup Tls12AeadIds \cup Tls12CbcIds \cup Sha1Ids
                           \cup StaticRsaIds \cup TripleDesIds
    BY Rc4Fresh
  <2>2. 36 \in Nat /\ 4 \in Nat /\ 36 + 4 = 40
    OBVIOUS
  <2> QED BY <1>17, <1>7, <2>1, <2>2, Joined, Zenon
<1>19. Sound(Tls13Suites \o Tls12AeadSuites \o Tls12CbcSuites \o Sha1Suites
             \o StaticRsaSuites \o TripleDesSuites \o Rc4Suites \o DesSuites, 42,
             Tls13Ids \cup Tls12AeadIds \cup Tls12CbcIds \cup Sha1Ids
             \cup StaticRsaIds \cup TripleDesIds \cup Rc4Ids \cup DesIds)
  <2>1. \A id \in DesIds : id \notin Tls13Ids \cup Tls12AeadIds \cup Tls12CbcIds \cup Sha1Ids
                           \cup StaticRsaIds \cup TripleDesIds \cup Rc4Ids
    BY DesFresh
  <2>2. 40 \in Nat /\ 2 \in Nat /\ 40 + 2 = 42
    OBVIOUS
  <2> QED BY <1>18, <1>8, <2>1, <2>2, Joined, Zenon
<1>20. Sound(Tls13Suites \o Tls12AeadSuites \o Tls12CbcSuites \o Sha1Suites
             \o StaticRsaSuites \o TripleDesSuites \o Rc4Suites \o DesSuites
             \o ExportSuites, 46,
             Tls13Ids \cup Tls12AeadIds \cup Tls12CbcIds \cup Sha1Ids
             \cup StaticRsaIds \cup TripleDesIds \cup Rc4Ids \cup DesIds
             \cup ExportIds)
  <2>1. \A id \in ExportIds : id \notin Tls13Ids \cup Tls12AeadIds \cup Tls12CbcIds \cup Sha1Ids
                           \cup StaticRsaIds \cup TripleDesIds \cup Rc4Ids \cup DesIds
    BY ExportFresh
  <2>2. 42 \in Nat /\ 4 \in Nat /\ 42 + 4 = 46
    OBVIOUS
  <2> QED BY <1>19, <1>9, <2>1, <2>2, Joined, Zenon
<1>21. Sound(Tls13Suites \o Tls12AeadSuites \o Tls12CbcSuites \o Sha1Suites
             \o StaticRsaSuites \o TripleDesSuites \o Rc4Suites \o DesSuites
             \o ExportSuites \o AnonSuites, 55,
             Tls13Ids \cup Tls12AeadIds \cup Tls12CbcIds \cup Sha1Ids
             \cup StaticRsaIds \cup TripleDesIds \cup Rc4Ids \cup DesIds
             \cup ExportIds \cup AnonIds)
  <2>1. \A id \in AnonIds : id \notin Tls13Ids \cup Tls12AeadIds \cup Tls12CbcIds \cup Sha1Ids
                           \cup StaticRsaIds \cup TripleDesIds \cup Rc4Ids \cup DesIds
                           \cup ExportIds
    BY AnonFresh
  <2>2. 46 \in Nat /\ 9 \in Nat /\ 46 + 9 = 55
    OBVIOUS
  <2> QED BY <1>20, <1>10, <2>1, <2>2, Joined, ZenonT(90)
<1>22. Sound(Tls13Suites \o Tls12AeadSuites \o Tls12CbcSuites \o Sha1Suites
             \o StaticRsaSuites \o TripleDesSuites \o Rc4Suites \o DesSuites
             \o ExportSuites \o AnonSuites \o NullSuites, 62,
             Tls13Ids \cup Tls12AeadIds \cup Tls12CbcIds \cup Sha1Ids
             \cup StaticRsaIds \cup TripleDesIds \cup Rc4Ids \cup DesIds
             \cup ExportIds \cup AnonIds \cup NullIds)
  <2>1. \A id \in NullIds : id \notin Tls13Ids \cup Tls12AeadIds \cup Tls12CbcIds \cup Sha1Ids
                           \cup StaticRsaIds \cup TripleDesIds \cup Rc4Ids \cup DesIds
                           \cup ExportIds \cup AnonIds
    BY NullFresh
  <2>2. 55 \in Nat /\ 7 \in Nat /\ 55 + 7 = 62
    OBVIOUS
  <2> QED BY <1>21, <1>11, <2>1, <2>2, Joined, ZenonT(90)
<1>23. Sound(Tls13Suites \o Tls12AeadSuites \o Tls12CbcSuites \o Sha1Suites
             \o StaticRsaSuites \o TripleDesSuites \o Rc4Suites \o DesSuites
             \o ExportSuites \o AnonSuites \o NullSuites \o AdditionalSuites, 67,
             Tls13Ids \cup Tls12AeadIds \cup Tls12CbcIds \cup Sha1Ids
             \cup StaticRsaIds \cup TripleDesIds \cup Rc4Ids \cup DesIds
             \cup ExportIds \cup AnonIds \cup NullIds \cup AdditionalIds)
  <2>1. \A id \in AdditionalIds : id \notin Tls13Ids \cup Tls12AeadIds \cup Tls12CbcIds \cup Sha1Ids
                           \cup StaticRsaIds \cup TripleDesIds \cup Rc4Ids \cup DesIds
                           \cup ExportIds \cup AnonIds \cup NullIds
    BY AdditionalFresh
  <2>2. 62 \in Nat /\ 5 \in Nat /\ 62 + 5 = 67
    OBVIOUS
  <2> QED BY <1>22, <1>12, <2>1, <2>2, Joined, ZenonT(90)
<1> QED BY <1>23 DEF ALL_CIPHERS, TableIds

(***************************************************************************)
(* The table of cipher.rs: its ids are distinct, every row is well formed, *)
(* and its rating is the one the rules of evaluate_vulnerabilities lead    *)
(* to.  So the table meets TlsServer's TableAssumption.                    *)
(***************************************************************************)
THEOREM TheTable ==
  /\ ALL_CIPHERS \in Seq(Members(ALL_CIPHERS)) /\ Len(ALL_CIPHERS) = 67
  /\ \A i, j \in 1..Len(ALL_CIPHERS) : ALL_CIPHERS[i].id = ALL_CIPHERS[j].id => i = j
  /\ \A c \in Members(ALL_CIPHERS) : c \in CipherSuiteInfo /\ RatedByRule(c)
<1>1. /\ ALL_CIPHERS \in Seq(Rows) /\ Len(ALL_CIPHERS) = 67
      /\ \A i, j \in 1..Len(ALL_CIPHERS) : ALL_CIPHERS[i].id = ALL_CIPHERS[j].id => i = j
  BY TableSound DEF Sound
<1>2. \A s \in Seq(Rows) : s \in Seq(Members(s)) /\ Members(s) \subseteq Rows
  BY DEF Members
<1>3. ASSUME NEW c \in Members(ALL_CIPHERS)
      PROVE  c \in CipherSuiteInfo /\ RatedByRule(c)
  <2>1. c \in Rows
    BY <1>1, <1>2
  <2>2. c.id \in {d.id : d \in Members(ALL_CIPHERS)}
    OBVIOUS
  <2> QED BY <2>1, <2>2 DEF Rows, CipherSuiteInfo
<1> QED BY <1>1, <1>2, <1>3

-----------------------------------------------------------------------------
(* The order of the ratings *)

LEMMA RatingRanks ==
  /\ RatingRank["Recommended"] = 1 /\ RatingRank["Secure"] = 2 /\ RatingRank["Deprecated"] = 3
  /\ RatingRank["Weak"] = 4 /\ RatingRank["Insecure"] = 5 /\ RatingRank["Critical"] = 6
<1> DEFINE order == SecurityRatingOrder
<1>1. /\ Len(order) = 6 /\ order[1] = "Recommended" /\ order[2] = "Secure" /\ order[3] = "Deprecated"
      /\ order[4] = "Weak" /\ order[5] = "Insecure" /\ order[6] = "Critical"
  BY DEF SecurityRatingOrder
<1>2. \A i \in 1..6 : i = 1 \/ i = 2 \/ i = 3 \/ i = 4 \/ i = 5 \/ i = 6
  OBVIOUS
<1>3. \A i, j \in 1..6 : order[i] = order[j] => i = j
  BY <1>1, <1>2
<1>4. ASSUME NEW i \in 1..6
      PROVE  order[i] \in SecurityRating /\ RatingRank[order[i]] = i
  <2>1. order[i] \in SecurityRating
    BY <1>1 DEF SecurityRating
  <2>2. (CHOOSE j \in 1..Len(order) : order[j] = order[i]) = i
    BY <1>1, <1>3
  <2> QED BY <2>1, <2>2 DEF RatingRank
<1> QED BY <1>1, <1>4

-----------------------------------------------------------------------------
(* Which suites and protocols lead to findings *)

(* Some rule of CipherFindings applies to the suite. *)
Alarm(c) == Flagged(c) \/ (c.rating = "Critical" /\ c.key_bits \in 1..56)

(* The rules and is_vulnerable tell the same suites of the table apart. *)
LEMMA AlarmIsVulnerable ==
  ASSUME NEW c, RatedByRule(c)
  PROVE  Alarm(c) <=> SuiteIsVulnerable(c)
BY DEF RatedByRule, Alarm, Flagged, SuiteIsVulnerable, RatingIsVulnerable

LEMMA FindingFields ==
  ASSUME NEW title, NEW rating
  PROVE  Finding(title, rating).title = title /\ Finding(title, rating).rating = rating
BY DEF Finding

LEMMA WhenHolds ==
  ASSUME NEW condition, NEW title, NEW rating, NEW f \in When(condition, title, rating)
  PROVE  condition /\ f.title = title /\ f.rating = rating
BY FindingFields, Zenon DEF When

(* Every rule that finds something was led to it by a suite. *)
LEMMA CipherFindingsHaveCause ==
  ASSUME NEW ciphers, NEW f \in CipherFindings(ciphers)
  PROVE  RatingIsVulnerable(f.rating) /\ \E c \in ciphers : Alarm(c)
<1>1. CASE f \in When(has_null(ciphers), "NULL ciphers", "Critical")
  <2>1. has_null(ciphers) /\ f.rating = "Critical"
    BY <1>1, WhenHolds
  <2> QED BY <2>1 DEF has_null, Alarm, Flagged, RatingIsVulnerable
<1>2. CASE f \in When(has_export(ciphers), "Export ciphers", "Critical")
  <2>1. has_export(ciphers) /\ f.rating = "Critical"
    BY <1>2, WhenHolds
  <2> QED BY <2>1 DEF has_export, Alarm, RatingIsVulnerable
<1>3. CASE f \in When(has_3des(ciphers), "3DES / DES ciphers", "Insecure")
  <2>1. has_3des(ciphers) /\ f.rating = "Insecure"
    BY <1>3, WhenHolds
  <2> QED BY <2>1 DEF has_3des, Alarm, Flagged, RatingIsVulnerable
<1>4. CASE f \in When(has_rc4(ciphers), "RC4 ciphers", "Insecure")
  <2>1. has_rc4(ciphers) /\ f.rating = "Insecure"
    BY <1>4, WhenHolds
  <2> QED BY <2>1 DEF has_rc4, Alarm, Flagged, RatingIsVulnerable
<1>5. CASE f \in When(has_anon(ciphers), "Anonymous ciphers", "Critical")
  <2>1. has_anon(ciphers) /\ f.rating = "Critical"
    BY <1>5, WhenHolds
  <2> QED BY <2>1 DEF has_anon, Alarm, Flagged, RatingIsVulnerable
<1>6. CASE f \in When(has_static_rsa(ciphers), "Static RSA", "Weak")
  <2>1. has_static_rsa(ciphers) /\ f.rating = "Weak"
    BY <1>6, WhenHolds
  <2> QED BY <2>1 DEF has_static_rsa, Alarm, Flagged, RatingIsVulnerable
<1>7. CASE f \in When(has_cbc(ciphers), "CBC ciphers", "Weak")
  <2>1. has_cbc(ciphers) /\ f.rating = "Weak"
    BY <1>7, WhenHolds
  <2> QED BY <2>1 DEF has_cbc, Alarm, Flagged, RatingIsVulnerable
<1> QED BY <1>1, <1>2, <1>3, <1>4, <1>5, <1>6, <1>7, Zenon DEF CipherFindings

(* What a suite leads to, rule by rule. *)
LEMMA SuiteIsFound ==
  ASSUME NEW ciphers, NEW c \in ciphers
  PROVE  LET found(rating) == \E f \in CipherFindings(ciphers) : f.rating = rating
         IN /\ c.enc = "None" \/ c.key_bits = 0 => found("Critical")
            /\ c.rating = "Critical" /\ c.key_bits \in 1..56 => found("Critical")
            /\ c.kx = "Anon" => found("Critical")
            /\ c.enc \in ContainsDES \cup {"RC4"} => found("Insecure")
            /\ c.kx = "RSA" => found("Weak")
            /\ c.enc \in ContainsCBC => found("Weak")
<1> DEFINE found(rating) == \E f \in CipherFindings(ciphers) : f.rating = rating
<1>1. has_null(ciphers) => found("Critical")
  <2>1. has_null(ciphers) => Finding("NULL ciphers", "Critical") \in CipherFindings(ciphers)
    BY Zenon DEF CipherFindings, When
  <2> QED BY <2>1, FindingFields, Zenon
<1>2. has_export(ciphers) => found("Critical")
  <2>1. has_export(ciphers) => Finding("Export ciphers", "Critical") \in CipherFindings(ciphers)
    BY Zenon DEF CipherFindings, When
  <2> QED BY <2>1, FindingFields, Zenon
<1>3. has_anon(ciphers) => found("Critical")
  <2>1. has_anon(ciphers) => Finding("Anonymous ciphers", "Critical") \in CipherFindings(ciphers)
    BY Zenon DEF CipherFindings, When
  <2> QED BY <2>1, FindingFields, Zenon
<1>4. has_3des(ciphers) => found("Insecure")
  <2>1. has_3des(ciphers) => Finding("3DES / DES ciphers", "Insecure") \in CipherFindings(ciphers)
    BY Zenon DEF CipherFindings, When
  <2> QED BY <2>1, FindingFields, Zenon
<1>5. has_rc4(ciphers) => found("Insecure")
  <2>1. has_rc4(ciphers) => Finding("RC4 ciphers", "Insecure") \in CipherFindings(ciphers)
    BY Zenon DEF CipherFindings, When
  <2> QED BY <2>1, FindingFields, Zenon
<1>6. has_static_rsa(ciphers) => found("Weak")
  <2>1. has_static_rsa(ciphers) => Finding("Static RSA", "Weak") \in CipherFindings(ciphers)
    BY Zenon DEF CipherFindings, When
  <2> QED BY <2>1, FindingFields, Zenon
<1>7. has_cbc(ciphers) => found("Weak")
  <2>1. has_cbc(ciphers) => Finding("CBC ciphers", "Weak") \in CipherFindings(ciphers)
    BY Zenon DEF CipherFindings, When
  <2> QED BY <2>1, FindingFields, Zenon
<1> HIDE DEF found
<1>8. /\ c.enc = "None" \/ c.key_bits = 0 => found("Critical")
      /\ c.rating = "Critical" /\ c.key_bits \in 1..56 => found("Critical")
      /\ c.kx = "Anon" => found("Critical")
      /\ c.enc \in ContainsDES \cup {"RC4"} => found("Insecure")
      /\ c.kx = "RSA" => found("Weak")
      /\ c.enc \in ContainsCBC => found("Weak")
  BY <1>1, <1>2, <1>3, <1>4, <1>5, <1>6, <1>7
     DEF has_null, has_export, has_anon, has_3des, has_rc4, has_static_rsa, has_cbc
<1> QED BY <1>8 DEF found

(***************************************************************************)
(* A suite that is_vulnerable leads to a finding that is at least as       *)
(* severe as its rating.                                                   *)
(***************************************************************************)
LEMMA SevereEnough ==
  ASSUME NEW ciphers, NEW c \in ciphers, RatedByRule(c), SuiteIsVulnerable(c)
  PROVE  \E f \in CipherFindings(ciphers) : RatingRank[f.rating] >= RatingRank[c.rating]
<1> DEFINE found(rating) == \E f \in CipherFindings(ciphers) : f.rating = rating
<1>1. /\ c.enc = "None" \/ c.key_bits = 0 => found("Critical")
      /\ c.rating = "Critical" /\ c.key_bits \in 1..56 => found("Critical")
      /\ c.kx = "Anon" => found("Critical")
      /\ c.enc \in ContainsDES \cup {"RC4"} => found("Insecure")
      /\ c.kx = "RSA" => found("Weak")
      /\ c.enc \in ContainsCBC => found("Weak")
  BY SuiteIsFound
<1> HIDE DEF found
<1>2. RatingIsVulnerable(c.rating)
  BY DEF SuiteIsVulnerable, RatedByRule
<1>3. CASE c.rating = "Critical"
  <2>1. found("Critical")
    BY <1>1, <1>3 DEF RatedByRule
  <2> QED BY <1>3, <2>1, RatingRanks DEF found
<1>4. CASE c.rating = "Insecure"
  <2>1. found("Insecure")
    BY <1>1, <1>4 DEF RatedByRule
  <2> QED BY <1>4, <2>1, RatingRanks DEF found
<1>5. CASE c.rating \in {"Deprecated", "Weak"}
  <2>1. found("Weak")
    BY <1>1, <1>5 DEF RatedByRule
  <2> QED BY <1>5, <2>1, RatingRanks DEF found
<1> QED BY <1>2, <1>3, <1>4, <1>5 DEF RatingIsVulnerable

(* A protocol leads to a finding exactly if it is obsolete and enabled. *)
LEMMA ProtocolAlarm ==
  ASSUME NEW protocols
  PROVE  /\ \A f \in ProtocolFindings(protocols) : RatingIsVulnerable(f.rating)
         /\ ProtocolFindings(protocols) # {} <=> \E r \in protocols : r.supported /\ is_obsolete(r.protocol)
<1>1. ASSUME NEW f \in ProtocolFindings(protocols)
      PROVE  RatingIsVulnerable(f.rating) /\ \E r \in protocols : r.supported /\ is_obsolete(r.protocol)
  <2>1. CASE f \in When(IsEnabled(protocols, "Ssl2"), "SSLv2 enabled", "Critical")
    <3>1. IsEnabled(protocols, "Ssl2") /\ f.rating = "Critical"
      BY <2>1, WhenHolds
    <3> QED BY <3>1 DEF IsEnabled, is_obsolete, RatingIsVulnerable
  <2>2. CASE f \in When(IsEnabled(protocols, "Ssl3"), "SSLv3 enabled", "Critical")
    <3>1. IsEnabled(protocols, "Ssl3") /\ f.rating = "Critical"
      BY <2>2, WhenHolds
    <3> QED BY <3>1 DEF IsEnabled, is_obsolete, RatingIsVulnerable
  <2>3. CASE f \in When(IsEnabled(protocols, "Tls10"), "TLS 1.0 enabled", "Deprecated")
    <3>1. IsEnabled(protocols, "Tls10") /\ f.rating = "Deprecated"
      BY <2>3, WhenHolds
    <3> QED BY <3>1 DEF IsEnabled, is_obsolete, RatingIsVulnerable
  <2>4. CASE f \in When(IsEnabled(protocols, "Tls11"), "TLS 1.1 enabled", "Deprecated")
    <3>1. IsEnabled(protocols, "Tls11") /\ f.rating = "Deprecated"
      BY <2>4, WhenHolds
    <3> QED BY <3>1 DEF IsEnabled, is_obsolete, RatingIsVulnerable
  <2> QED BY <2>1, <2>2, <2>3, <2>4, Zenon DEF ProtocolFindings
<1>2. ASSUME NEW r \in protocols, r.supported, is_obsolete(r.protocol)
      PROVE  ProtocolFindings(protocols) # {}
  <2>1. IsEnabled(protocols, r.protocol)
    BY <1>2 DEF IsEnabled
  <2>2. \/ IsEnabled(protocols, "Ssl2") \/ IsEnabled(protocols, "Ssl3")
        \/ IsEnabled(protocols, "Tls10") \/ IsEnabled(protocols, "Tls11")
    BY <1>2, <2>1 DEF is_obsolete
  <2> QED BY <2>2, Zenon DEF ProtocolFindings, When
<1> QED BY <1>1, <1>2

LEMMA LeafFindingsAreSevere ==
  ASSUME NEW leaf, NEW f \in LeafFindings(leaf)
  PROVE  RatingIsVulnerable(f.rating)
<1>1. \A condition, title, rating : f \in When(condition, title, rating) => f.rating = rating
  BY WhenHolds
<1>2. f.rating = "Critical" \/ f.rating = "Weak" \/ f.rating = "Insecure"
  BY <1>1, Zenon DEF LeafFindings
<1> QED BY <1>2 DEF RatingIsVulnerable

LEMMA FindingsAreSevere ==
  ASSUME NEW protocols, NEW ciphers, NEW cert_report,
         NEW f \in evaluate_vulnerabilities(protocols, ciphers, cert_report)
  PROVE  RatingIsVulnerable(f.rating)
<1>1. CASE f \in ProtocolFindings(protocols)
  BY <1>1, ProtocolAlarm
<1>2. CASE f \in CipherFindings(ciphers)
  BY <1>2, CipherFindingsHaveCause
<1>3. CASE f \in CertFindings(cert_report)
  BY <1>3, LeafFindingsAreSevere DEF CertFindings
<1> QED BY <1>1, <1>2, <1>3 DEF evaluate_vulnerabilities

-----------------------------------------------------------------------------
(***************************************************************************)
(* What the overall rating says of the findings: it is the first rating of *)
(* one of them in the order in which compute_overall_rating looks, and one *)
(* of the two best exactly if there is none.                               *)
(***************************************************************************)
Severities == <<"Critical", "Insecure", "Deprecated", "Weak">>

LEMMA TheSeverities ==
  /\ Severities \in Seq(SecurityRating) /\ Len(Severities) = 4
  /\ \A r : r \in Members(Severities) <=> RatingIsVulnerable(r)
<1>1. /\ Len(Severities) = 4 /\ Severities[1] = "Critical" /\ Severities[2] = "Insecure"
      /\ Severities[3] = "Deprecated" /\ Severities[4] = "Weak"
  BY DEF Severities
<1>2. \A i \in 1..4 : i = 1 \/ i = 2 \/ i = 3 \/ i = 4
  OBVIOUS
<1>3. \A r : (\E i \in 1..4 : Severities[i] = r) <=> RatingIsVulnerable(r)
  BY <1>1, <1>2 DEF RatingIsVulnerable
<1>4. Severities \in Seq(SecurityRating)
  BY TheRatings DEF Severities
<1> QED BY <1>1, <1>3, <1>4 DEF Members

LEMMA OverallRating ==
  ASSUME NEW protocols, NEW ciphers, NEW findings,
         \A f \in findings : RatingIsVulnerable(f.rating)
  PROVE  LET rating == compute_overall_rating(protocols, ciphers, findings)
         IN /\ rating \in {"Recommended", "Secure"} <=> findings = {}
            /\ findings # {} => \E f \in findings : rating = f.rating
            /\ rating \in SecurityRating
            /\ rating = "Recommended" =>
                 /\ IsEnabled(protocols, "Tls13")
                 /\ ciphers # {} /\ \A c \in ciphers : c.is_aead
<1> DEFINE ratings == {f.rating : f \in findings}
           severe  == Filter(Severities, ratings)
           best    == IsEnabled(protocols, "Tls13") /\ ciphers # {} /\ \A c \in ciphers : c.is_aead
           rating  == compute_overall_rating(protocols, ciphers, findings)
<1>1. rating = IF severe # <<>> THEN severe[1] ELSE IF best THEN "Recommended" ELSE "Secure"
  BY DEF compute_overall_rating, Severities
<1> HIDE DEF ratings
<1>2. severe \in Seq(SecurityRating) /\ Members(severe) = Members(Severities) \cap ratings
  BY TheSeverities, FilterKeeps
<1>3. Members(severe) = ratings
  BY <1>2, TheSeverities DEF ratings
<1> HIDE DEF severe
<1>4. severe = <<>> <=> findings = {}
  <2>1. severe = <<>> <=> Members(severe) = {}
    BY <1>2, MembersOf
  <2>2. ratings = {} <=> findings = {}
    BY DEF ratings
  <2> QED BY <1>3, <2>1, <2>2
<1>5. severe # <<>> => severe[1] \in Members(severe) /\ severe[1] \in SecurityRating
  BY <1>2 DEF Members
<1> HIDE DEF rating, best
<1>6. CASE findings = {}
  <2>1. rating = IF best THEN "Recommended" ELSE "Secure"
    BY <1>1, <1>4, <1>6
  <2>2. /\ rating \in {"Recommended", "Secure"} /\ rating \in SecurityRating
        /\ rating = "Recommended" => best
    BY <2>1, TheRatings
  <2> QED BY <1>6, <2>2 DEF rating, best
<1>7. CASE findings # {}
  <2>1. rating \in ratings /\ rating \in SecurityRating
    BY <1>1, <1>3, <1>4, <1>5, <1>7
  <2>2. PICK f \in findings : rating = f.rating
    BY <2>1 DEF ratings
  <2>3. rating \notin {"Recommended", "Secure"}
    BY <2>2 DEF RatingIsVulnerable
  <2> QED BY <1>7, <2>1, <2>2, <2>3 DEF rating
<1> QED BY <1>6, <1>7

(* The overall rating is the first that a finding has, in that order. *)
LEMMA FirstSeverity ==
  ASSUME NEW protocols, NEW ciphers, NEW findings, findings # {},
         \A f \in findings : RatingIsVulnerable(f.rating)
  PROVE  \E i \in 1..4 :
           /\ Severities[i] = compute_overall_rating(protocols, ciphers, findings)
           /\ \A j \in 1..4 : (\E f \in findings : f.rating = Severities[j]) => i <= j
<1> DEFINE ratings == {f.rating : f \in findings}
           severe  == Filter(Severities, ratings)
<1>1. Picked(severe, Severities, SecurityRating, ratings, 4)
  BY TheSeverities, FilterPicks
<1>2. \A f \in findings : f.rating \in Members(Severities)
  BY TheSeverities
<1>3. compute_overall_rating(protocols, ciphers, findings) = severe[1] \/ severe = <<>>
  BY DEF compute_overall_rating, Severities
<1> HIDE DEF severe
<1>4. severe \in Seq(SecurityRating \cap ratings) /\ Len(severe) \in Nat
  BY <1>1 DEF Picked
<1>5. PICK at : Places(at, severe, Severities, ratings, 4)
  BY <1>1 DEF Picked
<1>6. \A j \in 1..4 : Severities[j] \in ratings => \E k \in 1..Len(severe) : at[k] = j
  BY <1>5 DEF Places
<1>7. \E j \in 1..4 : Severities[j] \in ratings
  BY <1>2, TheSeverities DEF Members
<1>8. 1 \in 1..Len(severe) /\ severe # <<>>
  <2>1. PICK k \in 1..Len(severe) : TRUE
    BY <1>6, <1>7
  <2> QED BY <1>4, <2>1
<1>9. /\ at[1] \in 1..4 /\ severe[1] = Severities[at[1]]
      /\ \A k \in 1..Len(severe) : 1 < k => at[1] < at[k]
  BY <1>5, <1>8 DEF Places
<1>10. ASSUME NEW j \in 1..4, Severities[j] \in ratings PROVE at[1] <= j
  <2>1. PICK k \in 1..Len(severe) : at[k] = j
    BY <1>6, <1>10
  <2>2. k = 1 \/ 1 < k
    BY <1>4
  <2> QED BY <1>9, <2>1, <2>2
<1> QED BY <1>3, <1>8, <1>9, <1>10

(***************************************************************************)
(* By the order of SecurityRating itself no finding is worse than the      *)
(* overall rating says, with one exception: the rating Deprecated may hide *)
(* findings that are Weak (as the run weak_grade shows that it does).      *)
(***************************************************************************)
THEOREM OnlyWeakIsHidden ==
  ASSUME NEW protocols, NEW ciphers, NEW cert_report
  PROVE  LET findings == evaluate_vulnerabilities(protocols, ciphers, cert_report)
             rating   == compute_overall_rating(protocols, ciphers, findings)
         IN \A f \in findings :
              \/ RatingRank[f.rating] <= RatingRank[rating]
              \/ rating = "Deprecated" /\ f.rating = "Weak"
<1> DEFINE findings == evaluate_vulnerabilities(protocols, ciphers, cert_report)
           rating   == compute_overall_rating(protocols, ciphers, findings)
<1>1. \A f \in findings : RatingIsVulnerable(f.rating)
  BY FindingsAreSevere
<1> HIDE DEF findings
<1> SUFFICES ASSUME NEW f \in findings
             PROVE  \/ RatingRank[f.rating] <= RatingRank[rating]
                    \/ rating = "Deprecated" /\ f.rating = "Weak"
  BY DEF findings
<1>2. PICK i \in 1..4 :
        /\ Severities[i] = rating
        /\ \A j \in 1..4 : (\E g \in findings : g.rating = Severities[j]) => i <= j
  BY <1>1, FirstSeverity
<1> HIDE DEF rating
<1>3. PICK j \in 1..4 : Severities[j] = f.rating
  BY <1>1, TheSeverities DEF Members
<1>4. i <= j
  BY <1>2, <1>3
<1>5. /\ Severities[1] = "Critical" /\ Severities[2] = "Insecure"
      /\ Severities[3] = "Deprecated" /\ Severities[4] = "Weak"
  BY DEF Severities
<1>6. CASE j = i
  <2>1. f.rating = rating /\ rating \in SecurityRating
    BY <1>1, <1>2, <1>3, <1>6, TheRatings DEF RatingIsVulnerable
  <2>2. RatingRank[rating] \in Int
    BY <2>1, TheRatings, RatingRanks
  <2> QED BY <2>1, <2>2
<1>7. CASE i = 1 /\ j # 1
  BY <1>2, <1>3, <1>5, <1>7, RatingRanks
<1>8. CASE i = 2 /\ j \in {3, 4}
  BY <1>2, <1>3, <1>5, <1>8, RatingRanks
<1>9. CASE i = 3 /\ j = 4
  BY <1>2, <1>3, <1>5, <1>9
<1> QED BY <1>4, <1>6, <1>7, <1>8, <1>9

-----------------------------------------------------------------------------
(***************************************************************************)
(* The report of --vuln-only.  It lists the vulnerable suites of the       *)
(* groups, whether they have been through the filter or not.               *)
(***************************************************************************)
CipherGroups(P, T) == [protocol : P, ciphers : Seq(T)]

LEMMA ListedSuites ==
  ASSUME NEW groups, NEW x
  PROVE  x \in VulnerableCiphers(groups) <=>
           \E g \in Members(groups) : \E c \in Members(g.ciphers) :
             SuiteIsVulnerable(c) /\ x = <<g.protocol, c>>
BY DEF VulnerableCiphers, Members

LEMMA PartOfGroup ==
  ASSUME NEW P, NEW T, NEW g \in CipherGroups(P, T)
  PROVE  /\ VulnerablePart(g) \in CipherGroups(P, T)
         /\ VulnerablePart(g).protocol = g.protocol
         /\ Members(VulnerablePart(g).ciphers) = {c \in Members(g.ciphers) : SuiteIsVulnerable(c)}
<1> DEFINE weak == {c \in Members(g.ciphers) : SuiteIsVulnerable(c)}
           part == VulnerablePart(g)
<1>1. g.protocol \in P /\ g.ciphers \in Seq(T) /\ g = [protocol |-> g.protocol, ciphers |-> g.ciphers]
  BY DEF CipherGroups
<1>2. Filter(g.ciphers, weak) \in Seq(T) /\ Members(Filter(g.ciphers, weak)) = weak
  BY <1>1, FilterKeeps
<1> DEFINE kept == Filter(g.ciphers, weak)
<1>3. part = [g EXCEPT !.ciphers = kept]
  BY DEF VulnerablePart
<1> HIDE DEF kept, part
<1>4. part = [protocol |-> g.protocol, ciphers |-> kept]
  BY <1>1, <1>3
<1>5. part \in CipherGroups(P, T) /\ part.protocol = g.protocol /\ part.ciphers = kept
  BY <1>1, <1>2, <1>4 DEF CipherGroups, kept
<1> QED BY <1>2, <1>5 DEF part, kept

LEMMA FilteredGroups ==
  ASSUME NEW P, NEW T, NEW groups \in Seq(CipherGroups(P, T))
  PROVE  /\ FilterGroups(groups) \in Seq(CipherGroups(P, T))
         /\ Members(FilterGroups(groups)) =
              {h \in {VulnerablePart(g) : g \in Members(groups)} : h.ciphers # <<>>}
<1> DEFINE parts == [i \in 1..Len(groups) |-> VulnerablePart(groups[i])]
           full  == {h \in Members(parts) : h.ciphers # <<>>}
<1>1. Len(groups) \in Nat /\ \A i \in 1..Len(groups) : groups[i] \in CipherGroups(P, T)
  OBVIOUS
<1>2. \A i \in 1..Len(groups) : VulnerablePart(groups[i]) \in CipherGroups(P, T)
  BY <1>1, PartOfGroup
<1>3. parts \in Seq(CipherGroups(P, T)) /\ Len(parts) = Len(groups)
  BY <1>1, <1>2
<1>4. Members(parts) = {VulnerablePart(g) : g \in Members(groups)}
  BY <1>3 DEF Members
<1>5. FilterGroups(groups) = Filter(parts, full)
  BY DEF FilterGroups
<1> HIDE DEF parts
<1>6. Filter(parts, full) \in Seq(CipherGroups(P, T)) /\ Members(Filter(parts, full)) = full
  BY <1>3, FilterKeeps
<1> QED BY <1>4, <1>5, <1>6

(***************************************************************************)
(* filter_vulnerable_ciphers is exact, for every list of groups: a suite   *)
(* is left under a protocol if and only if the JSON report of --vuln-only  *)
(* lists it there, no group is left empty, and when the flat list has the  *)
(* suites of the groups before (ReportConsistent), it has them after.      *)
(***************************************************************************)
THEOREM FilterIsExact ==
  ASSUME NEW P, NEW T, NEW groups \in Seq(CipherGroups(P, T)), NEW supported
  PROVE  LET left == filter_vulnerable_ciphers(groups, supported)
             kept == Members(left.protocol_ciphers)
         IN /\ \A x : x \in VulnerableCiphers(groups) <=>
                        \E g \in kept : \E c \in Members(g.ciphers) : x = <<g.protocol, c>>
            /\ \A g \in kept : g.ciphers # <<>>
            /\ supported = UNION {Members(g.ciphers) : g \in Members(groups)} =>
                 left.supported_ciphers = UNION {Members(g.ciphers) : g \in kept}
<1> DEFINE left == filter_vulnerable_ciphers(groups, supported)
           kept == Members(left.protocol_ciphers)
<1>1. /\ kept = {h \in {VulnerablePart(g) : g \in Members(groups)} : h.ciphers # <<>>}
      /\ left.supported_ciphers = {c \in supported : SuiteIsVulnerable(c)}
  BY FilteredGroups DEF filter_vulnerable_ciphers
<1>2. ASSUME NEW g \in Members(groups)
      PROVE  /\ VulnerablePart(g).protocol = g.protocol
             /\ Members(VulnerablePart(g).ciphers) = {c \in Members(g.ciphers) : SuiteIsVulnerable(c)}
             /\ VulnerablePart(g).ciphers = <<>> <=> Members(VulnerablePart(g).ciphers) = {}
  <2>1. g \in CipherGroups(P, T)
    BY MembersOf
  <2>2. VulnerablePart(g).ciphers \in Seq(T)
    BY <2>1, PartOfGroup DEF CipherGroups
  <2> QED BY <2>1, <2>2, PartOfGroup, MembersOf
<1> HIDE DEF left, kept
<1>3. ASSUME NEW p, NEW c
      PROVE  (\E h \in kept : h.protocol = p /\ c \in Members(h.ciphers)) <=>
               \E g \in Members(groups) : g.protocol = p /\ c \in Members(g.ciphers) /\ SuiteIsVulnerable(c)
  <2>1. ASSUME NEW h \in kept, h.protocol = p, c \in Members(h.ciphers)
        PROVE  \E g \in Members(groups) : g.protocol = p /\ c \in Members(g.ciphers) /\ SuiteIsVulnerable(c)
    <3>1. PICK g \in Members(groups) : h = VulnerablePart(g)
      BY <1>1
    <3> QED BY <1>2, <2>1, <3>1
  <2>2. ASSUME NEW g \in Members(groups), g.protocol = p, c \in Members(g.ciphers), SuiteIsVulnerable(c)
        PROVE  \E h \in kept : h.protocol = p /\ c \in Members(h.ciphers)
    <3>1. c \in Members(VulnerablePart(g).ciphers)
      BY <1>2, <2>2
    <3>2. VulnerablePart(g) \in kept
      BY <1>1, <1>2, <3>1
    <3> QED BY <1>2, <2>2, <3>1, <3>2
  <2> QED BY <2>1, <2>2
<1>4. \A x : x \in VulnerableCiphers(groups) <=>
               \E g \in kept : \E c \in Members(g.ciphers) : x = <<g.protocol, c>>
  <2> TAKE x
  <2>1. ASSUME x \in VulnerableCiphers(groups)
        PROVE  \E g \in kept : \E c \in Members(g.ciphers) : x = <<g.protocol, c>>
    <3>1. PICK g \in Members(groups) : \E c \in Members(g.ciphers) : SuiteIsVulnerable(c) /\ x = <<g.protocol, c>>
      BY <2>1, ListedSuites
    <3>2. PICK c \in Members(g.ciphers) : SuiteIsVulnerable(c) /\ x = <<g.protocol, c>>
      BY <3>1
    <3> DEFINE h == VulnerablePart(g)
    <3>3. h.protocol = g.protocol /\ c \in Members(h.ciphers)
      BY <1>2, <3>2
    <3>4. h \in kept
      BY <1>1, <1>2, <3>3
    <3> HIDE DEF h
    <3> QED BY <3>2, <3>3, <3>4
  <2>2. ASSUME NEW h \in kept, NEW c \in Members(h.ciphers), x = <<h.protocol, c>>
        PROVE  x \in VulnerableCiphers(groups)
    <3>1. PICK g \in Members(groups) : g.protocol = h.protocol /\ c \in Members(g.ciphers) /\ SuiteIsVulnerable(c)
      BY <1>3, <2>2
    <3> QED BY <2>2, <3>1, ListedSuites
  <2> QED BY <2>1, <2>2
<1>5. ASSUME NEW h \in kept PROVE h.ciphers # <<>>
  BY <1>1
<1>6. ASSUME supported = UNION {Members(g.ciphers) : g \in Members(groups)}
      PROVE  left.supported_ciphers = UNION {Members(g.ciphers) : g \in kept}
  <2>1. \A c : c \in left.supported_ciphers <=>
               SuiteIsVulnerable(c) /\ \E g \in Members(groups) : c \in Members(g.ciphers)
    BY <1>1, <1>6
  <2>2. \A c : (\E h \in kept : c \in Members(h.ciphers)) <=>
               SuiteIsVulnerable(c) /\ \E g \in Members(groups) : c \in Members(g.ciphers)
    BY <1>3
  <2> QED BY <2>1, <2>2
<1> QED BY <1>4, <1>5, <1>6 DEF left, kept
=============================================================================

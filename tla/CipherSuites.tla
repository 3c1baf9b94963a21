---------------------------- MODULE CipherSuites ----------------------------
(***************************************************************************)
(* The suite table of tls/cipher.rs, row by row and in its order, and the  *)
(* filters that pick a protocol's candidates from it.                      *)
(***************************************************************************)
EXTENDS Models, Lists

(***************************************************************************)
(* A CipherSuiteInfo, without the names, the MAC and the forward secrecy   *)
(* flag, which are only printed.  kx and enc stand for key_exchange and    *)
(* encryption; enc is the family the table's strings are told apart by.    *)
(***************************************************************************)
Suite(id, min, kx, enc, bits, aead, obsolete, rating) ==
  [id |-> id, protocol_min |-> min, kx |-> kx, enc |-> enc, key_bits |-> bits,
   is_aead |-> aead, is_obsolete |-> obsolete, rating |-> rating]

(* TLS 1.3 suites *)
Tls13Suites == <<
  Suite("0x1301", "Tls13", "ECDHE/DHE", "GCM", 128, TRUE, FALSE, "Recommended"),
  Suite("0x1302", "Tls13", "ECDHE/DHE", "GCM", 256, TRUE, FALSE, "Recommended"),
  Suite("0x1303", "Tls13", "ECDHE/DHE", "CHACHA20", 256, TRUE, FALSE, "Recommended"),
  Suite("0x1304", "Tls13", "ECDHE/DHE", "CCM", 128, TRUE, FALSE, "Secure"),
  Suite("0x1305", "Tls13", "ECDHE/DHE", "CCM", 128, TRUE, FALSE, "Secure")>>

(* TLS 1.2 AEAD suites with forward secrecy *)
Tls12AeadSuites == <<
  Suite("0xc02b", "Tls12", "ECDH", "GCM", 128, TRUE, FALSE, "Recommended"),
  Suite("0xc02c", "Tls12", "ECDH", "GCM", 256, TRUE, FALSE, "Recommended"),
  Suite("0xc02f", "Tls12", "ECDH", "GCM", 128, TRUE, FALSE, "Recommended"),
  Suite("0xc030", "Tls12", "ECDH", "GCM", 256, TRUE, FALSE, "Recommended"),
  Suite("0xcca9", "Tls12", "ECDH", "CHACHA20", 256, TRUE, FALSE, "Recommended"),
  Suite("0xcca8", "Tls12", "ECDH", "CHACHA20", 256, TRUE, FALSE, "Recommended"),
  Suite("0xccaa", "Tls12", "DH", "CHACHA20", 256, TRUE, FALSE, "Secure"),
  Suite("0x009e", "Tls12", "DH", "GCM", 128, TRUE, FALSE, "Secure"),
  Suite("0x009f", "Tls12", "DH", "GCM", 256, TRUE, FALSE, "Secure")>>

(* TLS 1.2 CBC suites *)
Tls12CbcSuites == <<
  Suite("0xc027", "Tls12", "ECDH", "CBC", 128, FALSE, TRUE, "Weak"),
  Suite("0xc028", "Tls12", "ECDH", "CBC", 256, FALSE, TRUE, "Weak"),
  Suite("0xc023", "Tls12", "ECDH", "CBC", 128, FALSE, TRUE, "Weak"),
  Suite("0xc024", "Tls12", "ECDH", "CBC", 256, FALSE, TRUE, "Weak"),
  Suite("0x0067", "Tls12", "DH", "CBC", 128, FALSE, TRUE, "Weak"),
  Suite("0x006b", "Tls12", "DH", "CBC", 256, FALSE, TRUE, "Weak")>>

(* SHA-1 suites of TLS 1.0 to 1.2 *)
Sha1Suites == <<
  Suite("0xc013", "Tls10", "ECDH", "CBC", 128, FALSE, TRUE, "Deprecated"),
  Suite("0xc014", "Tls10", "ECDH", "CBC", 256, FALSE, TRUE, "Deprecated"),
  Suite("0xc009", "Tls10", "ECDH", "CBC", 128, FALSE, TRUE, "Deprecated"),
  Suite("0xc00a", "Tls10", "ECDH", "CBC", 256, FALSE, TRUE, "Deprecated"),
  Suite("0x0033", "Tls10", "DH", "CBC", 128, FALSE, TRUE, "Deprecated"),
  Suite("0x0039", "Tls10", "DH", "CBC", 256, FALSE, TRUE, "Deprecated")>>

(* Static RSA key exchange *)
StaticRsaSuites == <<
  Suite("0x009c", "Tls12", "RSA", "GCM", 128, TRUE, TRUE, "Weak"),
  Suite("0x009d", "Tls12", "RSA", "GCM", 256, TRUE, TRUE, "Weak"),
  Suite("0x003c", "Tls12", "RSA", "CBC", 128, FALSE, TRUE, "Weak"),
  Suite("0x003d", "Tls12", "RSA", "CBC", 256, FALSE, TRUE, "Weak"),
  Suite("0x002f", "Tls10", "RSA", "CBC", 128, FALSE, TRUE, "Deprecated"),
  Suite("0x0035", "Tls10", "RSA", "CBC", 256, FALSE, TRUE, "Deprecated")>>

(* 3DES *)
TripleDesSuites == <<
  Suite("0x000a", "Ssl3", "RSA", "3DES-CBC", 112, FALSE, TRUE, "Insecure"),
  Suite("0xc012", "Tls10", "ECDH", "3DES-CBC", 112, FALSE, TRUE, "Insecure"),
  Suite("0xc008", "Tls10", "ECDH", "3DES-CBC", 112, FALSE, TRUE, "Insecure"),
  Suite("0x0016", "Ssl3", "DH", "3DES-CBC", 112, FALSE, TRUE, "Insecure")>>

(* RC4 *)
Rc4Suites == <<
  Suite("0x0005", "Ssl3", "RSA", "RC4", 128, FALSE, TRUE, "Insecure"),
  Suite("0x0004", "Ssl3", "RSA", "RC4", 128, FALSE, TRUE, "Insecure"),
  Suite("0xc011", "Tls10", "ECDH", "RC4", 128, FALSE, TRUE, "Insecure"),
  Suite("0xc007", "Tls10", "ECDH", "RC4", 128, FALSE, TRUE, "Insecure")>>

(* Single DES *)
DesSuites == <<
  Suite("0x0009", "Ssl3", "RSA", "DES-CBC", 56, FALSE, TRUE, "Critical"),
  Suite("0x0015", "Ssl3", "DH", "DES-CBC", 56, FALSE, TRUE, "Critical")>>

(* Export *)
ExportSuites == <<
  Suite("0x0003", "Ssl3", "RSA_EXPORT", "RC4", 40, FALSE, TRUE, "Critical"),
  Suite("0x0006", "Ssl3", "RSA_EXPORT", "RC2", 40, FALSE, TRUE, "Critical"),
  Suite("0x0008", "Ssl3", "RSA_EXPORT", "DES-CBC", 40, FALSE, TRUE, "Critical"),
  Suite("0x0014", "Ssl3", "DH_EXPORT", "DES-CBC", 40, FALSE, TRUE, "Critical")>>

(* Anonymous key exchange *)
AnonSuites == <<
  Suite("0x0018", "Ssl3", "Anon", "RC4", 128, FALSE, TRUE, "Critical"),
  Suite("0x001b", "Ssl3", "Anon", "3DES-CBC", 112, FALSE, TRUE, "Critical"),
  Suite("0x0034", "Tls10", "Anon", "CBC", 128, FALSE, TRUE, "Critical"),
  Suite("0x003a", "Tls10", "Anon", "CBC", 256, FALSE, TRUE, "Critical"),
  Suite("0x00a6", "Tls12", "Anon", "GCM", 128, TRUE, TRUE, "Critical"),
  Suite("0x00a7", "Tls12", "Anon", "GCM", 256, TRUE, TRUE, "Critical"),
  Suite("0xc018", "Tls10", "Anon", "3DES-CBC", 112, FALSE, TRUE, "Critical"),
  Suite("0xc019", "Tls10", "Anon", "CBC", 128, FALSE, TRUE, "Critical"),
  Suite("0xc01a", "Tls10", "Anon", "CBC", 256, FALSE, TRUE, "Critical")>>

(* No encryption *)
NullSuites == <<
  Suite("0x0001", "Ssl3", "RSA", "None", 0, FALSE, TRUE, "Critical"),
  Suite("0x0002", "Ssl3", "RSA", "None", 0, FALSE, TRUE, "Critical"),
  Suite("0x003b", "Tls12", "RSA", "None", 0, FALSE, TRUE, "Critical"),
  Suite("0xc001", "Tls10", "ECDH", "None", 0, FALSE, TRUE, "Critical"),
  Suite("0xc006", "Tls10", "ECDH", "None", 0, FALSE, TRUE, "Critical"),
  Suite("0xc00b", "Tls10", "ECDH", "None", 0, FALSE, TRUE, "Critical"),
  Suite("0xc010", "Tls10", "ECDH", "None", 0, FALSE, TRUE, "Critical")>>

(* CAMELLIA, SEED and ARIA *)
AdditionalSuites == <<
  Suite("0x0041", "Tls10", "RSA", "CBC", 128, FALSE, TRUE, "Deprecated"),
  Suite("0x0084", "Tls10", "RSA", "CBC", 256, FALSE, TRUE, "Deprecated"),
  Suite("0x0096", "Tls10", "RSA", "CBC", 128, FALSE, TRUE, "Deprecated"),
  Suite("0xc07a", "Tls12", "RSA", "GCM", 128, TRUE, TRUE, "Weak"),
  Suite("0xc07b", "Tls12", "RSA", "GCM", 256, TRUE, TRUE, "Weak")>>

ALL_CIPHERS ==
  Tls13Suites \o Tls12AeadSuites \o Tls12CbcSuites \o Sha1Suites \o StaticRsaSuites
    \o TripleDesSuites \o Rc4Suites \o DesSuites \o ExportSuites \o AnonSuites
    \o NullSuites \o AdditionalSuites

KeyExchanges == {"ECDHE/DHE", "ECDH", "DH", "RSA", "RSA_EXPORT", "DH_EXPORT", "Anon"}
Encryptions  == {"GCM", "CHACHA20", "CCM", "CBC", "3DES-CBC", "DES-CBC", "RC4", "RC2", "None"}

CipherSuiteInfo ==
  [id : {c.id : c \in Members(ALL_CIPHERS)}, protocol_min : Protocol,
   kx : KeyExchanges, enc : Encryptions, key_bits : Nat,
   is_aead : BOOLEAN, is_obsolete : BOOLEAN, rating : SecurityRating]

-----------------------------------------------------------------------------
(* The families of encryption whose names contain the word. *)
ContainsCBC == {"CBC", "3DES-CBC", "DES-CBC"}
ContainsDES == {"3DES-CBC", "DES-CBC"}

(* Mutant of IsCandidate: only the suites that start with the protocol. *)
IsExactCandidate(c, protocol) == c.protocol_min = protocol

(***************************************************************************)
(* The candidates scan_ciphers_for_protocol tests.  For TLS 1.2 the second *)
(* conjunct of the code is implied by the first; for SSLv2 the code's      *)
(* disjunction comes to protocol_min <= Ssl3.                              *)
(***************************************************************************)
IsCandidate(c, protocol) ==
  CASE protocol = "Tls13" -> c.protocol_min = "Tls13"
    [] protocol = "Tls12" -> c.protocol_min \preceq "Tls12" /\ c.protocol_min # "Tls13"
    [] protocol = "Ssl2"  -> c.protocol_min = "Ssl2" \/ c.protocol_min \preceq "Ssl3"
    [] OTHER              -> c.protocol_min \preceq protocol

ScanCandidates(table, protocol) ==
  Filter(table, {c \in Members(table) : IsCandidate(c, protocol)})

(* The suites probe_tls offers in its single hello for a protocol. *)
IsOffered(c, protocol) ==
  IF protocol = "Tls13" THEN c.protocol_min = "Tls13" ELSE c.protocol_min \preceq protocol
=============================================================================

---------------------------- MODULE Certificates ----------------------------
(***************************************************************************)
(* What tls/cert.rs derives from a certificate chain.  Times are seconds;  *)
(* a certificate is                                                        *)
(*   names                 : the names it is valid for,                    *)
(*   not_before, not_after : its validity,                                 *)
(*   sig                   : its signature algorithm,                      *)
(*   key, spki_len         : its key algorithm and the bytes of its        *)
(*                           SubjectPublicKeyInfo,                         *)
(*   parses, anchored      : whether x509 parsing and webpki's path        *)
(*                           building succeed (external).                  *)
(***************************************************************************)
EXTENDS Models

SecondsPerDay == 86400

(* Rust's integer division truncates toward zero. *)
TruncDiv(a, b) == IF a >= 0 THEN a \div b ELSE -((-a) \div b)

is_expired(cert, now)       == now > cert.not_after
is_not_yet_valid(cert, now) == now < cert.not_before

(* Mutant of days_remaining: seconds. *)
SecondsRemaining(cert, now) == cert.not_after - now
days_remaining(cert, now)   == TruncDiv(cert.not_after - now, SecondsPerDay)

(* Only these two have a name with SHA1 or MD5 in it; any other, such as   *)
(* ECDSA-with-SHA1, is either another of the table or just its OID.        *)
sig_alg_rating(cert) ==
  IF cert.sig \in {"SHA1withRSA", "MD5withRSA"} THEN "Critical" ELSE "Recommended"

(* The modulus size the code reads off the length of the encoded key. *)
RsaBits(spki_len) ==
  CASE spki_len > 500               -> 4096
    [] spki_len \in 351..500        -> 3072
    [] spki_len \in 251..350        -> 2048
    [] spki_len \in 121..250        -> 1024
    [] OTHER                        -> 512

(* P-384 and P-521 also have their sizes; every other curve counts as 256. *)
KeyBits(cert) ==
  CASE cert.key = "RSA" -> RsaBits(cert.spki_len)
    [] cert.key \in {"ECDSA", "Ed25519"} -> 256
    [] OTHER -> 0

(* Mutant of key_rating: 1024 bits pass. *)
LaxKeyRating(cert) ==
  CASE cert.key = "RSA" /\ KeyBits(cert) < 1024 -> "Critical"
    [] cert.key \notin {"RSA", "ECDSA", "Ed25519"} -> "Weak"
    [] OTHER -> "Recommended"

key_rating(cert) ==
  CASE cert.key = "RSA" /\ KeyBits(cert) < 2048 -> "Critical"
    [] cert.key = "RSA" /\ KeyBits(cert) = 2048 -> "Secure"
    [] cert.key \notin {"RSA", "ECDSA", "Ed25519"} -> "Weak"
    [] OTHER -> "Recommended"

(* Signatures over a broken hash: webpki has no verifier for them. *)
BrokenSignatures == {"SHA1withRSA", "MD5withRSA", "ECDSA-with-SHA1", "DSA-with-SHA1"}

(***************************************************************************)
(* webpki's chain verification is external: a path to a built-in root of   *)
(* signatures it can verify, and an end entity inside its validity.        *)
(***************************************************************************)
ChainVerifies(cert, now) ==
  /\ cert.anchored
  /\ cert.sig \notin BrokenSignatures
  /\ ~is_expired(cert, now)
  /\ ~is_not_yet_valid(cert, now)

(* What ServerName::try_from refuses; any other string is a name. *)
NotAName == "not a name"

(***************************************************************************)
(* The CertificateChainReport on a leaf, as far as it is judged.  Trust    *)
(* means that the chain verifies and that the leaf is valid for the server *)
(* name, if that is a name.                                                *)
(***************************************************************************)
LeafReport(leaf, server_name, now) ==
  [is_expired       |-> is_expired(leaf, now),
   is_not_yet_valid |-> is_not_yet_valid(leaf, now),
   days_remaining   |-> days_remaining(leaf, now),
   sig_alg_rating   |-> sig_alg_rating(leaf),
   key_type         |-> leaf.key,
   key_bits         |-> KeyBits(leaf),
   key_rating       |-> key_rating(leaf),
   trust_valid      |-> /\ ChainVerifies(leaf, now)
                        /\ server_name \in leaf.names \cup {NotAName}]

(* A report on the leaf a chain starts with, or none if it does not parse. *)
parse_and_validate_chain(chain, server_name, now) ==
  {LeafReport(leaf, server_name, now) : leaf \in {c \in chain : c.parses}}
=============================================================================

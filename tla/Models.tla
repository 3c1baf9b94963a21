------------------------------- MODULE Models -------------------------------
(***************************************************************************)
(* The enumerations of models.rs, with the orders #[derive(Ord)] gives     *)
(* them: a protocol or a rating is compared by its place in the enum.      *)
(***************************************************************************)
EXTENDS Integers, Sequences, SequencesExt

ALL        == <<"Ssl2", "Ssl3", "Tls10", "Tls11", "Tls12", "Tls13">>
SCAN_ORDER == Reverse(ALL)
Protocol   == {ALL[i] : i \in 1..Len(ALL)}

(* protocol_min <= p, and the rest of the derived comparisons *)
ProtocolRank == [p \in Protocol |-> CHOOSE i \in 1..Len(ALL) : ALL[i] = p]
p \preceq q  == ProtocolRank[p] <= ProtocolRank[q]

is_obsolete(p) == p \in {"Ssl2", "Ssl3", "Tls10", "Tls11"}

SecurityRatingOrder ==
  <<"Recommended", "Secure", "Deprecated", "Weak", "Insecure", "Critical">>
SecurityRating == {SecurityRatingOrder[i] : i \in 1..Len(SecurityRatingOrder)}
RatingRank ==
  [r \in SecurityRating |-> CHOOSE i \in 1..Len(SecurityRatingOrder) : SecurityRatingOrder[i] = r]

default_rating(p) ==
  CASE p \in {"Ssl2", "Ssl3"}   -> "Insecure"
    [] p \in {"Tls10", "Tls11"} -> "Deprecated"
    [] p = "Tls12"              -> "Secure"
    [] p = "Tls13"              -> "Recommended"

(* SecurityRating::is_vulnerable *)
RatingIsVulnerable(r) == r \in {"Deprecated", "Weak", "Insecure", "Critical"}

(* CipherSuiteInfo::is_vulnerable *)
SuiteIsVulnerable(c) == RatingIsVulnerable(c.rating) \/ c.is_obsolete
=============================================================================

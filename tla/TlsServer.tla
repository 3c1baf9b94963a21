----------------------------- MODULE TlsServer -----------------------------
(***************************************************************************)
(* The scanned server, external to this repository: how a conforming       *)
(* SSL/TLS server answers the hellos packet.rs builds.  A server is        *)
(*   versions : the protocol versions it has enabled,                      *)
(*   suites   : the suites it has enabled, as a set of table rows,         *)
(*   ordered  : whether its own order of suites decides, or the client's,  *)
(*   names    : the host names it holds a certificate of its own for;      *)
(*              every other client gets the certificate named "default".   *)
(***************************************************************************)
EXTENDS CipherSuites

CONSTANT Table      \* the suites the scanner knows, in the order of its table

(* The table of cipher.rs, or some of its rows. *)
ASSUME TableAssumption ==
  /\ Table \in Seq(Members(ALL_CIPHERS))
  /\ \A i, j \in 1..Len(Table) : Table[i].id = Table[j].id => i = j

Suites == Members(Table)

(* Whether a suite can be negotiated at a version. *)
UsableAt(c, version) ==
  IF version = "Tls13" THEN c.protocol_min = "Tls13"
                       ELSE c.protocol_min # "Tls13" /\ c.protocol_min \preceq version

(* The versions at which the server can complete a hello. *)
Speaks(server, version) ==
  /\ version \in server.versions
  /\ version = "Ssl2" \/ \E c \in server.suites : UsableAt(c, version)

(* Mutant of Hello: only hellos of TLS 1.2 and later carry the name. *)
HelloWithLateName(version, offered, name) ==
  [version |-> version, offered |-> offered,
   name |-> IF "Tls12" \preceq version THEN {name} ELSE {}]

(***************************************************************************)
(* A ClientHello in a TLS record: its version, the suites in the client's  *)
(* order, and a server name (a set of at most one: build_client_hello      *)
(* writes extensions only from TLS 1.0 on).                                *)
(***************************************************************************)
Hello(version, offered, name) ==
  [version |-> version, offered |-> offered,
   name |-> IF "Tls10" \preceq version THEN {name} ELSE {}]

(***************************************************************************)
(* The version a server settles on: TLS 1.3 only for a hello that says so  *)
(* (supported_versions then lists nothing else), otherwise the highest it  *)
(* has that is not above the hello's.  A TLS record of version SSLv2 is    *)
(* no hello at all.                                                        *)
(***************************************************************************)
Version(server, hello) ==
  LET below == {v \in server.versions :
                  IF hello.version = "Tls13" THEN v = "Tls13"
                  ELSE v \notin {"Ssl2", "Tls13"} /\ v \preceq hello.version}
  IN {v \in below : \A w \in below : w \preceq v}

(* The certificate it presents to a client that asks for these names. *)
CertificateFor(server, names) ==
  IF names \subseteq server.names /\ names # {} THEN CHOOSE n \in names : TRUE ELSE "default"

(***************************************************************************)
(* The first suite, in the order that decides, that both sides have and    *)
(* that version v can use.                                                 *)
(***************************************************************************)
Selected(server, hello, v) ==
  LET order  == IF server.ordered THEN Table ELSE hello.offered
      common == {i \in 1..Len(order) :
                   /\ UsableAt(order[i], v)
                   /\ order[i] \in server.suites
                   /\ \E j \in 1..Len(hello.offered) : hello.offered[j] = order[i]}
  IN {order[i] : i \in {k \in common : \A j \in common : k <= j}}

(***************************************************************************)
(* Its answer: a ServerHello with version, suite and the certificate that  *)
(* follows it in the clear (not in TLS 1.3), or nothing.                   *)
(***************************************************************************)
Answers(server, hello) ==
  UNION {{[version     |-> v,
           suite       |-> c.id,
           certificate |-> IF v = "Tls13" THEN {} ELSE {CertificateFor(server, hello.name)}] :
            c \in Selected(server, hello, v)} :
         v \in Version(server, hello)}
=============================================================================

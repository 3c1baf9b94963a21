---------------------------- MODULE ClientHello ----------------------------
(***************************************************************************)
(* The lengths in the hellos that tls/packet.rs builds: each is computed   *)
(* from sizes of its own and written into a field of some bytes, where     *)
(* what does not fit is dropped.  A hello for protocol p offers k suites   *)
(* and names a server with a name of n bytes.                              *)
(***************************************************************************)
EXTENDS Models

(* A field of so many bytes for a length. *)
Field(width, size) == [width |-> width, size |-> size]

Limit(width) == CASE width = 1 -> 256 [] width = 2 -> 65536 [] width = 3 -> 16777216

(* Mutant of Written: only the low byte is written. *)
WrittenInAByte(field) == field.size % 256

Written(field) == field.size % Limit(field.width)

HasExtensions(p) == p \notin {"Ssl2", "Ssl3"}

(***************************************************************************)
(* Each extension is four bytes and its data: the server name, groups and  *)
(* point formats always, signature algorithms from TLS 1.2 on,             *)
(* supported_versions and a key share for TLS 1.3.                         *)
(***************************************************************************)
ServerNameLen(n) == 2 + 1 + 2 + n
ExtensionsLen(p, n) ==
  (4 + ServerNameLen(n)) + (4 + 10) + (4 + 2)
    + (IF p \in {"Tls12", "Tls13"} THEN 4 + 20 ELSE 0)
    + (IF p = "Tls13" THEN (4 + 3) + (4 + 38) ELSE 0)

(* Version, random, session id, suites, compression, extensions. *)
BodyLen(p, k, n) ==
  2 + 32 + (IF p = "Tls13" THEN 1 + 32 ELSE 1) + (2 + 2 * k) + 2
    + (IF HasExtensions(p) THEN 2 + ExtensionsLen(p, n) ELSE 0)

RecordLen(p, k, n) == 4 + BodyLen(p, k, n)

(* build_client_hello: the fields whose lengths vary. *)
Fields(p, k, n) ==
  {Field(2, 2 * k), Field(3, BodyLen(p, k, n)), Field(2, RecordLen(p, k, n))}
    \cup (IF HasExtensions(p)
            THEN {Field(2, n), Field(2, n + 3), Field(2, ServerNameLen(n)), Field(2, ExtensionsLen(p, n))}
            ELSE {})

(* build_ssl2_client_hello: seven suites and a challenge; 15 bits for all. *)
Ssl2BodyLen == (1 + 2 + 2 + 2 + 2) + 3 * 7 + 16

-----------------------------------------------------------------------------
(***************************************************************************)
(* Every length a hello states is the length of what follows it, and the   *)
(* hello fits one TLS record (2^14 bytes).                                 *)
(***************************************************************************)
HelloFits(p, k, n) ==
  /\ \A f \in Fields(p, k, n) : Written(f) = f.size
  /\ RecordLen(p, k, n) <= 16384
=============================================================================

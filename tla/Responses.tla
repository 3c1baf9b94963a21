----------------------------- MODULE Responses -----------------------------
(***************************************************************************)
(* What parse_server_response (tls/packet.rs) promises to make of the      *)
(* beginning of a server's flight, said of whole records and messages and  *)
(* without any offset.                                                     *)
(*                                                                         *)
(* A flight is a sequence of records [type, size, messages]; its messages  *)
(* are [kind |-> "hello", version, suite], [kind |-> "certificate", chain] *)
(* or of kind "other".  The pieces of a message that is cut over several   *)
(* records are no messages.                                                *)
(***************************************************************************)
EXTENDS Lists

Promised(kind, version, suites, certificates) ==
  [kind |-> kind, version |-> version, suites |-> suites, certificates |-> certificates]

Alert == Promised("alert", "none", {}, <<>>)
ServerHello(version, suite, certificates) == Promised("hello", version, {suite}, certificates)

EndOf(flight, k) == Total([i \in 1..k |-> flight[i].size])
Size(flight)     == EndOf(flight, Len(flight))

(* How many records lie wholly in the first n bytes. *)
Arrived(flight, n) ==
  CHOOSE k \in 0..Len(flight) :
    EndOf(flight, k) <= n /\ (k = Len(flight) \/ n < EndOf(flight, k + 1))

(* The messages of the first k records. *)
Messages(flight, k) == Concats([i \in 1..Len(flight) |-> flight[i].messages])[k]

(* The last hello among some messages, a set of at most one, and all their *)
(* certificates.                                                           *)
LastHello(messages) ==
  LET hellos == {i \in 1..Len(messages) : messages[i].kind = "hello"}
  IN {[version |-> messages[i].version, suite |-> messages[i].suite] :
        i \in {j \in hellos : \A l \in hellos : l <= j}}

Chain(messages) ==
  Concat([i \in 1..Len(messages) |->
            IF messages[i].kind = "certificate" THEN messages[i].chain ELSE <<>>])

(***************************************************************************)
(* An SSLv2 ServerHello is [size, head, cert_len, chain]: its head is      *)
(* enough for a response, its certificate counts if it is all there.  The  *)
(* suites are left out.                                                    *)
(***************************************************************************)
Ssl2Understood(hello, n) ==
  IF n < hello.head THEN {}
  ELSE {Promised("ssl2", "Ssl2", {}, IF n < hello.head + hello.cert_len THEN <<>> ELSE hello.chain)}

(***************************************************************************)
(* Any alert is the answer.  Otherwise the last ServerHello is, with every *)
(* certificate; certificates alone pass for a ServerHello of TLS 1.2 with  *)
(* suite 0.                                                                *)
(***************************************************************************)
Understood(flight, n) ==
  LET arrived  == Arrived(flight, n)
      messages == Messages(flight, arrived)
      chain    == Chain(messages)
  IN IF \E i \in 1..arrived : flight[i].type = "alert" THEN {Alert}
     ELSE IF LastHello(messages) = {} /\ chain # <<>> THEN {ServerHello("Tls12", 0, chain)}
     ELSE {ServerHello(h.version, h.suite, chain) : h \in LastHello(messages)}
=============================================================================

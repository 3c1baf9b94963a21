------------------------------ MODULE Targets ------------------------------
(***************************************************************************)
(* parse_target (tls/scanner.rs).  A target is a raw string taken apart at *)
(* what the code looks for: the schemes it starts with, and the parts      *)
(* between colons of what is then left before the first slash.  A part is  *)
(* [text, number], number being the port it reads as, a set of at most one.*)
(***************************************************************************)
EXTENDS Integers, Sequences

Part(text) == [text |-> text, number |-> {}]
PortPart(port) == [text |-> "digits", number |-> {port}]

Strip(schemes, scheme) ==
  IF schemes # <<>> /\ schemes[1] = scheme THEN Tail(schemes) ELSE schemes

(***************************************************************************)
(* One https:// is taken off, then one http://.  Of any other scheme that  *)
(* follows, the slash leaves the word and its colon.                       *)
(***************************************************************************)
PartsOf(target) ==
  LET left == Strip(Strip(target.schemes, "https"), "http")
  IN IF left = <<>> THEN target.parts ELSE <<Part(left[1]), Part("")>>

(***************************************************************************)
(* The host and the port, or nothing for an error: with --port, whatever   *)
(* follows the first colon is dropped, and without it there must be a      *)
(* number and nothing else.                                                *)
(***************************************************************************)
parse_target(target, port_override) ==
  LET parts == PartsOf(target)
      ports == IF port_override # {} THEN port_override
               ELSE IF Len(parts) = 1 THEN {443}
               ELSE IF Len(parts) = 2 THEN parts[2].number
               ELSE {}
  IN {[host |-> parts[1].text, port |-> p] : p \in ports}
=============================================================================

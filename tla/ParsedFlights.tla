--------------------------- MODULE ParsedFlights ---------------------------
(***************************************************************************)
(* What parse_server_response (tls/packet.rs) makes of what servers send:  *)
(* on any part of a flight that Wire writes it answers as Responses        *)
(* promises.                                                               *)
(***************************************************************************)
EXTENDS ResponseParser, Responses, Wire

CONSTANTS Flights, Ssl2Hellos     \* what servers send

ASSUME FlightsAreWritten == \A f \in Flights : IsFlight(f)

ASSUME Ssl2HellosAreWritten == \A h \in Ssl2Hellos : IsSsl2Hello(h)

(* Whether the buffer holds the beginning of s. *)
Begins(s) == Len(data) <= Len(s) /\ \A i \in 1..Len(data) : data[i] = s[i]

BytesOf     == [f \in Flights |-> FlightBytes(f)]
Ssl2BytesOf == [h \in Ssl2Hellos |-> Ssl2Bytes(h)]

-----------------------------------------------------------------------------
(***************************************************************************)
(* On what has arrived of a flight the parser finds every message of every *)
(* record that is there, whatever else the records hold, and nothing of    *)
(* one that is not.                                                        *)
(***************************************************************************)
Understands ==
  pc = "done" => \A f \in Flights : Begins(BytesOf[f]) => result = Understood(f, Len(data))

(***************************************************************************)
(* On what has arrived of an SSLv2 ServerHello the parser knows it by its  *)
(* head and takes a certificate for there only when it can be.             *)
(***************************************************************************)
UnderstandsSsl2 ==
  pc = "done" =>
    \A h \in Ssl2Hellos : Begins(Ssl2BytesOf[h]) =>
      {[r EXCEPT !.suites = {}] : r \in result} = Ssl2Understood(Ssl2Contents(h), Len(data))
=============================================================================

SPECIFICATION Spec
CONSTANTS
  Probed = {"Ssl2", "Ssl3", "Tls10", "Tls11", "Tls12", "Tls13"}
  Flights <- MCFlights
  Length <- FlightLength
  Parsed <- MCParsed
  Capacity <- MCCapacity
  NameLengths = {0, 1, 63, 253, 255, 16000}
INVARIANTS
  TypeOK
  VerdictSound
  ExactWhenReadWhole
  HelloIsWellFormed
PROPERTIES
  Termination
  ImplementsSpec

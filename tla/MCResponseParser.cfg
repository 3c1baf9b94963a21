SPECIFICATION Spec
CONSTANTS
  Buffers <- MCBuffers
  Flights <- MCFlights
  Ssl2Hellos <- MCSsl2Hellos
  Damage = {0, 1, 255}
INVARIANTS
  TypeOK
  Contained
  Understands
  UnderstandsSsl2
PROPERTIES
  Advances
  Termination

SPECIFICATION Spec
CONSTANTS
  MCVersions = {"Ssl2", "Ssl3", "Tls10", "Tls12", "Tls13"}
  MCModes = {{}, {"Protocols"}, {"Ciphers"}, {"Cert"}, {"Protocols", "Ciphers"}}
  Table <- MCTable
  Servers <- MCServers
  Options <- MCOptions
  MaxFaults = 1
  Now = 0
INVARIANTS
  PreferenceTruthful

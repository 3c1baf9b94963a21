SPECIFICATION Spec
CONSTANTS
  MCVersions = {"Tls13"}
  MCModes = {{}, {"Protocols"}, {"Ciphers"}, {"Cert"}, {"Protocols", "Ciphers"}}
  Table <- MCTable
  Servers <- MCServers
  Options <- MCOptions
  MaxFaults = 1
  Now = 0
INVARIANTS
  CertIsForSni

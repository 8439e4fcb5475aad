SPECIFICATION StrongswanSpec
CONSTANTS
  Tunnels <- MCTunnels
  SelectorOf <- MCSelectorOf
  NoSelector = "noselector"
  NoTunnel = "notunnel"
  ConfigFile = TRUE
  VerifyTunnel = TRUE
  BlockNonIpsec = TRUE
  MaxTunnels = 4
  MaxFaults = 1
INVARIANT BlockedAfterFailedRemoval

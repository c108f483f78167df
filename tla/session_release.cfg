SPECIFICATION FairSpec
CONSTANTS
  Cmds <- MCCmds
  DataLen <- MCDataLen
  Data = {"x", "EOT"}
  Mtu = 2
  MaxClients = 2
  MaxSends = 2
CHECK_DEADLOCK FALSE

PROPERTIES EverySessionEnds

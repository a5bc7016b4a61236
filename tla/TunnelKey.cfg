CONSTANTS
  Workers = {"main"}
  Connections = {"mysql", "redis"}
  KeyOf <- OneKey
  Behind <- OwnPort
  Ports = {1, 2}
  MaxTunnels = 2
  FailsQuickly = TRUE
  NoTunnel = 0
  Other = 99
SPECIFICATION Spec
INVARIANTS
  LeadsToDatabase
CHECK_DEADLOCK FALSE

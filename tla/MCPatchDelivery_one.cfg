SPECIFICATION FairSpec
CONSTANTS
  Conn = {c1, c2}
  NoConn = NoConn
  Task = {k1}
  Base = 4
  SignLen = 1
  Packet <- Packets
  MaxCommands = 2
CHECK_DEADLOCK FALSE
INVARIANTS
  TypeOK
  FramingHolds
PROPERTIES
  LiveDeviceKept
  CommandCompletes
  SentIsDelivered

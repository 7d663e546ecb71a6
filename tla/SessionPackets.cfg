CONSTANTS
  Opcodes = {"CMSG_PLAYER_LOGIN", "CMSG_MOVE_HEARTBEAT", "CMSG_WORLD_PORT_RESPONSE", "CMSG_CANCEL_TRADE", "CMSG_LOGOUT_REQUEST", "CMSG_ENUM_CHARACTERS"}
  MaxPackets = 3
  MaxProcessed = 1
SPECIFICATION FairSpec
INVARIANTS  NoFreedPacket NoPacketLeak
PROPERTIES LoggedInOrder TurnWhilePlaying

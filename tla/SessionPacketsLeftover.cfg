CONSTANTS
  Opcodes = {"CMSG_PLAYER_LOGIN", "CMSG_MOVE_HEARTBEAT"}
  MaxPackets = 3
  MaxProcessed = 1
SPECIFICATION FairSpec
PROPERTIES LeftoverProcessed

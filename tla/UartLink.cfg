SPECIFICATION Spec
CONSTANTS
  MaxBlock = 3
  MaxPacket = 4
  MaxUart = 3
  MaxHub = 1
  MaxNoise = 1
  UartPackets <- McUartPackets
  HubPackets <- McHubPackets
INVARIANTS
  InOrderOnce
  LossIsBounded
CHECK_DEADLOCK FALSE

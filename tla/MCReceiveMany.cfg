SPECIFICATION Spec
CONSTANTS
  Payload = {1, 125}
  MaxBody = 1
  PlatformSerial = 124
  DeviceSerial = 124
  RecvBufferLen = 64
  ProtocolBufferSize = 64
  Hazards = {"many"}
  MaxSend = 2
INVARIANTS AllHandled
CHECK_DEADLOCK FALSE

SPECIFICATION Spec
CONSTANTS
  Payload = {1, 2, 125, 126}
  MaxBody = 2
  PlatformSerial = 124
  DeviceSerial = 255
  RecvBufferLen = 12
  ProtocolBufferSize = 8
  Hazards = {"many", "cut"}
  MaxSend = 2
INVARIANTS TypeOK HandledWasSent AnswersMatch
PROPERTIES WholeFrameHandled
CHECK_DEADLOCK FALSE

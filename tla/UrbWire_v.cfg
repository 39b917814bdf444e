CONSTANTS
  Urbs <- MCUrbs
  Transfers <- MCTransfers
  Pipes <- MCPipes
  ConfValue = 1
  Failures <- MCFailures
  DescSize = 2
  iSerial = 2
  wserial <- MCSerial
SPECIFICATION Spec
\* Each of these is violated; one at a time.
INVARIANT DataKept
\* INVARIANT DescsFit
\* INVARIANT PacketsSent
\* INVARIANT DirectionOfPipe
CHECK_DEADLOCK FALSE

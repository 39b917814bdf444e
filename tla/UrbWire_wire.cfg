CONSTANTS
  Urbs <- MCUrbs
  Transfers <- MCTransfers
  Pipes <- MCPipes
  ConfValue = 1
  Failures <- MCFailures
  DescSize = 2
  iSerial = 2
  wserial <- MCSerial
SPECIFICATION Spec
INVARIANT CommandFramed
INVARIANT SameRequest
INVARIANT AnswerFramed
INVARIANT RoundTrip
INVARIANT PacketsInPlace
INVARIANT PipeKnown
\* A forwarder that lost the stream, or ended, goes no further.
CHECK_DEADLOCK FALSE

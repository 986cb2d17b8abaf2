SPECIFICATION Spec
CONSTANTS
  Capacity = 3
  Content <- MCContent
  OtherContent <- MCOther
  Buffers <- OneAndTwo
  MaxCount = 2
  BlockLen = 2
  AddressMod = 6
  Retries = 1
  AcquireRetries = 1
  UseCrc = TRUE
  Persistent = TRUE
  MaxFaults = 1
PROPERTIES
  OkMeansDone

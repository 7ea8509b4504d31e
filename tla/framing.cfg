CONSTANTS
  MaxRequest = 4
  RecvMax = 8
  Streams <- MCStreams
SPECIFICATION Spec
INVARIANTS
  ServedInOrder
  
  
CHECK_DEADLOCK FALSE

SPECIFICATION Spec
CONSTANTS
  NR_TASKS = 4
  DEFAULT_RR_QUANTUM = 2
  freequeue = freequeue
  readyqueue = readyqueue
  keyboardqueue = keyboardqueue
  Sem = {}
  MaxSemValue = 0
  UART_READ_BUFFER_SIZE = 3
  ReadSizes = {1,3}
  MaxInput = 4
  MaxPID = 3
INVARIANTS
  LinkedOnce
  PartlyServedFirst
  BytesInOrder
  WorkConserving
PROPERTIES
  ReadsAreServedInOrder

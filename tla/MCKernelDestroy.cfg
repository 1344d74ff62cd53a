SPECIFICATION Spec
CONSTANTS
  NR_TASKS = 3
  DEFAULT_RR_QUANTUM = 1
  freequeue = freequeue
  readyqueue = readyqueue
  keyboardqueue = keyboardqueue
  Sem = {s1}
  MaxSemValue = 0
  UART_READ_BUFFER_SIZE = 2
  ReadSizes = {}
  MaxInput = 0
  MaxPID = 3
PROPERTIES
  DestroyIsReported

SPECIFICATION LiveSpec
CONSTANTS
  NR_TASKS = 4
  DEFAULT_RR_QUANTUM = 2
  freequeue = freequeue
  readyqueue = readyqueue
  keyboardqueue = keyboardqueue
  Sem = {s1}
  MaxSemValue = 0
  UART_READ_BUFFER_SIZE = 2
  ReadSizes = {2}
  MaxInput = 2
  MaxPID = 3
PROPERTIES
  ReadyTasksRun
  OldestReadServed
  ReleasedReturn

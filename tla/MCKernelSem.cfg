SPECIFICATION Spec
CONSTANTS
  NR_TASKS = 4
  DEFAULT_RR_QUANTUM = 2
  freequeue = freequeue
  readyqueue = readyqueue
  keyboardqueue = keyboardqueue
  Sem = {s1, s2}
  MaxSemValue = 1
  UART_READ_BUFFER_SIZE = 2
  ReadSizes = {}
  MaxInput = 0
  MaxPID = 4
SYMMETRY Symmetry
INVARIANTS
  TypeOK
  LinkedOnce
  NoneDropped
  WaitsWhereLinked
  NoLostWakeup
  NoSpuriousWakeup
  QuantumAgrees
  PIDsDiffer
PROPERTIES
  FirstComeFirstServed
  OrphansStay

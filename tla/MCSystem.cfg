SPECIFICATION BlankSpec
CONSTANTS
  NR_TASKS = 3
  DEFAULT_RR_QUANTUM = 1
  freequeue = freequeue
  readyqueue = readyqueue
  keyboardqueue = keyboardqueue
  Sem = {}
  MaxSemValue = 0
  UART_READ_BUFFER_SIZE = 2
  ReadSizes = {1}
  MaxInput = 1
  MaxPID = 2
  TOTAL_PH_PAGES = 16
  NUM_PAG_KERNEL = 4
  NUM_PAG_CODE = 1
  NUM_PAG_DATA = 2
  TOTAL_PAGES_ENTRIES = 5
  PAGE_SIZE = 2
  AddressSpace = 32
  Increments <- WholePages
  MaxWritten = 2
  MaxTlb = 3
CONSTRAINTS
  FewWritten
  SmallTlb
INVARIANTS
  TranslationsCurrent
PROPERTIES
  ProcessesIsolated
  
  DataIsCopied
  ImplementsMemory

SPECIFICATION Spec
CONSTANTS
  NR_TASKS = 3
  TOTAL_PH_PAGES = 14
  NUM_PAG_KERNEL = 4
  NUM_PAG_CODE = 1
  NUM_PAG_DATA = 1
  TOTAL_PAGES_ENTRIES = 4
  PAGE_SIZE = 2
  AddressSpace = 32
  Increments <- BelowZero
  Byte = {0}
CHECK_DEADLOCK FALSE
INVARIANTS
  BreakInHeap

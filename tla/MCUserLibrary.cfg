SPECIFICATION LibSpec
CONSTANTS
  Element = {101, 102}
  size = 3
  PAGE_SIZE = 8
  USER_FIRST_PAGE = 1
  NUM_PAG_CODE = 1
  NUM_PAG_DATA = 1
  AddressSpace = 128
  WriteArguments <- Writes
  ReadArguments <- Reads
  ErrorPrefixes <- Strings
  Numbers <- Ints
  OtherErrors = {100000}
  MaxCalls = 3
INVARIANTS
  TypeOK
  CounterAgrees
  BlocksInside
  WriteSendsBuffer
  ReadFillsBuffer
  FailureReported
  PerrorTellsError
  NumbersReadBack
PROPERTIES
  IsBoundedQueue

SPECIFICATION GetSpec
CONSTANTS
  readyqueue = readyqueue
  keyboardqueue = keyboardqueue
  semqueues = {semqueue}
  Heads = {readyqueue, keyboardqueue, semqueue}
  Entries = {t1, t2, t3, t4}
  NULL = NULL
INVARIANTS
  AnswerIsRight
  ListsIntact

SPECIFICATION Spec

CONSTANTS
  Heads = {freequeue, readyqueue, console_blocked}
  Entries = {t1, t2, t3, t4}
  NULL = NULL

INVARIANTS
  Represents
  ReadsAgree

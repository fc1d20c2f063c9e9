CONSTANTS
  Waiters = {t1, t2}
SPECIFICATION Spec
PROPERTIES
  PermanentlyFalseEndsPauses
CHECK_DEADLOCK FALSE

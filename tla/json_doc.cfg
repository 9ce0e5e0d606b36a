\* One document, two threads; a value may be an INT, a STRING, an array or an
\* object of at most one element.
SPECIFICATION Spec
CONSTANTS
  Threads = {t1, t2}
  NoThread = none
  JsonTypes = {"INT", "STRING"}
  MaxSize = 1
INVARIANTS WaitsForCalls
CHECK_DEADLOCK FALSE

SPECIFICATION Spec
CONSTANTS
  a = a
  b = b
  Conns = {a, b}
  Timeout = 2
  Leavers = {b}
  Offers <- Mixed
  MaxRequests <- TwoOnA
INVARIANTS AnswersMatch NobodyWithoutDeadline
PROPERTIES DeadlineNotEarly ComesToRest
CHECK_DEADLOCK FALSE

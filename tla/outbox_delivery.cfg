CONSTANTS
  Orders = {o1}
  Refunds = {f1}
  MaxEvents = 2
  Workers = {w1, w2}
  Failures = {e1}
  AttemptLimit = 3
  ErrorLimit = 2
  MaxStalls = 1
  MaxCrashes = 1
  None = None
SPECIFICATION Spec
INVARIANTS
  OneHandlerAtATime
  PublishedMeansDone
  EffectsInOrder
  RefundSettledOnce
PROPERTIES
  VerdictsAreFinal
  EveryEventSettles
CHECK_DEADLOCK FALSE

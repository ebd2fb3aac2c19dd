CONSTANTS
  Orders = {o1}
  Events = {e1, e2}
  Requests = {r1}
  MaxAttempts = 3
  RetryRoutes = {"payment_intent", "retry_order"}
SPECIFICATION Spec
INVARIANTS
  TypeOK
  MoneyMatchesStock
  NewestAttemptDecides
  ChargedOnce
  InboxTellsTheTruth
PROPERTIES
  LifecycleSpec
  OverdueOrdersExpire
CHECK_DEADLOCK FALSE

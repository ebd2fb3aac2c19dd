CONSTANTS
  Orders = {o1}
  Events = {e1, e2}
  Requests = {r1}
  MaxAttempts = 2
  RetryRoutes = {"payment_intent", "retry_order"}
SPECIFICATION Spec

PROPERTIES
  LivePaymentAccepted
CHECK_DEADLOCK FALSE

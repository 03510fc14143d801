SPECIFICATION Spec
CONSTANTS
  Items = {"a", "b"}
  NoItem = "none"
  QueueLimit = 4
  Callers = {"nl_cache_refill", "nl_get_multicast_id", "handle_cmd", "unl_request", "nl_wait_for_ack"}
  Kinds <- MCKinds
  Replies <- MCReplies
  Refusals = TRUE
  SendFailures = TRUE
  MaxRequests = 4
INVARIANTS TypeOK InStep FailedSendIsFatal
PROPERTY Implements
CHECK_DEADLOCK FALSE

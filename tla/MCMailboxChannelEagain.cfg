\* A blocking and a non-blocking read of the async queue by one thread.
CONSTANTS
  X2ISize <- MCRingSize
  I2XSize <- MCRingSize
  MaxIds <- MCMaxIds
  ReqPayloads <- MCReqPayloads
  RespPayloads <- MCRespPayloads
  MaxSends = 1
  MaxAsync = 2
  Senders = {s1}
  Waiters = {w1}
  MsiGatedByIohub = FALSE
  Faults = {}
  MaxFaults = 0
  Reopened = FALSE
  Tomb = Tomb
  Junk = Junk
  NoMsg = NoMsg

SPECIFICATION Spec

PROPERTY BlockingWaitGetsMessage

\* After teardown, or once all traffic is done, nothing more happens.
CHECK_DEADLOCK FALSE

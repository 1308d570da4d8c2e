\* Requests, responses and teardown: one sender, no async traffic.
CONSTANTS
  X2ISize <- MCRingSize
  I2XSize <- MCRingSize
  MaxIds <- MCMaxIds
  ReqPayloads <- MCCallerSizes
  RespPayloads <- MCRespPayloads
  MaxSends = 3
  MaxAsync = 0
  Senders = {s1}
  Waiters = {}
  MsiGatedByIohub = FALSE
  Faults = {}
  MaxFaults = 0
  Reopened = FALSE
  Tomb = Tomb
  Junk = Junk
  NoMsg = NoMsg

SPECIFICATION Spec

INVARIANT TypeOK
INVARIANT RecordsAccounted
INVARIANT ReleasedOnceToOwner
INVARIANT TeardownCancelsAll
PROPERTY EveryRequestCompletes
PROPERTY ServiceRefinement

\* After teardown, or once every send call is made and answered, nothing
\* more happens: the idle driver.
CHECK_DEADLOCK FALSE

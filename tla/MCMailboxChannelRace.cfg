\* Two threads in xdna_mailbox_send_msg at once on one channel.
CONSTANTS
  X2ISize <- MCRingSize
  I2XSize <- MCRingSize
  MaxIds <- MCMaxIds
  ReqPayloads <- MCReqPayloads
  RespPayloads <- MCRespPayloads
  MaxSends = 2
  MaxAsync = 0
  Senders = {s1, s2}
  Waiters = {}
  MsiGatedByIohub = FALSE
  Faults = {}
  MaxFaults = 0
  Reopened = FALSE
  Tomb = Tomb
  Junk = Junk
  NoMsg = NoMsg

SPECIFICATION Spec

INVARIANT RecordsAccounted

\* After teardown, or once every send call is made and answered, nothing
\* more happens: the idle driver.
CHECK_DEADLOCK FALSE

\* One send answered while its thread is still in mailbox_send_msg.
CONSTANTS
  X2ISize <- MCRingSize
  I2XSize <- MCRingSize
  MaxIds <- MCMaxIds
  ReqPayloads <- MCReqPayloads
  RespPayloads <- MCRespPayloads
  MaxSends = 1
  MaxAsync = 0
  Senders = {s1}
  Waiters = {}
  MsiGatedByIohub = FALSE
  Faults = {}
  MaxFaults = 0
  Reopened = FALSE
  Tomb = Tomb
  Junk = Junk
  NoMsg = NoMsg

SPECIFICATION Spec

INVARIANT TraceReadsLiveRecord

\* An idle or destroyed channel does nothing more.
CHECK_DEADLOCK FALSE

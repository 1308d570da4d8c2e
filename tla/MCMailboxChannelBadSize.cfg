\* One answer with an impossible total_size, followed by good ones.
CONSTANTS
  X2ISize <- MCRingSize
  I2XSize <- MCRingSize
  MaxIds <- MCMaxIds
  ReqPayloads <- MCReqPayloads
  RespPayloads <- MCRespPayloads
  MaxSends = 2
  MaxAsync = 0
  Senders = {s1}
  Waiters = {}
  MsiGatedByIohub = FALSE
  Faults = {"badsize"}
  MaxFaults = 1
  Reopened = FALSE
  Tomb = Tomb
  Junk = Junk
  NoMsg = NoMsg

SPECIFICATION Spec

PROPERTY ChannelKeepsReceiving

\* An idle or destroyed channel does nothing more.
CHECK_DEADLOCK FALSE

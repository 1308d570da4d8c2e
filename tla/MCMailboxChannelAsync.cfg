\* Async messages and a waiter, next to a little request traffic, with a
\* device that may write one header of impossible size (which stalls the
\* I2X ring, see MCMailboxChannelBadSize.cfg).
CONSTANTS
  X2ISize <- MCRingSize
  I2XSize <- MCRingSize
  MaxIds <- MCMaxIds
  ReqPayloads <- MCReqPayloads
  RespPayloads <- MCRespPayloads
  MaxSends = 1
  MaxAsync = 2
  Senders = {s1}
  Waiters = {w1, w2}
  MsiGatedByIohub = FALSE
  Faults = {"badsize"}
  MaxFaults = 1
  Reopened = FALSE
  Tomb = Tomb
  Junk = Junk
  NoMsg = NoMsg

SPECIFICATION Spec

INVARIANT QueuedMessagesCounted

\* After teardown, or once all traffic is done, nothing more happens.
CHECK_DEADLOCK FALSE

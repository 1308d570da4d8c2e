\* An answer with an impossible total_size, and enough traffic after it
\* for the device to wrap the I2X ring.
CONSTANTS
  X2ISize <- MCRingSize
  I2XSize <- MCRingSize
  MaxIds <- MCMaxIds
  ReqPayloads <- MCSmallPayloads
  RespPayloads <- MCSmallPayloads
  MaxSends = 4
  MaxAsync = 0
  Senders = {s1}
  Waiters = {}
  MsiGatedByIohub = FALSE
  Faults = {"badsize"}
  MaxFaults = 1
  Reopened = FALSE
  Tomb = Tomb
  Junk = Junk
  NoMsg = NoMsg

SPECIFICATION Spec

INVARIANT HeadStaysInRing

\* An idle or destroyed channel does nothing more.
CHECK_DEADLOCK FALSE

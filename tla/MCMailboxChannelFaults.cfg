\* A device that duplicates answers and writes ids without MAGIC_VAL; two
\* sends, so no id is reused.
CONSTANTS
  X2ISize <- MCRingSize
  I2XSize <- MCRingSize
  MaxIds <- MCMaxIds
  ReqPayloads <- MCReqPayloads
  RespPayloads <- MCRespPayloads
  MaxSends = 2
  MaxAsync = 0
  Senders = {s1}
  Waiters = {}
  MsiGatedByIohub = FALSE
  Faults = {"dup", "badmagic"}
  MaxFaults = 1
  Reopened = FALSE
  Tomb = Tomb
  Junk = Junk
  NoMsg = NoMsg

SPECIFICATION Spec

INVARIANT ReleasedOnceToOwner
PROPERTY EveryRequestCompletes

\* An idle or destroyed channel does nothing more.
CHECK_DEADLOCK FALSE

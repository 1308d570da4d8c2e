CONSTANTS
  RingSize <- MCRingSize
  MaxSends <- MCMaxSends
  PayloadSizes <- MCPayloadSizes
  Tomb = Tomb
  Junk = Junk

SPECIFICATION Spec

INVARIANT TypeOK
PROPERTY FifoRefinement

\* Once the producer stops sending and the consumer has drained the ring,
\* nothing is enabled: an idle mailbox is a state the driver rests in.
CHECK_DEADLOCK FALSE

-------------------------- MODULE MCRingTransport --------------------------
(* RingTransport with a 64-byte ring (16 words): four minimal packages     *)
(* fill it, so the producer wraps with a TOMBSTONE and meets a full ring  *)
(* several times within MaxSends packages.                                 *)
EXTENDS RingTransport

MCRingSize == 64
MCMaxSends == 7
\* 16- and 24-byte packages: wraps at every alignment the ring allows.
MCPayloadSizes == {0, 8}
\* Adds a 40-byte package, larger than half the ring.
MCLargePayloadSizes == {0, 24}
=============================================================================

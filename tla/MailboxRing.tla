---------------------------- MODULE MailboxRing ----------------------------
(***************************************************************************)
(* One mailbox ring buffer of amdxdna_mailbox.c: a CHAN_RES_X2I or a      *)
(* CHAN_RES_I2X resource.  The ring memory is a function from word        *)
(* offsets (bytes, multiples of 4) to words; the head and tail pointer    *)
(* registers and the producer's and the consumer's private copies of      *)
(* them are variables.  The operators are the framing a producer uses in  *)
(* mailbox_send_msg and a consumer uses in mailbox_get_msg.               *)
(*                                                                         *)
(* A word at the start of a package stands for the whole 16-byte header:  *)
(* it is the message record itself, whose field size is the payload size  *)
(* (header.total_size = header.size).  Every other word of a package, and *)
(* memory nobody has written, is Junk.  The TOMBSTONE word is Tomb.       *)
(***************************************************************************)
EXTENDS Integers, Sequences

CONSTANTS
  RingSize,  \* res[type].rb_size, in bytes
  Tomb,      \* the word TOMBSTONE (0xDEADFACE)
  Junk,      \* any word that is neither a header nor TOMBSTONE
  JunkHeader \* what the consumer makes of a Junk word read as a header

VARIABLES
  buf,         \* ring memory: word offset -> word
  headReg,     \* the head pointer register (mb_head_ptr_reg)
  tailReg,     \* the tail pointer register (mb_tail_ptr_reg)
  cachedTail,  \* the producer's private tail (x2i_tail for the X2I ring)
  cachedHead   \* the consumer's private head (i2x_head for the I2X ring)

ringVars == <<buf, headReg, tailReg, cachedTail, cachedHead>>

HdrSize == 16   \* sizeof(struct xdna_msg_header)
WordSize == 4   \* sizeof(u32)

Offsets == {o \in 0 .. RingSize - 1 : o % WordSize = 0}

PkgSize(m) == HdrSize + m.size

InitRing ==
  /\ buf = [o \in Offsets |-> Junk]
  /\ headReg = 0
  /\ tailReg = 0
  /\ cachedTail = 0
  /\ cachedHead = 0

(***************************************************************************)
(* Producer: mailbox_send_msg, given the head register value hd it read   *)
(* and the cached tail tl it started from.                                 *)
(***************************************************************************)

\* Mutation: the first no-space test lets the tail catch up with the head.
NoSpaceReachHead(hd, tl, sz) ==
  \/ tl < hd /\ tl + sz > hd
  \/ tl >= hd /\ tl + sz > RingSize - WordSize /\ sz >= hd

\* Mutation: equal pointers are not treated as "tail at or past head".
WrapsStrict(hd, tl, sz) == tl > hd /\ tl + sz > RingSize - WordSize

\* The two "goto no_space" tests.
NoSpace(hd, tl, sz) ==
  \/ tl < hd /\ tl + sz >= hd
  \/ tl >= hd /\ tl + sz > RingSize - WordSize /\ sz >= hd

\* The package does not fit before the end: TOMBSTONE at tl, write at 0.
Wraps(hd, tl, sz) == tl >= hd /\ tl + sz > RingSize - WordSize

StartOf(hd, tl, sz) == IF Wraps(hd, tl, sz) THEN 0 ELSE tl

\* Ring memory after the TOMBSTONE (if any) and memcpy_toio of a package of
\* sz bytes whose header is m.
Written(hd, tl, m, sz) ==
  LET st == StartOf(hd, tl, sz)
  IN [o \in Offsets |->
        IF o = st THEN m
        ELSE IF st < o /\ o < st + sz THEN Junk
        ELSE IF Wraps(hd, tl, sz) /\ o = tl THEN Tomb
        ELSE buf[o]]

\* mailbox_set_tailptr: the tail register and the cached tail together.
SetTail(v) == tailReg' = v /\ cachedTail' = v

\* A successful mailbox_send_msg of sz bytes with header m: the writes,
\* then mailbox_set_tailptr, which sets the tail register and the cached
\* tail to the same value.  The host always frames sz = PkgSize(m); a
\* faulty device need not.
WriteAs(hd, tl, m, sz) ==
  /\ ~NoSpace(hd, tl, sz)
  /\ buf' = Written(hd, tl, m, sz)
  /\ SetTail(StartOf(hd, tl, sz) + sz)

Write(hd, tl, m) == WriteAs(hd, tl, m, PkgSize(m))

(***************************************************************************)
(* Consumer: one iteration of mailbox_get_msg from the cached head, given *)
(* the tail register value t it read.                                      *)
(***************************************************************************)

\* (head & (ringbuf_size - 1)) == (tail & (ringbuf_size - 1)); the size is
\* a power of two, so the mask is a remainder.
IsEmpty(h, t) == h % RingSize = t % RingSize

\* "if (head == ringbuf_size) head = 0;"
ReadPos(h) == IF h = RingSize THEN 0 ELSE h

\* msg_size + sizeof(header) > tail - head, in u32.  When t < h the u32
\* difference wraps to at least 2^32 - RingSize, above every package size,
\* so the test can only fail when t >= h.
SizeExceeds(sz, t, h) == t >= h /\ sz + HdrSize > t - h

\* The word peeked at the read position, and the header it starts.  A
\* Junk word read as a header has garbage fields; JunkHeader fixes one
\* value they can take (size 0, an id no request has).
Peek(h) == buf[ReadPos(h)]
HeaderAt(h) == IF Peek(h) = Junk THEN JunkHeader ELSE Peek(h)

\* mailbox_set_headptr: the head register and the cached head together.
SetHead(v) == headReg' = v /\ cachedHead' = v

\* The TOMBSTONE branch: jump to the start of the ring.
SkipTomb(t) ==
  /\ ~IsEmpty(cachedHead, t)
  /\ Peek(cachedHead) = Tomb
  /\ SetHead(0)

\* The header at the read position is valid for tail t: the message is
\* consumed and the head moves past it ("head + sizeof(header) +
\* msg_size", which may equal ringbuf_size).
Consume(t) ==
  /\ ~IsEmpty(cachedHead, t)
  /\ Peek(cachedHead) # Tomb
  /\ ~SizeExceeds(HeaderAt(cachedHead).size, t, ReadPos(cachedHead))
  /\ SetHead(ReadPos(cachedHead) + HdrSize + HeaderAt(cachedHead).size)

\* The -EINVAL branch: the header claims more than the ring holds.
Invalid(t) ==
  /\ ~IsEmpty(cachedHead, t)
  /\ Peek(cachedHead) # Tomb
  /\ SizeExceeds(HeaderAt(cachedHead).size, t, ReadPos(cachedHead))

-----------------------------------------------------------------------------
(* Refinement mapping toward MessageFifo: the packages a consumer would  *)
(* parse from its cached head up to the tail register, following          *)
(* TOMBSTONEs.  fuel bounds the walk by the number of words in the ring. *)
RECURSIVE UnreadFrom(_, _)
UnreadFrom(h, fuel) ==
  IF fuel = 0 \/ IsEmpty(h, tailReg) THEN <<>>
  ELSE IF Peek(h) = Tomb THEN UnreadFrom(0, fuel - 1)
  ELSE <<HeaderAt(h)>>
         \o UnreadFrom(ReadPos(h) + HdrSize + HeaderAt(h).size, fuel - 1)

Unread == UnreadFrom(cachedHead, RingSize \div WordSize + 1)

=============================================================================

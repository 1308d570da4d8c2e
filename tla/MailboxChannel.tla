--------------------------- MODULE MailboxChannel ---------------------------
(***************************************************************************)
(* One struct mailbox_channel of amdxdna_mailbox.c with the device on the *)
(* other side of its two rings.                                            *)
(*                                                                         *)
(* Host actors: sender threads in xdna_mailbox_send_msg, the interrupt     *)
(* handler mailbox_irq_handler, the single-threaded work queue running     *)
(* mailbox_rx_worker, a thread in xdna_mailbox_wait_async_msg, and the     *)
(* thread in xdna_mailbox_destroy_channel.  The device (firmware, not in   *)
(* this repository) consumes the X2I ring with the same framing the host   *)
(* uses on I2X, answers the requests it read in any order, may send async  *)
(* messages, and raises the interrupt after publishing.                    *)
(*                                                                         *)
(* A wire message id is <<high byte, low 24 bits>>: host ids are           *)
(* <<MagicHi, idr slot>> (msg_id | MAGIC_VAL), async ids have a high byte  *)
(* >= AsyncHi (id >= ASYNC_MSG_START_ID).  The field for of a request or   *)
(* response is a ghost: the number of the send call it belongs to.         *)
(***************************************************************************)
EXTENDS Integers, Sequences, FiniteSets, FiniteSetsExt

CONSTANTS
  X2ISize, I2XSize,  \* rb_size of the two rings, in bytes
  Senders,           \* threads calling xdna_mailbox_send_msg
  Waiters,           \* threads calling xdna_mailbox_wait_async_msg
  MaxIds,            \* MAX_MSG_ID_ENTRIES
  ReqPayloads,       \* send_size values callers pass
  RespPayloads,      \* payload sizes of device responses and async messages
  MaxSends,          \* number of xdna_mailbox_send_msg calls in a behaviour
  MaxAsync,          \* number of async messages the device sends
  MsiGatedByIohub,   \* device raises an MSI only when the IOHUB register is 0
  Faults,            \* faults the device may commit: "dup", "badmagic", "badsize"
  MaxFaults,         \* number of faulty packages the device writes
  Reopened,          \* the rings were used by an earlier channel
  Tomb, Junk, NoMsg

MagicHi == 29    \* MAGIC_VAL >> 24 = 0x1D
AsyncHi == 128   \* ASYNC_MSG_START_ID >> 24 = 0x80
Seqs == 1 .. MaxSends
Slots == 0 .. MaxIds - 1

VARIABLES
  x2iBuf, x2iHeadReg, x2iTailReg, x2iTail, devHead,  \* X2I ring
  i2xBuf, i2xHeadReg, i2xTailReg, devTail, i2xHead,  \* I2X ring
  idr, idrNext,   \* chan_idr: slot -> pending record, and its cyclic cursor
  sender,         \* per sender thread: where it is in xdna_mailbox_send_msg
  nextSeq,        \* number of the next send call
  devReqs,        \* requests the device has read and not yet answered
  nAsync,         \* async messages the device has sent
  iohub,          \* the IOHUB interrupt register at iohub_int_addr
  irqLatched,     \* an MSI is pending at the host
  handler,        \* mailbox_irq_handler: "idle" or "ack" (work queued)
  workPending, workRunning,  \* rx_work: queued, executing
  asyncList, asyncDone,      \* async_msg_list and async_comp's count
  waiter,         \* per waiter thread: where it is in wait_async_msg
  chan,           \* progress of xdna_mailbox_destroy_channel
  fate,           \* history: how each send call's record was released
  sentOk,         \* history: send calls that returned 0
  answered,       \* history: send calls the device answered well-formed
  nFaults         \* faulty packages the device has written

devVars == <<answered, nFaults>>
x2iVars == <<x2iBuf, x2iHeadReg, x2iTailReg, x2iTail, devHead>>
i2xVars == <<i2xBuf, i2xHeadReg, i2xTailReg, devTail, i2xHead>>
vars == <<x2iVars, i2xVars, idr, idrNext, sender, nextSeq, devReqs, nAsync,
          iohub, irqLatched, handler, workPending, workRunning, asyncList,
          asyncDone, waiter, chan, fate, sentOk, devVars>>

\* The size field of a malformed header: any total_size of at least the
\* ring size is refused by the -EINVAL test whenever tail >= head.
Garbage == I2XSize

JunkHeader == [id |-> <<0, 0>>, size |-> 0, for |-> 0]

X2I == INSTANCE MailboxRing WITH RingSize <- X2ISize, buf <- x2iBuf,
         headReg <- x2iHeadReg, tailReg <- x2iTailReg,
         cachedTail <- x2iTail, cachedHead <- devHead
I2X == INSTANCE MailboxRing WITH RingSize <- I2XSize, buf <- i2xBuf,
         headReg <- i2xHeadReg, tailReg <- i2xTailReg,
         cachedTail <- devTail, cachedHead <- i2xHead

Records == [seq : Seqs, size : ReqPayloads]
Msgs == [id : ({MagicHi, AsyncHi} \X ({0} \cup Slots)) \cup {<<0, 0>>},
         size : ReqPayloads \cup RespPayloads \cup {Garbage},
         for : {0} \cup Seqs]
Fates == [how : {"resp", "cancel", "nospace"}, from : {0} \cup Seqs]
Idle == [pc |-> "idle", seq |-> 0, slot |-> 0, size |-> 0, hd |-> 0, tl |-> 0]

\* What an earlier channel on the same rings left: one exchange whose
\* request and response both carried id 0.
PrevMsg == [id |-> <<MagicHi, 0>>, size |-> 0, for |-> 0]

\* The rings when xdna_mailbox_create_channel runs: at 0, or, on rings an
\* earlier channel used, with its exchange still in memory and every
\* register past it.  The kzalloc of the channel leaves i2x_head at 0;
\* x2i_tail is seeded from the X2I tail register.
CreatedRings ==
  LET p == IF Reopened THEN X2I!PkgSize(PrevMsg) ELSE 0
      Left(offs) == [o \in offs |-> IF Reopened /\ o = 0 THEN PrevMsg ELSE Junk]
  IN /\ x2iBuf = Left(X2I!Offsets) /\ i2xBuf = Left(I2X!Offsets)
     /\ x2iHeadReg = p /\ x2iTailReg = p /\ devHead = p
     /\ i2xHeadReg = p /\ i2xTailReg = p /\ devTail = p
     /\ x2iTail = x2iTailReg
     /\ i2xHead = 0

Init ==
  /\ CreatedRings
  /\ idr = [i \in Slots |-> NoMsg]
  /\ idrNext = 0
  /\ sender = [s \in Senders |-> Idle]
  /\ nextSeq = 1
  /\ devReqs = {}
  /\ nAsync = 0
  /\ iohub = 0
  /\ irqLatched = FALSE
  /\ handler = "idle"
  /\ workPending = FALSE
  /\ workRunning = FALSE
  /\ asyncList = <<>>
  /\ asyncDone = 0
  /\ waiter = [w \in Waiters |-> "idle"]
  /\ chan = "live"
  /\ fate = [k \in Seqs |-> <<>>]
  /\ sentOk = {}
  /\ answered = {}
  /\ nFaults = 0

-----------------------------------------------------------------------------
(* xdna_mailbox_send_msg                                                    *)

\* idr_alloc_cyclic(&chan_idr, mb_msg, 0, MAX_MSG_ID_ENTRIES): the lowest
\* free slot at or after the cursor, else the lowest free slot.
FreeSlots == {i \in Slots : idr[i] = NoMsg}
\* Mutation: the cursor never wraps back to slot 0.
CyclicSlotNoWrap ==
  IF \E i \in FreeSlots : i >= idrNext
  THEN Min({i \in FreeSlots : i >= idrNext})
  ELSE idrNext

CyclicSlot ==
  IF \E i \in FreeSlots : i >= idrNext
  THEN Min({i \in FreeSlots : i >= idrNext})
  ELSE Min(FreeSlots)

\* The argument checks of xdna_mailbox_send_msg: the package fits the ring
\* size and the payload is 4-byte aligned.
ValidSend(p) == X2I!PkgSize([size |-> p]) <= X2ISize /\ p % X2I!WordSize = 0

\* A call that fails the checks, or whose first payload word is TOMBSTONE
\* (headTomb), returns -EINVAL before any allocation.
SendInvalid(s, p, headTomb) ==
  /\ chan = "live"
  /\ sender[s].pc = "idle"
  /\ nextSeq <= MaxSends
  /\ ~ValidSend(p) \/ headTomb
  /\ nextSeq' = nextSeq + 1
  /\ UNCHANGED <<devVars, x2iVars, i2xVars, idr, idrNext, sender, devReqs, nAsync,
                 iohub, irqLatched, handler, workPending, workRunning,
                 asyncList, asyncDone, waiter, chan, fate, sentOk>>

\* A valid call (its first payload word is not TOMBSTONE): the record is
\* built and mailbox_acquire_msgid stores it under a slot.
SendAcquire(s, p) ==
  /\ chan = "live"
  /\ sender[s].pc = "idle"
  /\ nextSeq <= MaxSends
  /\ ValidSend(p)
  /\ FreeSlots # {}
  /\ idr' = [idr EXCEPT ![CyclicSlot] = [seq |-> nextSeq, size |-> p]]
  /\ idrNext' = CyclicSlot + 1
  /\ sender' = [sender EXCEPT ![s] = [Idle EXCEPT !.pc = "acquired",
                  !.seq = nextSeq, !.slot = CyclicSlot, !.size = p]]
  /\ nextSeq' = nextSeq + 1
  /\ UNCHANGED <<devVars, x2iVars, i2xVars, devReqs, nAsync, iohub, irqLatched,
                 handler, workPending, workRunning, asyncList, asyncDone,
                 waiter, chan, fate, sentOk>>

\* idr_alloc_cyclic fails: all MAX_MSG_ID_ENTRIES ids are outstanding.
SendIdsExhausted(s) ==
  /\ chan = "live"
  /\ sender[s].pc = "idle"
  /\ nextSeq <= MaxSends
  /\ FreeSlots = {}
  /\ nextSeq' = nextSeq + 1
  /\ UNCHANGED <<devVars, x2iVars, i2xVars, idr, idrNext, sender, devReqs, nAsync,
                 iohub, irqLatched, handler, workPending, workRunning,
                 asyncList, asyncDone, waiter, chan, fate, sentOk>>

\* mailbox_send_msg reads the head register, then the cached x2i_tail.
SendReadPointers(s) ==
  /\ sender[s].pc = "acquired"
  /\ sender' = [sender EXCEPT ![s].pc = "read", ![s].hd = x2iHeadReg,
                              ![s].tl = x2iTail]
  /\ UNCHANGED <<devVars, x2iVars, i2xVars, idr, idrNext, nextSeq, devReqs, nAsync,
                 iohub, irqLatched, handler, workPending, workRunning,
                 asyncList, asyncDone, waiter, chan, fate, sentOk>>

ReqOf(snd) == [id |-> <<MagicHi, snd.slot>>, size |-> snd.size, for |-> snd.seq]

\* The package is written from the tail it read and the tail published.
SendWrite(s) ==
  LET snd == sender[s] IN
  /\ snd.pc = "read"
  /\ X2I!Write(snd.hd, snd.tl, ReqOf(snd))
  /\ sender' = [sender EXCEPT ![s].pc = "published"]
  /\ UNCHANGED <<devVars, x2iHeadReg, devHead, i2xVars, idr, idrNext, nextSeq,
                 devReqs, nAsync, iohub, irqLatched, handler, workPending,
                 workRunning, asyncList, asyncDone, waiter, chan, fate, sentOk>>

\* trace_mbox_set_tail reads mb_msg->pkg.header (opcode and id) after the
\* tail is published; then the call returns 0.
SendTrace(s) ==
  /\ sender[s].pc = "published"
  /\ sender' = [sender EXCEPT ![s] = Idle]
  /\ sentOk' = sentOk \cup {sender[s].seq}
  /\ UNCHANGED <<devVars, x2iVars, i2xVars, idr, idrNext, nextSeq, devReqs, nAsync,
                 iohub, irqLatched, handler, workPending, workRunning,
                 asyncList, asyncDone, waiter, chan, fate>>

\* mailbox_send_msg returns -ENOSPC ...
SendNoSpace(s) ==
  LET snd == sender[s] IN
  /\ snd.pc = "read"
  /\ X2I!NoSpace(snd.hd, snd.tl, X2I!HdrSize + snd.size)
  /\ sender' = [sender EXCEPT ![s].pc = "nospace"]
  /\ UNCHANGED <<devVars, x2iVars, i2xVars, idr, idrNext, nextSeq, devReqs, nAsync,
                 iohub, irqLatched, handler, workPending, workRunning,
                 asyncList, asyncDone, waiter, chan, fate, sentOk>>

\* Mutation: the -ENOSPC path frees the record but leaves its id in chan_idr.
SendReleaseIdKeep(s) ==
  LET snd == sender[s] IN
  /\ snd.pc = "nospace"
  /\ fate' = [fate EXCEPT ![snd.seq] = Append(@, [how |-> "nospace", from |-> 0])]
  /\ sender' = [sender EXCEPT ![s] = Idle]
  /\ UNCHANGED <<devVars, x2iVars, i2xVars, idr, idrNext, nextSeq, devReqs, nAsync,
                 iohub, irqLatched, handler, workPending, workRunning,
                 asyncList, asyncDone, waiter, chan, sentOk>>

\* Mutation: the -ENOSPC path frees the record with mailbox_release_msg,
\* which also runs the callback with NULL.
SendReleaseIdNotify(s) ==
  LET snd == sender[s] IN
  /\ snd.pc = "nospace"
  /\ idr' = [idr EXCEPT ![snd.slot] = NoMsg]
  /\ fate' = [fate EXCEPT ![snd.seq] = Append(@, [how |-> "cancel", from |-> 0])]
  /\ sender' = [sender EXCEPT ![s] = Idle]
  /\ UNCHANGED <<devVars, x2iVars, i2xVars, idrNext, nextSeq, devReqs, nAsync, iohub,
                 irqLatched, handler, workPending, workRunning, asyncList,
                 asyncDone, waiter, chan, sentOk>>

\* ... and mailbox_release_msgid removes the slot, then kfree.
SendReleaseId(s) ==
  LET snd == sender[s] IN
  /\ snd.pc = "nospace"
  /\ idr' = [idr EXCEPT ![snd.slot] = NoMsg]
  /\ fate' = [fate EXCEPT ![snd.seq] = Append(@, [how |-> "nospace", from |-> 0])]
  /\ sender' = [sender EXCEPT ![s] = Idle]
  /\ UNCHANGED <<devVars, x2iVars, i2xVars, idrNext, nextSeq, devReqs, nAsync, iohub,
                 irqLatched, handler, workPending, workRunning, asyncList,
                 asyncDone, waiter, chan, sentOk>>

-----------------------------------------------------------------------------
(* The device.  It publishes on I2X with the same framing as              *)
(* mailbox_send_msg and reads X2I as mailbox_get_msg does.                 *)

\* After publishing the device sets the IOHUB register and sends an MSI;
\* with MsiGatedByIohub it sends one only if the register was clear.
RaiseIrq ==
  /\ iohub' = 1
  /\ irqLatched' = IF MsiGatedByIohub /\ iohub = 1 THEN irqLatched ELSE TRUE

DevSkipTomb ==
  /\ chan # "freed"
  /\ X2I!SkipTomb(x2iTailReg)
  /\ UNCHANGED <<devVars, x2iBuf, x2iTailReg, x2iTail, i2xVars, idr, idrNext, sender,
                 nextSeq, devReqs, nAsync, iohub, irqLatched, handler,
                 workPending, workRunning, asyncList, asyncDone, waiter,
                 chan, fate, sentOk>>

DevReadReq ==
  /\ chan # "freed"
  /\ X2I!Consume(x2iTailReg)
  /\ devReqs' = devReqs \cup {X2I!HeaderAt(devHead)}
  /\ UNCHANGED <<devVars, x2iBuf, x2iTailReg, x2iTail, i2xVars, idr, idrNext, sender,
                 nextSeq, nAsync, iohub, irqLatched, handler, workPending,
                 workRunning, asyncList, asyncDone, waiter, chan, fate,
                 sentOk>>

\* A response carries the id of the request it answers.
DevRespond(r, p) ==
  /\ chan # "freed"
  /\ I2X!Write(i2xHeadReg, devTail, [id |-> r.id, size |-> p, for |-> r.for])
  /\ devReqs' = devReqs \ {r}
  /\ answered' = answered \cup {r.for}
  /\ RaiseIrq
  /\ UNCHANGED <<nFaults, x2iVars, i2xHeadReg, i2xHead, idr, idrNext, sender,
                 nextSeq, nAsync, handler, workPending, workRunning, asyncList,
                 asyncDone, waiter, chan, fate, sentOk>>

(* Faults of the device.  Each writes one package with the host framing  *)
(* and raises the interrupt; at most MaxFaults are written.               *)
DevFault(kind, m, sz, reqs) ==
  /\ chan # "freed"
  /\ kind \in Faults
  /\ nFaults < MaxFaults
  /\ I2X!WriteAs(i2xHeadReg, devTail, m, sz)
  /\ nFaults' = nFaults + 1
  /\ devReqs' = reqs
  /\ RaiseIrq
  /\ UNCHANGED <<answered, x2iVars, i2xHeadReg, i2xHead, idr, idrNext, sender,
                 nextSeq, nAsync, handler, workPending, workRunning,
                 asyncList, asyncDone, waiter, chan, fate, sentOk>>

\* A request answered a second time (a retransmission or a late copy).
DevDuplicate(r, p) ==
  DevFault("dup", [id |-> r.id, size |-> p, for |-> r.for], I2X!HdrSize + p,
           devReqs)

\* A response whose id lacks MAGIC_VAL (and is below ASYNC_MSG_START_ID).
DevBadMagic(p) ==
  DevFault("badmagic", [id |-> <<0, 0>>, size |-> p, for |-> 0], I2X!HdrSize + p,
           devReqs)

\* The answer to r is a header-only package whose total_size claims
\* Garbage bytes.
DevBadSize(r) ==
  DevFault("badsize", [id |-> r.id, size |-> Garbage, for |-> r.for], I2X!HdrSize,
           devReqs \ {r})

DevAsync(p) ==
  /\ chan # "freed"
  /\ nAsync < MaxAsync
  /\ I2X!Write(i2xHeadReg, devTail, [id |-> <<AsyncHi, 0>>, size |-> p, for |-> 0])
  /\ nAsync' = nAsync + 1
  /\ RaiseIrq
  /\ UNCHANGED <<devVars, x2iVars, i2xHeadReg, i2xHead, idr, idrNext, sender, nextSeq,
                 devReqs, handler, workPending, workRunning, asyncList,
                 asyncDone, waiter, chan, fate, sentOk>>

-----------------------------------------------------------------------------
(* mailbox_irq_handler: queue_work(work_q, &rx_work), which does nothing  *)
(* if rx_work is already pending, then clear the IOHUB register.  The     *)
(* handler is registered from channel creation until free_irq.            *)

IrqQueueWork ==
  /\ chan = "live"
  /\ handler = "idle"
  /\ irqLatched
  /\ irqLatched' = FALSE
  /\ handler' = "ack"
  /\ workPending' = TRUE
  /\ UNCHANGED <<devVars, x2iVars, i2xVars, idr, idrNext, sender, nextSeq, devReqs,
                 nAsync, iohub, workRunning, asyncList, asyncDone, waiter,
                 chan, fate, sentOk>>

IrqClearIohub ==
  /\ handler = "ack"
  /\ iohub' = 0
  /\ handler' = "idle"
  /\ UNCHANGED <<devVars, x2iVars, i2xVars, idr, idrNext, sender, nextSeq, devReqs,
                 nAsync, irqLatched, workPending, workRunning, asyncList,
                 asyncDone, waiter, chan, fate, sentOk>>

-----------------------------------------------------------------------------
(* mailbox_rx_worker on the single-threaded work queue: rx_work starts     *)
(* when pending (clearing pending, so a later queue_work runs it again),   *)
(* then each step is one mailbox_get_msg; the loop ends on -ENOENT.        *)

WorkerStart ==
  /\ workPending
  /\ ~workRunning
  /\ workPending' = FALSE
  /\ workRunning' = TRUE
  /\ UNCHANGED <<devVars, x2iVars, i2xVars, idr, idrNext, sender, nextSeq, devReqs,
                 nAsync, iohub, irqLatched, handler, asyncList, asyncDone,
                 waiter, chan, fate, sentOk>>

WorkerEmpty ==
  /\ workRunning
  /\ I2X!IsEmpty(i2xHead, i2xTailReg)
  /\ workRunning' = FALSE
  /\ UNCHANGED <<devVars, x2iVars, i2xVars, idr, idrNext, sender, nextSeq, devReqs,
                 nAsync, iohub, irqLatched, handler, workPending, asyncList,
                 asyncDone, waiter, chan, fate, sentOk>>

WorkerTomb ==
  /\ workRunning
  /\ I2X!SkipTomb(i2xTailReg)
  /\ UNCHANGED <<devVars, x2iVars, i2xBuf, i2xTailReg, devTail, idr, idrNext, sender,
                 nextSeq, devReqs, nAsync, iohub, irqLatched, handler,
                 workPending, workRunning, asyncList, asyncDone, waiter,
                 chan, fate, sentOk>>

Hdr == I2X!HeaderAt(i2xHead)

\* mailbox_validate_msgid: the high byte is MAGIC_VAL's.
ValidMsgId(id) == id[1] = MagicHi

\* Mutation: one mailbox_get_msg per run of rx_work instead of a loop.
WorkerRespOnce ==
  /\ workRunning
  /\ I2X!Consume(i2xTailReg)
  /\ Hdr.id[1] < AsyncHi
  /\ ValidMsgId(Hdr.id)
  /\ idr[Hdr.id[2]] # NoMsg
  /\ idr' = [idr EXCEPT ![Hdr.id[2]] = NoMsg]
  /\ fate' = [fate EXCEPT ![idr[Hdr.id[2]].seq] =
                Append(@, [how |-> "resp", from |-> Hdr.for])]
  /\ workRunning' = FALSE
  /\ UNCHANGED <<devVars, x2iVars, i2xBuf, i2xTailReg, devTail, idrNext, sender,
                 nextSeq, devReqs, nAsync, iohub, irqLatched, handler,
                 workPending, asyncList, asyncDone, waiter, chan, sentOk>>

\* Mutation: the callback runs but the record stays in chan_idr.
WorkerRespNoRemove ==
  /\ workRunning
  /\ I2X!Consume(i2xTailReg)
  /\ Hdr.id[1] < AsyncHi
  /\ ValidMsgId(Hdr.id)
  /\ idr[Hdr.id[2]] # NoMsg
  /\ fate' = [fate EXCEPT ![idr[Hdr.id[2]].seq] =
                Append(@, [how |-> "resp", from |-> Hdr.for])]
  /\ UNCHANGED <<devVars, x2iVars, i2xBuf, i2xTailReg, devTail, idr, idrNext, sender,
                 nextSeq, devReqs, nAsync, iohub, irqLatched, handler,
                 workPending, workRunning, asyncList, asyncDone, waiter,
                 chan, sentOk>>

\* mailbox_get_resp: under chan_idr_lock find and remove the record, then
\* notify_cb(handle, data, size) and kfree.
WorkerResp ==
  /\ workRunning
  /\ I2X!Consume(i2xTailReg)
  /\ Hdr.id[1] < AsyncHi
  /\ ValidMsgId(Hdr.id)
  /\ idr[Hdr.id[2]] # NoMsg
  /\ idr' = [idr EXCEPT ![Hdr.id[2]] = NoMsg]
  /\ fate' = [fate EXCEPT ![idr[Hdr.id[2]].seq] =
                Append(@, [how |-> "resp", from |-> Hdr.for])]
  /\ UNCHANGED <<devVars, x2iVars, i2xBuf, i2xTailReg, devTail, idrNext, sender,
                 nextSeq, devReqs, nAsync, iohub, irqLatched, handler,
                 workPending, workRunning, asyncList, asyncDone, waiter,
                 chan, sentOk>>

\* mailbox_get_resp, id without MAGIC_VAL: dropped, the head advances.
WorkerBadMagic ==
  /\ workRunning
  /\ I2X!Consume(i2xTailReg)
  /\ Hdr.id[1] < AsyncHi
  /\ ~ValidMsgId(Hdr.id)
  /\ UNCHANGED <<devVars, x2iVars, i2xBuf, i2xTailReg, devTail, idr, idrNext,
                 sender, nextSeq, devReqs, nAsync, iohub, irqLatched, handler,
                 workPending, workRunning, asyncList, asyncDone, waiter, chan,
                 fate, sentOk>>

\* Mutation: an orphan response ends the drain loop.
WorkerOrphanStops ==
  /\ workRunning
  /\ I2X!Consume(i2xTailReg)
  /\ ValidMsgId(Hdr.id)
  /\ idr[Hdr.id[2]] = NoMsg
  /\ workRunning' = FALSE
  /\ UNCHANGED <<devVars, x2iVars, i2xBuf, i2xTailReg, devTail, idr, idrNext,
                 sender, nextSeq, devReqs, nAsync, iohub, irqLatched, handler,
                 workPending, asyncList, asyncDone, waiter, chan, fate, sentOk>>

\* mailbox_get_resp, idr_find finds no record: WARN_ONCE, dropped, the
\* head advances.
WorkerOrphan ==
  /\ workRunning
  /\ I2X!Consume(i2xTailReg)
  /\ ValidMsgId(Hdr.id)
  /\ idr[Hdr.id[2]] = NoMsg
  /\ UNCHANGED <<devVars, x2iVars, i2xBuf, i2xTailReg, devTail, idr, idrNext,
                 sender, nextSeq, devReqs, nAsync, iohub, irqLatched, handler,
                 workPending, workRunning, asyncList, asyncDone, waiter, chan,
                 fate, sentOk>>

\* The -EINVAL branch of mailbox_get_msg: the loop ends and the head stays
\* on the header it refused.
WorkerInvalid ==
  /\ workRunning
  /\ I2X!Invalid(i2xTailReg)
  /\ workRunning' = FALSE
  /\ UNCHANGED <<devVars, x2iVars, i2xVars, idr, idrNext, sender, nextSeq,
                 devReqs, nAsync, iohub, irqLatched, handler, workPending,
                 asyncList, asyncDone, waiter, chan, fate, sentOk>>

\* Mutation: the message is queued without complete(&async_comp).
WorkerAsyncNoComplete ==
  /\ workRunning
  /\ I2X!Consume(i2xTailReg)
  /\ Hdr.id[1] >= AsyncHi
  /\ asyncList' = Append(asyncList, Hdr)
  /\ UNCHANGED <<devVars, x2iVars, i2xBuf, i2xTailReg, devTail, idr, idrNext, sender,
                 nextSeq, devReqs, nAsync, iohub, irqLatched, handler,
                 workPending, workRunning, asyncDone, waiter, chan, fate,
                 sentOk>>

\* mailbox_get_async_msg: kzalloc, list_add_tail under async_msg_lock,
\* complete(&async_comp).
WorkerAsync ==
  /\ workRunning
  /\ I2X!Consume(i2xTailReg)
  /\ Hdr.id[1] >= AsyncHi
  /\ asyncList' = Append(asyncList, Hdr)
  /\ asyncDone' = asyncDone + 1
  /\ UNCHANGED <<devVars, x2iVars, i2xBuf, i2xTailReg, devTail, idr, idrNext, sender,
                 nextSeq, devReqs, nAsync, iohub, irqLatched, handler,
                 workPending, workRunning, waiter, chan, fate, sentOk>>

\* kzalloc fails: the async message is dropped, the head still advances.
WorkerAsyncNoMem ==
  /\ workRunning
  /\ I2X!Consume(i2xTailReg)
  /\ Hdr.id[1] >= AsyncHi
  /\ UNCHANGED <<devVars, x2iVars, i2xBuf, i2xTailReg, devTail, idr, idrNext, sender,
                 nextSeq, devReqs, nAsync, iohub, irqLatched, handler,
                 workPending, workRunning, asyncList, asyncDone, waiter,
                 chan, fate, sentOk>>

-----------------------------------------------------------------------------
(* xdna_mailbox_wait_async_msg                                              *)

WaitBlocking(w) ==
  /\ chan = "live"
  /\ waiter[w] = "idle"
  /\ waiter' = [waiter EXCEPT ![w] = "blocked"]
  /\ UNCHANGED <<devVars, x2iVars, i2xVars, idr, idrNext, sender, nextSeq, devReqs,
                 nAsync, iohub, irqLatched, handler, workPending, workRunning,
                 asyncList, asyncDone, chan, fate, sentOk>>

WaitNonBlocking(w) ==
  /\ chan = "live"
  /\ waiter[w] = "idle"
  /\ waiter' = [waiter EXCEPT ![w] = "pop"]
  /\ UNCHANGED <<devVars, x2iVars, i2xVars, idr, idrNext, sender, nextSeq, devReqs,
                 nAsync, iohub, irqLatched, handler, workPending, workRunning,
                 asyncList, asyncDone, chan, fate, sentOk>>

\* wait_for_completion_interruptible returns having taken one count ...
WaitWoken(w) ==
  /\ waiter[w] = "blocked"
  /\ asyncDone > 0
  /\ asyncDone' = asyncDone - 1
  /\ waiter' = [waiter EXCEPT ![w] = "woken"]
  /\ UNCHANGED <<devVars, x2iVars, i2xVars, idr, idrNext, sender, nextSeq, devReqs,
                 nAsync, iohub, irqLatched, handler, workPending, workRunning,
                 asyncList, chan, fate, sentOk>>

\* ... or a signal ends the wait with -ERESTARTSYS.  do_wait_for_common
\* takes a count when there is one and looks for a signal only while the
\* count is 0.
WaitSignalled(w) ==
  /\ waiter[w] = "blocked"
  /\ asyncDone = 0
  /\ waiter' = [waiter EXCEPT ![w] = "idle"]
  /\ UNCHANGED <<devVars, x2iVars, i2xVars, idr, idrNext, sender, nextSeq, devReqs,
                 nAsync, iohub, irqLatched, handler, workPending, workRunning,
                 asyncList, asyncDone, chan, fate, sentOk>>

\* Under async_msg_lock: take the first message, or -EAGAIN if none.
WaitPop(w) ==
  /\ waiter[w] \in {"pop", "woken"}
  /\ waiter' = [waiter EXCEPT ![w] = "idle"]
  /\ asyncList' = IF asyncList = <<>> THEN <<>> ELSE Tail(asyncList)
  /\ UNCHANGED <<devVars, x2iVars, i2xVars, idr, idrNext, sender, nextSeq, devReqs,
                 nAsync, iohub, irqLatched, handler, workPending, workRunning,
                 asyncDone, chan, fate, sentOk>>

-----------------------------------------------------------------------------
(* xdna_mailbox_destroy_channel, called once no send or wait is in        *)
(* progress on the channel.                                                *)

\* free_irq waits for a running handler; no handler runs after it.
DestroyFreeIrq ==
  /\ chan = "live"
  /\ handler = "idle"
  /\ \A s \in Senders : sender[s].pc = "idle"
  /\ \A w \in Waiters : waiter[w] = "idle"
  /\ chan' = "irq_freed"
  /\ UNCHANGED <<devVars, x2iVars, i2xVars, idr, idrNext, sender, nextSeq, devReqs,
                 nAsync, iohub, irqLatched, handler, workPending, workRunning,
                 asyncList, asyncDone, waiter, fate, sentOk>>

\* destroy_workqueue drains: it returns once rx_work is neither pending
\* nor running.
DestroyWorkqueue ==
  /\ chan = "irq_freed"
  /\ ~workPending
  /\ ~workRunning
  /\ chan' = "wq_destroyed"
  /\ UNCHANGED <<devVars, x2iVars, i2xVars, idr, idrNext, sender, nextSeq, devReqs,
                 nAsync, iohub, irqLatched, handler, workPending, workRunning,
                 asyncList, asyncDone, waiter, fate, sentOk>>

\* Mutation: records are freed without notify_cb(handle, NULL, 0).
DestroyReleaseSilently ==
  /\ chan = "wq_destroyed"
  /\ idr' = [i \in Slots |-> NoMsg]
  /\ asyncList' = <<>>
  /\ chan' = "freed"
  /\ UNCHANGED <<devVars, x2iVars, i2xVars, idrNext, sender, nextSeq, devReqs, nAsync,
                 iohub, irqLatched, handler, workPending, workRunning,
                 asyncDone, waiter, fate, sentOk>>

\* mailbox_release_msg: notify_cb(handle, NULL, 0) for the record of send
\* call k, then kfree.
ReleaseMsg(k) == Append(fate[k], [how |-> "cancel", from |-> 0])

\* idr_for_each(mailbox_release_msg) over every record; then the async
\* list is freed and the channel too.
DestroyRelease ==
  /\ chan = "wq_destroyed"
  /\ idr' = [i \in Slots |-> NoMsg]
  /\ fate' = [k \in Seqs |->
               IF \E i \in Slots : idr[i] # NoMsg /\ idr[i].seq = k
               THEN ReleaseMsg(k)
               ELSE fate[k]]
  /\ asyncList' = <<>>
  /\ chan' = "freed"
  /\ UNCHANGED <<devVars, x2iVars, i2xVars, idrNext, sender, nextSeq, devReqs, nAsync,
                 iohub, irqLatched, handler, workPending, workRunning,
                 asyncDone, waiter, sentOk>>

-----------------------------------------------------------------------------

Next ==
  \/ \E s \in Senders :
       \/ \E p \in ReqPayloads :
            \/ SendAcquire(s, p)
            \/ \E headTomb \in BOOLEAN : SendInvalid(s, p, headTomb)
       \/ SendIdsExhausted(s)
       \/ SendReadPointers(s)
       \/ SendWrite(s)
       \/ SendTrace(s)
       \/ SendNoSpace(s)
       \/ SendReleaseId(s)
  \/ DevSkipTomb
  \/ DevReadReq
  \/ \E r \in devReqs, p \in RespPayloads : DevRespond(r, p)
  \/ \E p \in RespPayloads : DevAsync(p)
  \/ \E r \in devReqs, p \in RespPayloads : DevDuplicate(r, p)
  \/ \E p \in RespPayloads : DevBadMagic(p)
  \/ \E r \in devReqs : DevBadSize(r)
  \/ IrqQueueWork
  \/ IrqClearIohub
  \/ WorkerStart
  \/ WorkerEmpty
  \/ WorkerTomb
  \/ WorkerResp
  \/ WorkerAsync
  \/ WorkerAsyncNoMem
  \/ WorkerBadMagic
  \/ WorkerOrphan
  \/ WorkerInvalid
  \/ \E w \in Waiters :
       \/ WaitBlocking(w)
       \/ WaitNonBlocking(w)
       \/ WaitWoken(w)
       \/ WaitSignalled(w)
       \/ WaitPop(w)
  \/ DestroyFreeIrq
  \/ DestroyWorkqueue
  \/ DestroyRelease

(* Fairness: the device keeps consuming and answering (a firmware          *)
(* assumption), the kernel runs a latched interrupt's handler to its end,  *)
(* the work queue runs queued work to its end, and a thread inside         *)
(* xdna_mailbox_send_msg, xdna_mailbox_wait_async_msg or                   *)
(* xdna_mailbox_destroy_channel runs it to its end.  Nobody is obliged to  *)
(* call these functions.                                                   *)
Fairness ==
  /\ \A s \in Senders :
       WF_vars(SendReadPointers(s) \/ SendWrite(s) \/ SendTrace(s)
               \/ SendNoSpace(s) \/ SendReleaseId(s))
  /\ \A w \in Waiters : WF_vars(WaitWoken(w)) /\ WF_vars(WaitPop(w))
  /\ WF_vars(DestroyWorkqueue) /\ WF_vars(DestroyRelease)
  /\ WF_vars(DevSkipTomb \/ DevReadReq)
  /\ WF_vars(\E r \in devReqs, p \in RespPayloads : DevRespond(r, p))
  /\ WF_vars(IrqQueueWork) /\ WF_vars(IrqClearIohub)
  /\ WF_vars(WorkerStart)
  /\ WF_vars(WorkerEmpty \/ WorkerTomb \/ WorkerResp \/ WorkerAsync
             \/ WorkerBadMagic \/ WorkerOrphan \/ WorkerInvalid)

Spec == Init /\ [][Next]_vars /\ Fairness

-----------------------------------------------------------------------------
(* Refinement mapping to MailboxService.  A send call's status is read    *)
(* off the history: how its record was released, whether the call        *)
(* returned 0, and whether a sender thread still runs it.  A record       *)
(* released twice, or a response handed to another call, maps to no      *)
(* status of the service.                                                  *)
HowReleased == [resp |-> "replied", cancel |-> "cancelled", nospace |-> "failed"]

CallStatus(k) ==
  CASE k >= nextSeq -> "none"
    [] Len(fate[k]) > 1 -> "released_twice"
    [] fate[k] # <<>> /\ fate[k][1].how = "resp" /\ fate[k][1].from # k -> "misdelivered"
    [] fate[k] # <<>> -> HowReleased[fate[k][1].how]
    [] k \in sentOk -> "accepted"
    [] \E s \in Senders : sender[s].pc # "idle" /\ sender[s].seq = k -> "sending"
    [] OTHER -> "refused"

Service == INSTANCE MailboxService WITH Calls <- Seqs,
             status <- [k \in Seqs |-> CallStatus(k)], open <- (chan # "freed")

-----------------------------------------------------------------------------
(* Properties                                                              *)

TypeOK ==
  /\ x2iBuf \in [X2I!Offsets -> Msgs \cup {Tomb, Junk}]
  /\ i2xBuf \in [I2X!Offsets -> Msgs \cup {Tomb, Junk}]
  /\ {x2iHeadReg, x2iTailReg, x2iTail, devHead} \subseteq 0 .. X2ISize
  /\ {i2xHeadReg, i2xTailReg, devTail, i2xHead} \subseteq 0 .. I2XSize
  /\ idr \in [Slots -> Records \cup {NoMsg}]
  /\ idrNext \in 0 .. MaxIds
  /\ sender \in [Senders -> [pc : {"idle", "acquired", "read", "published",
                                   "nospace"},
                             seq : {0} \cup Seqs, slot : Slots,
                             size : {0} \cup ReqPayloads,
                             hd : 0 .. X2ISize, tl : 0 .. X2ISize]]
  /\ nextSeq \in 1 .. MaxSends + 1
  /\ devReqs \subseteq Msgs
  /\ nAsync \in 0 .. MaxAsync
  /\ iohub \in {0, 1} /\ irqLatched \in BOOLEAN
  /\ handler \in {"idle", "ack"}
  /\ workPending \in BOOLEAN /\ workRunning \in BOOLEAN
  /\ asyncList \in Seq(Msgs) /\ asyncDone \in 0 .. MaxAsync
  /\ waiter \in [Waiters -> {"idle", "blocked", "woken", "pop"}]
  /\ chan \in {"live", "irq_freed", "wq_destroyed", "freed"}
  /\ fate \in [Seqs -> Seq(Fates)]
  /\ sentOk \subseteq Seqs
  /\ answered \subseteq Seqs
  /\ nFaults \in 0 .. MaxFaults

\* Number of elements of sequence q satisfying P.
CountIn(q, P(_)) == Cardinality({j \in 1 .. Len(q) : P(q[j])})

\* Where the request of send call k is: held by a sender between
\* mailbox_acquire_msgid and publishing it (or its -ENOSPC end), unread in X2I, held by the device,
\* or answered and unread in I2X.
Holders(k) ==
  Cardinality({s \in Senders : sender[s].pc \in {"acquired", "read", "nospace"}
                                /\ sender[s].seq = k})
  + CountIn(X2I!Unread, LAMBDA m : m.for = k)
  + Cardinality({r \in devReqs : r.for = k})
  + CountIn(I2X!Unread, LAMBDA m : m.for = k /\ m.id[1] < AsyncHi)

\* Every pending record in chan_idr stands for exactly one request in
\* flight, and while the channel lives every request or response in flight
\* finds its own record under its id.  Breaks if a path frees a slot whose
\* request can still be answered (a late answer would find a stranger's
\* record or none), or keeps a slot nothing will ever release.
RecordsAccounted ==
  /\ \A i \in Slots : idr[i] # NoMsg => Holders(idr[i].seq) = 1
  /\ chan # "freed" =>
       \A m \in {r \in devReqs : TRUE}
                  \cup {X2I!Unread[j] : j \in 1 .. Len(X2I!Unread)}
                  \cup {I2X!Unread[j] : j \in 1 .. Len(I2X!Unread)} :
         m.id[1] < AsyncHi =>
           /\ idr[m.id[2]] # NoMsg
           /\ idr[m.id[2]].seq = m.for

\* Each send call's record is released (callback run and kfree) at most
\* once, and a response is only ever handed to the call it answers.
ReleasedOnceToOwner ==
  \A k \in Seqs :
    /\ Len(fate[k]) <= 1
    /\ \A j \in 1 .. Len(fate[k]) : fate[k][j].how = "resp" => fate[k][j].from = k

\* When xdna_mailbox_destroy_channel returns, chan_idr is empty and every
\* send that returned 0 has had its callback exactly once, with the
\* response or with the NULL cancellation.
TeardownCancelsAll ==
  chan = "freed" =>
    /\ \A i \in Slots : idr[i] = NoMsg
    /\ \A k \in sentOk : Len(fate[k]) = 1 /\ fate[k][1].how \in {"resp", "cancel"}

\* Every send that returned 0 eventually has its callback run.
EveryRequestCompletes ==
  \A k \in Seqs : (k \in sentOk) ~> (fate[k] # <<>>)

\* No lost wakeup: every message on async_msg_list is covered by a count
\* of async_comp or by a waiter that has taken a count and is about to
\* take a message, so a blocking xdna_mailbox_wait_async_msg never sleeps
\* while a message waits for it.  Waiters interleave blocking and
\* non-blocking reads; the worker may drop a message it cannot allocate.
QueuedMessagesCounted ==
  Len(asyncList) <= asyncDone + Cardinality({w \in Waiters : waiter[w] = "woken"})

\* A response the device wrote well-formed is eventually handed to its
\* callback, whatever the device wrote before it: spec 4.4 says an invalid
\* header "does not tear down the channel".
ChannelKeepsReceiving ==
  \A k \in Seqs : (k \in answered) ~> (fate[k] # <<>>)

\* The rx worker's head stays inside the I2X ring (it may equal
\* ringbuf_size, which mailbox_get_msg reads as 0): the size check of
\* mailbox_get_msg keeps a header from moving it past the tail.
HeadStaysInRing == i2xHead <= I2XSize

\* A blocking xdna_mailbox_wait_async_msg that was not interrupted returns
\* a message, never -EAGAIN (spec 7: try-again is for non-blocking reads).
BlockingWaitGetsMessage ==
  [][\A w \in Waiters :
       (waiter[w] = "woken" /\ waiter'[w] = "idle") => asyncList # <<>>]_vars

\* mailbox_send_msg still reads its record (for trace_mbox_set_tail) after
\* publishing the tail; the record must not have been freed by then, by
\* the rx worker's kfree after the callback or by anyone else.
TraceReadsLiveRecord ==
  \A s \in Senders :
    sender[s].pc = "published" => fate[sender[s].seq] = <<>>

\* The channel implements MailboxService: each send call is refused,
\* fails, or is accepted; its callback runs at most once, with its own
\* response or with the cancellation of xdna_mailbox_destroy_channel, never
\* after a -ENOSPC return and never after destruction; every running call
\* returns and every accepted call is answered or cancelled.
ServiceRefinement == Service!Spec

=============================================================================

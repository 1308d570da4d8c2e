--------------------------- MODULE RingTransport ---------------------------
(***************************************************************************)
(* One ring with one producer running mailbox_send_msg and one consumer   *)
(* running the mailbox_get_msg loop of mailbox_rx_worker, concurrently.   *)
(* The producer reads the head register in one step and writes in the     *)
(* next, so the consumer can advance in between, as it can on the         *)
(* hardware.  Packages are numbered so that loss, duplication and reorder *)
(* are visible.  The ring is shown to implement MessageFifo.              *)
(***************************************************************************)
EXTENDS Integers, Sequences

CONSTANTS
  RingSize, Tomb, Junk,
  PayloadSizes,  \* payload sizes the producer sends (multiples of 4)
  MaxSends       \* number of packages published in a behaviour

VARIABLES
  buf, headReg, tailReg, cachedTail, cachedHead,
  pc,         \* producer: "idle", or "read" after it read the head register
  hdSeen,     \* the head register value the producer read
  nextSeq,    \* number of the next package to send
  delivered   \* history: the packages the consumer dispatched, in order

\* A Junk word read as a header: size 0, a number no package has.
JunkHeader == [seq |-> 0, size |-> 0]

Ring == INSTANCE MailboxRing

vars == <<buf, headReg, tailReg, cachedTail, cachedHead, pc, hdSeen,
          nextSeq, delivered>>

Msgs == [seq : 1 .. MaxSends, size : PayloadSizes]

Init ==
  /\ Ring!InitRing
  /\ pc = "idle"
  /\ hdSeen = 0
  /\ nextSeq = 1
  /\ delivered = <<>>

(* mailbox_send_msg, "head = mailbox_get_headptr(...)": the register read. *)
ReadHead ==
  /\ pc = "idle"
  /\ nextSeq <= MaxSends
  /\ pc' = "read"
  /\ hdSeen' = headReg
  /\ UNCHANGED <<buf, headReg, tailReg, cachedTail, cachedHead, nextSeq,
                 delivered>>

(* The rest of mailbox_send_msg with the head it read: the package is     *)
(* written and the tail published ...                                      *)
SendOk(s) ==
  /\ pc = "read"
  /\ Ring!Write(hdSeen, cachedTail, [seq |-> nextSeq, size |-> s])
  /\ pc' = "idle"
  /\ nextSeq' = nextSeq + 1
  /\ UNCHANGED <<headReg, cachedHead, hdSeen, delivered>>

(* ... or it returns -ENOSPC and the caller retries later.               *)
SendNoSpace(s) ==
  /\ pc = "read"
  /\ Ring!NoSpace(hdSeen, cachedTail, Ring!HdrSize + s)
  /\ pc' = "idle"
  /\ UNCHANGED <<buf, headReg, tailReg, cachedTail, cachedHead, hdSeen,
                 nextSeq, delivered>>

(* One iteration of mailbox_get_msg that finds a TOMBSTONE.               *)
RecvTomb ==
  /\ Ring!SkipTomb(tailReg)
  /\ UNCHANGED <<buf, tailReg, cachedTail, pc, hdSeen, nextSeq, delivered>>

(* One iteration of mailbox_get_msg that dispatches a package.           *)
RecvMsg ==
  /\ Ring!Consume(tailReg)
  /\ delivered' = Append(delivered, Ring!HeaderAt(cachedHead))
  /\ UNCHANGED <<buf, tailReg, cachedTail, pc, hdSeen, nextSeq>>

Next ==
  \/ ReadHead
  \/ \E s \in PayloadSizes : SendOk(s) \/ SendNoSpace(s)
  \/ RecvTomb
  \/ RecvMsg

(* The worker runs whenever the ring is not empty (interrupt and work    *)
(* queue are abstracted here; MailboxChannel models them).               *)
Spec == Init /\ [][Next]_vars /\ WF_vars(RecvTomb \/ RecvMsg)

-----------------------------------------------------------------------------
Fifo == INSTANCE MessageFifo WITH queue <- Ring!Unread, delivered <- delivered

TypeOK ==
  /\ buf \in [Ring!Offsets -> Msgs \cup {Tomb, Junk}]
  /\ headReg \in 0 .. RingSize
  /\ tailReg \in 0 .. RingSize
  /\ cachedTail \in 0 .. RingSize
  /\ cachedHead \in 0 .. RingSize
  /\ pc \in {"idle", "read"}
  /\ hdSeen \in 0 .. RingSize
  /\ nextSeq \in 1 .. MaxSends + 1
  /\ delivered \in Seq(Msgs)

(* The ring implements a FIFO: the consumer dispatches exactly the        *)
(* packages mailbox_send_msg published, in order, each once, and with a   *)
(* running consumer every published package is dispatched.  Breaks if the *)
(* producer's no-space tests let it overwrite unread packages or the      *)
(* TOMBSTONE handling loses or replays one.                                *)
FifoRefinement == Fifo!FairSpec

(* When the ring is empty (the consumer has caught up with the producer), *)
(* every package xdna_mailbox_send_msg accepts (pkg_size <= rb_size) fits *)
(* in it, so -ENOSPC means "ring full" as the caller is told.             *)
EmptyRingAccepts ==
  \A s \in PayloadSizes :
    (headReg = cachedTail /\ Ring!HdrSize + s <= RingSize)
      => ~Ring!NoSpace(headReg, cachedTail, Ring!HdrSize + s)

=============================================================================

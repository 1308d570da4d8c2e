------------------------------ MODULE Mailbox ------------------------------
(***************************************************************************)
(* The struct mailbox of amdxdna_mailbox.c and the lifecycle of its        *)
(* channels: threads calling xdna_mailbox_create_channel and               *)
(* xdna_mailbox_destroy_channel concurrently, the debugfs resource records *)
(* and the channel list under mbox_lock, the interrupt lines the channels  *)
(* request, and xdna_mailbox_destroy.  A channel's traffic is              *)
(* MailboxChannel's subject; here a channel is an object that is           *)
(* allocated, holds an interrupt and is on the list or not.                *)
(*                                                                         *)
(* Critical sections that only touch the channel list are one step (the    *)
(* lock is free before and after).  The record section allocates under the *)
(* lock, so its steps are separate and the lock is a variable.             *)
(***************************************************************************)
EXTENDS Naturals, Sequences, FiniteSets, Functions

CONSTANTS
  Callers,     \* threads creating and destroying channels
  Irqs,        \* interrupt numbers callers pass as mb_irq
  Chans,       \* channel objects kzalloc can return
  AllocFails,  \* whether kzalloc and create_singlethread_workqueue may fail
  NoOne, NoChan

VARIABLES
  lock,        \* mbox_lock: NoOne or the caller holding it
  pc,          \* per caller: where it is in create or destroy
  irqArg,      \* per caller: the mb_irq of its create call
  found,       \* per caller: the record lookup found mb_irq
  held,        \* per caller: the channel being created or owned
  records,     \* res_records: the re_irq of each record, in list order
  chanList,    \* chann_list
  irqOwner,    \* interrupt -> channel whose handler is registered
  allocated,   \* channel objects handed out so far
  mbox         \* "live", "records_freed", "destroyed"

vars == <<lock, pc, irqArg, found, held, records, chanList, irqOwner,
          allocated, mbox>>

Init ==
  /\ lock = NoOne
  /\ pc = [c \in Callers |-> "idle"]
  /\ irqArg = [c \in Callers |-> CHOOSE i \in Irqs : TRUE]
  /\ found = [c \in Callers |-> FALSE]
  /\ held = [c \in Callers |-> NoChan]
  /\ records = <<>>
  /\ chanList = {}
  /\ irqOwner = [i \in Irqs |-> NoChan]
  /\ allocated = {}
  /\ mbox = "live"

Goto(c, where) == pc' = [pc EXCEPT ![c] = where]

\* A kzalloc (or workqueue creation) that may fail: both outcomes.
Outcomes == IF AllocFails THEN {TRUE, FALSE} ELSE {TRUE}

-----------------------------------------------------------------------------
(* xdna_mailbox_create_channel                                             *)

\* A create call with mb_irq = i begins.
CreateEnter(c, i) ==
  /\ mbox = "live" /\ pc[c] = "idle" /\ held[c] = NoChan
  /\ irqArg' = [irqArg EXCEPT ![c] = i]
  /\ Goto(c, "lock")
  /\ UNCHANGED <<lock, found, held, records, chanList, irqOwner, allocated, mbox>>

\* Mutation: the lookup runs without taking mbox_lock.
CreateLockSkipped(c) ==
  /\ pc[c] = "lock"
  /\ Goto(c, "lookup")
  /\ UNCHANGED <<lock, irqArg, found, held, records, chanList, irqOwner,
                 allocated, mbox>>

\* mutex_lock(&mb->mbox_lock) for the record section.
CreateLock(c) ==
  /\ pc[c] = "lock" /\ lock = NoOne
  /\ lock' = c
  /\ Goto(c, "lookup")
  /\ UNCHANGED <<irqArg, found, held, records, chanList, irqOwner, allocated, mbox>>

\* Mutation: the lookup matches any record, not only one for mb_irq.
CreateLookupAny(c) ==
  /\ pc[c] = "lookup"
  /\ found' = [found EXCEPT ![c] = records # <<>>]
  /\ Goto(c, IF found'[c] THEN "unlock" ELSE "record")
  /\ UNCHANGED <<lock, irqArg, held, records, chanList, irqOwner, allocated, mbox>>

\* list_for_each_entry over res_records looking for re_irq == mb_irq.
CreateLookup(c) ==
  /\ pc[c] = "lookup"
  /\ found' = [found EXCEPT ![c] = irqArg[c] \in Range(records)]
  /\ Goto(c, IF found'[c] THEN "unlock" ELSE "record")
  /\ UNCHANGED <<lock, irqArg, held, records, chanList, irqOwner, allocated, mbox>>

\* kzalloc of the record: list_add_tail on success; on failure MB_ERR with
\* mb_chann still NULL dereferences it, and the thread dies holding the
\* lock ("oops").
CreateRecord(c) ==
  /\ pc[c] = "record"
  /\ \E ok \in Outcomes :
       /\ records' = IF ok THEN Append(records, irqArg[c]) ELSE records
       /\ Goto(c, IF ok THEN "unlock" ELSE "oops")
  /\ UNCHANGED <<lock, irqArg, found, held, chanList, irqOwner, allocated, mbox>>

\* Mutation: the skip_record path returns without mutex_unlock.
CreateUnlockMissing(c) ==
  /\ pc[c] = "unlock"
  /\ Goto(c, "check")
  /\ UNCHANGED <<lock, irqArg, found, held, records, chanList, irqOwner,
                 allocated, mbox>>

\* skip_record: mutex_unlock.
CreateUnlock(c) ==
  /\ pc[c] = "unlock"
  /\ lock' = NoOne
  /\ Goto(c, "check")
  /\ UNCHANGED <<irqArg, found, held, records, chanList, irqOwner, allocated, mbox>>

\* is_power_of_2 on both rb_size values, kzalloc of the channel and
\* create_singlethread_workqueue; any failure returns NULL (the record
\* stays).  sizesOk is the caller's input.
CreateAlloc(c) ==
  /\ pc[c] = "check"
  /\ \E sizesOk \in BOOLEAN, ok \in Outcomes :
       IF sizesOk /\ ok /\ Chans \ allocated # {}
       THEN LET ch == CHOOSE x \in Chans \ allocated : TRUE IN
            /\ held' = [held EXCEPT ![c] = ch]
            /\ allocated' = allocated \cup {ch}
            /\ Goto(c, "irq")
       ELSE /\ Goto(c, "idle")
            /\ UNCHANGED <<held, allocated>>
  /\ UNCHANGED <<lock, irqArg, found, records, chanList, irqOwner, mbox>>

\* request_irq with flags 0: -EBUSY if the line already has a handler, and
\* then destroy_workqueue and kfree.
CreateRequestIrq(c) ==
  /\ pc[c] = "irq"
  /\ IF irqOwner[irqArg[c]] = NoChan
     THEN /\ irqOwner' = [irqOwner EXCEPT ![irqArg[c]] = held[c]]
          /\ Goto(c, "add")
          /\ UNCHANGED held
     ELSE /\ held' = [held EXCEPT ![c] = NoChan]
          /\ Goto(c, "idle")
          /\ UNCHANGED irqOwner
  /\ UNCHANGED <<lock, irqArg, found, records, chanList, allocated, mbox>>

\* mutex_lock; list_add(&chann_entry, &chann_list); mutex_unlock.
CreateListAdd(c) ==
  /\ pc[c] = "add" /\ lock = NoOne
  /\ chanList' = chanList \cup {held[c]}
  /\ Goto(c, "idle")
  /\ UNCHANGED <<lock, irqArg, found, held, records, irqOwner, allocated, mbox>>

-----------------------------------------------------------------------------
(* xdna_mailbox_destroy_channel, by the caller that created the channel    *)

\* The creator of a channel calls destroy on it.
DestroyEnter(c) ==
  /\ mbox = "live" /\ pc[c] = "idle" /\ held[c] # NoChan
  /\ Goto(c, "unlink")
  /\ UNCHANGED <<lock, irqArg, found, held, records, chanList, irqOwner,
                 allocated, mbox>>

\* Mutation: the channel is not taken off chann_list.
DestroyUnlinkKeep(c) ==
  /\ pc[c] = "unlink" /\ lock = NoOne
  /\ Goto(c, "free_irq")
  /\ UNCHANGED <<lock, irqArg, found, held, records, chanList, irqOwner,
                 allocated, mbox>>

\* mutex_lock; list_del; mutex_unlock.
DestroyUnlink(c) ==
  /\ pc[c] = "unlink" /\ lock = NoOne
  /\ chanList' = chanList \ {held[c]}
  /\ Goto(c, "free_irq")
  /\ UNCHANGED <<lock, irqArg, found, held, records, irqOwner, allocated, mbox>>

\* free_irq, then destroy_workqueue, the idr and async cleanup and kfree.
DestroyFreeIrq(c) ==
  /\ pc[c] = "free_irq"
  /\ irqOwner' = [i \in Irqs |-> IF irqOwner[i] = held[c] THEN NoChan ELSE irqOwner[i]]
  /\ held' = [held EXCEPT ![c] = NoChan]
  /\ Goto(c, "idle")
  /\ UNCHANGED <<lock, irqArg, found, records, chanList, allocated, mbox>>

-----------------------------------------------------------------------------
(* The debugfs readers xdna_mailbox_info_show and                         *)
(* xdna_mailbox_ringbuf_show: both walk res_records (and chann_list) under *)
(* mbox_lock; ringbuf_show first vzallocs its dump buffer.                 *)

\* A read of a debugfs file begins; ringbuf_show returns -ENOMEM if the
\* vzalloc fails.
ShowEnter(c) ==
  /\ mbox = "live" /\ pc[c] = "idle" /\ held[c] = NoChan
  /\ \E ok \in Outcomes : Goto(c, IF ok THEN "show_lock" ELSE "idle")
  /\ UNCHANGED <<lock, irqArg, found, held, records, chanList, irqOwner,
                 allocated, mbox>>

\* mutex_lock(&mb->mbox_lock).
ShowLock(c) ==
  /\ pc[c] = "show_lock" /\ lock = NoOne
  /\ lock' = c
  /\ Goto(c, "show")
  /\ UNCHANGED <<irqArg, found, held, records, chanList, irqOwner, allocated, mbox>>

\* The walk over the records, then mutex_unlock (and vfree).
ShowUnlock(c) ==
  /\ pc[c] = "show"
  /\ lock' = NoOne
  /\ Goto(c, "idle")
  /\ UNCHANGED <<irqArg, found, held, records, chanList, irqOwner, allocated, mbox>>

-----------------------------------------------------------------------------
(* xdna_mailbox_destroy, on device removal once no create or destroy call  *)
(* is in progress.                                                         *)

\* The records are freed without mbox_lock.
MailboxFreeRecords ==
  /\ mbox = "live"
  /\ \A c \in Callers : pc[c] = "idle"
  /\ records' = <<>>
  /\ mbox' = "records_freed"
  /\ UNCHANGED <<lock, pc, irqArg, found, held, chanList, irqOwner, allocated>>

\* Under mbox_lock: WARN_ON if chann_list is not empty; then mutex_destroy.
MailboxDestroy ==
  /\ mbox = "records_freed" /\ lock = NoOne
  /\ mbox' = "destroyed"
  /\ UNCHANGED <<lock, pc, irqArg, found, held, records, chanList, irqOwner,
                 allocated>>

Next ==
  \/ \E c \in Callers :
       \/ \E i \in Irqs : CreateEnter(c, i)
       \/ CreateLock(c) \/ CreateLookup(c) \/ CreateRecord(c) \/ CreateUnlock(c)
       \/ CreateAlloc(c) \/ CreateRequestIrq(c) \/ CreateListAdd(c)
       \/ DestroyEnter(c) \/ DestroyUnlink(c) \/ DestroyFreeIrq(c)
       \/ ShowEnter(c) \/ ShowLock(c) \/ ShowUnlock(c)
  \/ MailboxFreeRecords
  \/ MailboxDestroy

(* A thread inside xdna_mailbox_create_channel or                          *)
(* xdna_mailbox_destroy_channel runs it to its end.  Its steps are weakly  *)
(* fair; each mutex_lock of mbox_lock is strongly fair, because a         *)
(* kernel mutex hands the lock to a waiter that keeps losing it            *)
(* (MUTEX_FLAG_HANDOFF), so a thread that repeatedly retakes mbox_lock     *)
(* cannot starve it.  Starting a call is not obliged.                      *)
Fairness ==
  \A c \in Callers :
    /\ WF_vars(CreateLookup(c) \/ CreateRecord(c) \/ CreateUnlock(c)
               \/ CreateAlloc(c) \/ CreateRequestIrq(c) \/ DestroyFreeIrq(c)
               \/ ShowUnlock(c))
    /\ SF_vars(CreateLock(c)) /\ SF_vars(CreateListAdd(c))
    /\ SF_vars(DestroyUnlink(c)) /\ SF_vars(ShowLock(c))

Spec == Init /\ [][Next]_vars /\ Fairness

-----------------------------------------------------------------------------
(* Properties                                                              *)

\* Creating channels on the same interrupt from several threads leaves one
\* debugfs record per interrupt: the lookup and the list_add_tail happen in
\* one hold of mbox_lock, across the kzalloc that may sleep.
RecordPerIrq == IsInjective(records)

\* A channel has its interrupt handler registered exactly while it is on
\* chann_list, except between request_irq and list_add in create and
\* between list_del and free_irq in destroy; so a listed channel always
\* has its handler, and a handler never outlives its channel's listing
\* for longer than its own destroy call.
IrqMatchesList ==
  \A ch \in allocated :
    (\E i \in Irqs : irqOwner[i] = ch)
      <=> \/ ch \in chanList
          \/ \E c \in Callers : held[c] = ch /\ pc[c] \in {"add", "free_irq"}

\* While the mailbox lives, every listed channel's interrupt has a debugfs
\* record, so xdna_mailbox_info_show, which marks a record active when a
\* listed channel has its re_irq, shows every live channel.  The record is
\* looked up or added under mbox_lock before the channel is allocated, and
\* records are never removed before xdna_mailbox_destroy.
ListedHaveRecord ==
  mbox = "live" =>
    \A ch \in chanList :
      \E i \in Range(records) : irqOwner[i] = ch

\* Every create, destroy or debugfs call returns or its own thread dies:
\* none is left waiting on mbox_lock forever.
CallsReturn ==
  \A c \in Callers : (pc[c] # "idle") ~> (pc[c] \in {"idle", "oops"})

=============================================================================

# TLA+ models of the amdxdna mailbox

This directory holds TLA+ models of `src/src/driver/amdxdna/amdxdna_mailbox.c`, the
host side of the message transport between the AMD XDNA driver and the NPU
firmware, with the TLC configurations that check them. The other files under
`src/` are C++ declaration headers and a CI workflow. They have no behaviour to
model.

## 1. Inventory

### Parts and how they interact

| Part | Code | State | Operations |
|---|---|---|---|
| Ring accessor | `mailbox_send_msg`, `mailbox_get_msg`, `mailbox_set_headptr/tailptr` | ring memory, head/tail registers, cached `x2i_tail`, cached `i2x_head` | write a package (or -ENOSPC), wrap with TOMBSTONE; read a package, skip TOMBSTONE, -ENOENT, -EINVAL |
| Id map | `mailbox_acquire_msgid`, `mailbox_release_msgid` | `chan_idr` (256 slots, cyclic cursor) under `chan_idr_lock` | allocate, remove, find |
| Send | `xdna_mailbox_send_msg` | per-call record `mailbox_msg` | validate, allocate, acquire id, write, release on failure |
| Interrupt | `mailbox_irq_handler` | IOHUB register | `queue_work`, then clear IOHUB |
| Receive worker | `mailbox_rx_worker`, `mailbox_get_resp`, `mailbox_get_async_msg` | `rx_work` (pending/running), `async_msg_list`, `async_comp` | drain I2X; dispatch responses to callbacks; queue async messages |
| Async wait | `xdna_mailbox_wait_async_msg` | waiting threads | block on completion (interruptible), pop, -EAGAIN |
| Channel lifecycle | `xdna_mailbox_create_channel`, `xdna_mailbox_destroy_channel` | channel, workqueue, irq | create; destroy: list_del, free_irq, destroy_workqueue, cancel all records, free the async list |
| Mailbox | `xdna_mailbox_create`, `xdna_mailbox_destroy` | `chann_list`, `res_records` under `mbox_lock` | add/remove channels, WARN if any remain |
| debugfs | `xdna_mailbox_info_show`, `xdna_mailbox_ringbuf_show` | dump buffer | walk the records and the channel list under `mbox_lock`, then format |

The parts interact as follows:

- Senders write requests to the X2I ring, and the firmware reads them.
- The firmware writes responses and async messages to the I2X ring. It then sets IOHUB and raises an MSI.
- The interrupt handler queues `rx_work` on a single-threaded workqueue. The worker drains I2X.
- A response is matched to its record through `chan_idr`, and the record's callback runs.
- An async message is put on `async_msg_list` and completes `async_comp`, which wakes a waiter.

### Hard behaviours

- Any number of sender threads can run at once, and no lock covers the ring write.
- The firmware runs concurrently with the host. The registers are the only synchronisation between them.
- The interrupt can arrive while the worker is running.
- The completion count and the list length are kept apart: a non-blocking reader pops without taking a count.
- Ids are reused cyclically.
- Partial failures exist: -ENOSPC after the id is acquired, and kzalloc failure in the worker.
- Teardown has to be ordered against a worker that is still running.

### What must hold

- **Ring:** the consumer sees exactly the published packages, in order. A package never overwrites unread data. -ENOSPC means the ring is full.
- **Id map:** every pending record stands for exactly one request in flight. A response reaches only its own caller.
- **Callbacks:** each runs at most once. After destroy none is pending, and every accepted send has had its callback.
- **Liveness:** every accepted send is eventually completed.
- **Async queue:** every queued async message is covered by a completion count or by a waiter that has taken one, so a blocking reader never sleeps over a queued message.

## 2. Modules

| Module | Models | Role |
|---|---|---|
| `MessageFifo` | spec §8 (ordering) | Abstract: what one direction of a channel promises. It publishes and delivers in order, and delivers under weak fairness. |
| `MailboxService` | spec §3, §6, §8 (callback contract) | Abstract: what a channel promises each send call. A call is refused, fails with -ENOSPC, or is accepted; its callback runs at most once, with its own response or with the cancellation at destroy; destroy cancels every unanswered accepted call at once. Running calls return and accepted calls are answered while the channel is open. |
| `MailboxRing` | the ring accessor | Library with no behaviour of its own. Ring state as variables, and the producer (`NoSpace`, `Wraps`, `Write`) and consumer (`IsEmpty`, `ReadPos`, `SizeExceeds`, `SkipTomb`, `Consume`) operators, translated from the tests in `mailbox_send_msg`/`mailbox_get_msg`. `Unread` is the refinement mapping: the packages a consumer would parse, found by following TOMBSTONEs with the RECURSIVE `UnreadFrom`. |
| `RingTransport` | one ring with one producer and one consumer | Splits the producer into the head-register read and the write, so the consumer can move in between. It is shown to implement `MessageFifo` (`FifoRefinement`). |
| `MailboxChannel` | one channel with its device | Composes two `MailboxRing` instances (X2I, I2X) with the id map, senders, device, interrupt handler, worker, waiters and destroy. The device may also misbehave (below). `CallStatus` maps it to `MailboxService`: a call's status is read off how its record was released (`fate`), whether it returned 0 (`sentOk`), and whether a sender still runs it. A record released twice, or a response handed to another call, maps to no status, so the refinement fails on it. |
| `Mailbox` | `struct mailbox` and channel lifecycle | Threads calling `xdna_mailbox_create_channel` and `xdna_mailbox_destroy_channel` concurrently, the debugfs records and `chann_list` under `mbox_lock`, interrupt lines, and `xdna_mailbox_destroy`. A channel here is an object that is allocated, holds an interrupt and is listed or not. |
| `MCRingTransport`, `MCMailboxChannel`, `MCMailbox` | | Constants for TLC. |

The `MailboxChannel` actors and their actions:

- **Senders** (`SendInvalid`, `SendAcquire`, `SendIdsExhausted`, `SendReadPointers`, `SendWrite`, `SendTrace`, `SendNoSpace`, `SendReleaseId`):
  - `SendInvalid` is the -EINVAL return of the argument checks (`ValidSend`: the package fits the ring size, and the payload is 4-byte aligned), or of the check that the first payload word is not TOMBSTONE (the input `headTomb`).
  - `SendAcquire` is `xdna_mailbox_send_msg` up to the id. `SendIdsExhausted` is the path where the id cannot be acquired. It is taken only when all ids are outstanding; an -ENOMEM of `idr_alloc_cyclic` (GFP_NOWAIT) with free ids has the same effect on the state (the call returns an error having changed nothing) and is folded into it, so the model does not refuse a call while ids are free.
  - `mailbox_send_msg` is split into three steps: reading the pointers; the write and `mailbox_set_tailptr`, or the -ENOSPC result; and the trace point, which still reads the record, followed by the return of 0.
  - The -ENOSPC path then releases the id.
  - There is no lock, so senders interleave freely.
- **Device** (`DevSkipTomb`, `DevReadReq`, `DevRespond`, `DevAsync`, `RaiseIrq`):
  - The firmware is not in this repository. It is modelled from the spec as a consumer of X2I and a producer of I2X, using the same framing as the host.
  - Requests it has read can be answered in any order.
  - `MsiGatedByIohub` chooses whether an MSI is raised only while IOHUB is clear.
- **Interrupt** (`IrqQueueWork`, `IrqClearIohub`): the two statements of `mailbox_irq_handler`. They run in order, and a worker or device step can run between them.
- **Device faults** (`DevDuplicate`, `DevBadMagic`, `DevBadSize`, all through `DevFault`): the device writes a response twice, writes an id without `MAGIC_VAL`, or writes a header whose size no ring can hold. `Faults` chooses which, and `MaxFaults` bounds how many. They are modelled from the spec (§4.4, §9). `answered` records the send calls the device answered well-formed.
- **Creation** (`CreatedRings`, in `Init`): `x2i_tail` is seeded from the X2I tail register (line 651), and `i2x_head` is 0 from kzalloc. With `Reopened = TRUE`, the rings start where an earlier channel left them: one exchange with id 0 in memory and every register past it.
- **Worker** (`WorkerStart`, `WorkerEmpty`, `WorkerTomb`, `WorkerResp`, `WorkerBadMagic`, `WorkerOrphan`, `WorkerInvalid`, `WorkerAsync`, `WorkerAsyncNoMem`):
  - `queue_work` sets "pending". Starting the work clears pending, so an interrupt during a run queues another run.
  - Each iteration of the loop is one whole `mailbox_get_msg`, including its dispatch and head update.
  - A bad magic or an orphan id is dropped and the head advances. On -EINVAL the loop ends and the head stays where it is.
- **Waiters** (`WaitBlocking`, `WaitWoken`, `WaitSignalled`, `WaitNonBlocking`, `WaitPop`): the completion wait, and the pop under `async_msg_lock`. `wait_for_completion_interruptible` takes a count when there is one and notices a signal only while the count is 0, so `WaitSignalled` requires `asyncDone = 0`.
- **Async enqueue** (`WorkerAsync`): `list_add_tail` under `async_msg_lock` and `complete` after the unlock are one step. The only thing that can happen in between is a non-blocking pop taking the message before its count exists, which ends in the same state as the pop right after the `complete`.
- **Destroy** (`DestroyFreeIrq`, `DestroyWorkqueue`, `DestroyRelease`):
  - `free_irq` waits for a running handler. `destroy_workqueue` waits for rx_work.
  - `idr_for_each(mailbox_release_msg)` cancels every record, then the async list is freed.
  - Destroy starts only once no send or wait is in progress. This is the caller's contract, since the channel memory is freed.

The `Mailbox` actions:

- **Create** (`CreateEnter`, `CreateLock`, `CreateLookup`, `CreateRecord`, `CreateUnlock`, `CreateAlloc`, `CreateRequestIrq`, `CreateListAdd`):
  - The record section holds `mbox_lock` across a kzalloc that may sleep, so its steps are separate and the lock is a variable.
  - A failed record kzalloc reaches `MB_ERR(mb_chann, ...)` with `mb_chann` still NULL. The thread dies holding the lock (`pc = "oops"`).
  - A ring size that is not a power of two, or a failed allocation, returns NULL.
  - request_irq with flags 0 gives -EBUSY on a line that already has a handler, and the channel is unwound.
- **Destroy** (`DestroyEnter`, `DestroyUnlink`, `DestroyFreeIrq`): list_del under the lock, then free_irq.
- **debugfs readers** (`ShowEnter`, `ShowLock`, `ShowUnlock`): `xdna_mailbox_ringbuf_show` vzallocs a buffer (-ENOMEM), then either reader walks the records under `mbox_lock`. The output is left out.
- **Mailbox** (`MailboxFreeRecords`, `MailboxDestroy`): the records are freed without the lock, then the WARN and mutex_destroy.

Ghost variables `fate` (how each send call's record was released, and with whose response) and `sentOk` (the sends that returned 0) exist only for the properties.

### Abstraction

- A 16-byte header is one ring word holding a record `[id, size, for]`. The other words of a package are `Junk`.
- Ids are `<<high byte, low bits>>`, because TLC integers cannot hold `0x1D000000 | id`.
- Payload contents, opcodes, logging and tracing are left out.
- `for` is a ghost that names the send call a request or response belongs to.

## 3. Runs

| Run | cfg | Expect | Checks |
|---|---|---|---|
| `ring_fifo` | `MCRingTransport.cfg` | pass | `TypeOK`, `FifoRefinement` |
| `ring_empty_refuses` | `MCRingTransportLarge.cfg` | violation | `EmptyRingAccepts` |
| `channel` | `MCMailboxChannel.cfg` | pass | `TypeOK`, `RecordsAccounted`, `ReleasedOnceToOwner`, `TeardownCancelsAll`, `EveryRequestCompletes`, `ServiceRefinement` |
| `channel_async` | `MCMailboxChannelAsync.cfg` | pass | `QueuedMessagesCounted` |
| `sender_race` | `MCMailboxChannelRace.cfg` | violation | `RecordsAccounted` with two senders |
| `channel_faults` | `MCMailboxChannelFaults.cfg` | pass | `ReleasedOnceToOwner`, `EveryRequestCompletes` with duplicates and bad magic |
| `invalid_stalls` | `MCMailboxChannelBadSize.cfg` | violation | `ChannelKeepsReceiving` |
| `invalid_overrun` | `MCMailboxChannelOverrun.cfg` | violation | `HeadStaysInRing` |
| `blocking_eagain` | `MCMailboxChannelEagain.cfg` | violation | `BlockingWaitGetsMessage` |
| `trace_use_after_free` | `MCMailboxChannelTraceUaf.cfg` | violation | `TraceReadsLiveRecord` |
| `mailbox` | `MCMailbox.cfg` | pass | `RecordPerIrq`, `IrqMatchesList`, `ListedHaveRecord`, `CallsReturn` |
| `record_oom_hang` | `MCMailboxRecordOom.cfg` | violation | `CallsReturn` with allocation failures |

What the runs show:

- **The ring is a correct FIFO** (`ring_fifo`). Packages are 16 or 24 bytes in a 64-byte ring. It wraps at every alignment and meets full rings. The host's framing ends a package at `ringbuf_size - 4` at the latest, so the head never equals `ringbuf_size` here (nor in the channel runs, whose device uses the same framing); line 343 is not exercised. Under all of that, the consumer delivers exactly the published packages in order, and delivers all of them.
- **An empty ring can still refuse a package** (`ring_empty_refuses`). After one 40-byte package, head = tail = 40. A second 40-byte package fails `tail + size > size - 4` and also `size >= head`, so it is refused. Nothing will move the head again, so every retry gets -ENOSPC.
- **One sender works** (`channel`). Ids are reused cyclically, all ids can be outstanding at once, -ENOSPC happens, the device answers out of order, interrupts come during a running worker, and teardown can happen at any point. Through all of that:
  - the id map accounts for every request;
  - every callback runs once and only for its owner;
  - teardown cancels the rest;
  - every accepted send completes;
  - the channel as a whole implements `MailboxService` (`ServiceRefinement`). This also says what the other properties do not: a call that returned -ENOSPC never gets a callback, no callback runs after destroy, and destroy cancels all unanswered calls in one step, after the worker has stopped.
- **Concurrent senders lose requests** (`sender_race`). Two threads read the same `x2i_tail` and write at the same offset. One request disappears, and its record stays pending for good. The spec (§5) says send serializes internally; the code holds no lock.
- **No lost wakeup in the async queue** (`channel_async`). Two waiters mix blocking and non-blocking reads, the worker may drop a message it cannot allocate, signals end waits, and the device may stall the ring with one malformed header. Every queued message stays covered by a completion count or by a woken waiter. (The count can run ahead of the list, which is the -EAGAIN of `blocking_eagain`, but never behind it.)
- **A faulty device cannot confuse callers while ids are fresh** (`channel_faults`). Duplicated answers become orphans and are dropped. Ids without `MAGIC_VAL` are dropped. Every callback still runs once, for its owner, and every accepted send completes. Once an id is reused, a late duplicate does reach the new owner: with `MaxSends = 3` the same cfg fails `ReleasedOnceToOwner`.
- **One bad header stops the channel** (`invalid_stalls`). A header with an impossible size makes `mailbox_get_msg` return -EINVAL and leave the head where it is. Every later interrupt re-reads it, so a well-formed response written behind it is never delivered. Spec §4.4 says an invalid header does not tear down the channel.
- **The size check is not wrap-aware** (`invalid_overrun`). The device wraps its tail below a malformed header, and `tail - head` in u32 is then huge. The check passes and the head moves past the end of the ring. This settles the open question of spec §9.
- **A blocking wait can return -EAGAIN** (`blocking_eagain`). A non-blocking pop takes a message but leaves its completion count. A later blocking wait returns at once to an empty list.
- **The send path reads its record after it may be freed** (`trace_use_after_free`). `mailbox_send_msg` publishes the tail, then reads `mb_msg->pkg.header` for `trace_mbox_set_tail`. In the nine steps in between, the device reads the request and answers, the interrupt fires, and the rx worker runs the callback and kfrees the record. The read is of freed memory whenever that trace event is enabled.
- **Not run: reused rings deliver a stale response.** Setting `Reopened = TRUE` in a channel cfg makes `ReleasedOnceToOwner` fail. Create seeds `x2i_tail` from the register but leaves `i2x_head` at 0. If the I2X registers are not 0, the first drain re-reads the earlier channel's response with id 0, and the new caller holding id 0 gets it. Whether the firmware resets the pointers first is not in this repository.
- **Concurrent create, destroy and debugfs reads are consistent** (`mailbox`). Two threads on two interrupt lines, with creation failures:
  - there is one record per interrupt;
  - every listed channel's interrupt has a record, so `xdna_mailbox_info_show` shows it as active;
  - a channel's handler is registered exactly while it is listed, apart from its own create and destroy windows;
  - every call returns.
- **A failed record allocation hangs the mailbox** (`record_oom_hang`). `MB_ERR` dereferences the NULL channel with `mbox_lock` held. The other thread's create or destroy waits forever.
- **Not run: clearing IOHUB after `queue_work`.** Setting `MsiGatedByIohub = TRUE` in the channel cfg makes `EveryRequestCompletes` fail. A response published between the worker's last empty check and the clear gets no interrupt if the hardware raises no MSI while IOHUB is set. The repository does not say what the hardware does.

Every property of a passing run has a mutant in `PROJECT.json`. The mutant is an operator placed just before the definition it replaces, marked "Mutation:", and it breaks the property the way a plausible bug would. The mutants are:

- a strict wrap test;
- a no-space test that lets the tail reach the head;
- a cursor that never wraps;
- an id leaked on -ENOSPC;
- a response whose id is not removed;
- teardown without callbacks;
- a worker that handles one message per interrupt;
- an async enqueue without `complete`;
- an orphan that ends the drain loop;
- the record lookup without `mbox_lock`;
- an unlock missing on the skip-record path;
- a destroy that leaves the channel listed;
- a record lookup that matches any record;
- an -ENOSPC path that frees the record with `mailbox_release_msg`, which also runs the callback.

### Bounds

- **Ring size.** 64-byte rings hold 3 or 4 packages. This is the smallest size at which wrap, TOMBSTONE and a full ring all occur.
- **Id space.** `MaxIds = 2` with 3 sends uses up the id space and reuses ids.
- **Payload sizes.** Request payloads {0, 16} make -ENOSPC reachable. The channel run adds 52, which the argument checks refuse. Response payloads {0, 8} make the two rings wrap at different points.
- **Async run.** It uses 1 send and 2 async messages with two waiters. That is enough for a non-blocking pop to take the message a woken blocking waiter holds a count for, and for both waiters to be blocked on one count.
- **Faults.** One fault per behaviour (`MaxFaults = 1`) with 2 sends. That is enough for a duplicate to become an orphan behind a live request. Two faults take the run past five minutes.
- **Mailbox.** Two callers, two interrupt lines and three channel objects. That is enough for two creates on one line (a shared record and -EBUSY), a create racing a destroy, and a debugfs read holding the lock while the other thread creates or destroys.

Each passing run finishes in under two and a half minutes; the channel run, with the refinement's fairness, takes about a minute and a half. The mailbox run, with its strong fairness on four lock acquisitions per caller, is the slowest.

### Fairness

- The device keeps reading and answering. This is a firmware assumption.
- A latched interrupt's handler runs to its end.
- Queued work runs.
- A thread that has entered `xdna_mailbox_send_msg`, `xdna_mailbox_wait_async_msg` or `xdna_mailbox_destroy_channel` finishes it.

- In `Mailbox`, a thread's steps are weakly fair, and each `mutex_lock(&mbox_lock)` is strongly fair. A kernel mutex hands the lock to a waiter that keeps losing it (`MUTEX_FLAG_HANDOFF`), so a thread that keeps retaking the lock cannot starve another.

Nobody is obliged to call these functions, so sends, waits and teardown themselves are not fair. `WaitSignalled` is not fair either, because a signal may never come. `CHECK_DEADLOCK FALSE` is used because an idle channel, or one that has been destroyed, legitimately does nothing.

## 4. Not modelled yet, and the plan

- **Truncation of `header.size`.** It is an 11-bit field (line 87), and payload sizes are abstracted to small sets.
- **Async payload size.** `memcpy_fromio` copies a size chosen by the device into the async payload (line 316). That payload's size is not in this repository.
- **Mailbox destroy during create.** `res_records` is freed without `mbox_lock` (line 737). The caller contract excludes this case (device removal after every channel call has returned), so `MailboxFreeRecords` waits until every call has returned; it is not listed as a hazard.
- **Head at `ringbuf_size`.** The code handles it (lines 343, 371), but only a firmware framing that ends a package exactly at the ring end produces it, and that framing is not in this repository.
- **Early return left out.** The -ENOMEM path in send, which returns before changing any state. (The TOMBSTONE-in-payload check is modelled as the `headTomb` input of `SendInvalid`: payload contents are otherwise abstracted.)
- **Left out for good.** The debugfs formatting, register reads and hex dumps, which are output only; the readers' lock holding and vzalloc failure are modelled. The C++ shim headers (`bo.h`, `smi.h`), which are class declarations with no behaviour in this repository. The protocol header and the CI workflow.
- **Run limit.** Two more disagreements can be reproduced with a one-line cfg change but are not kept as runs: `MsiGatedByIohub = TRUE` and `Reopened = TRUE` (see section 3).

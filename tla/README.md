# AirPortLinux in TLA+

AirPortLinux is a macOS kernel extension that runs the Linux 5.6.7 wireless
stack (iwlwifi, mac80211, cfg80211) on IOKit.  Linux code is taken over with
little change; what it calls of the kernel (workqueues, timers, tasklets, wait
queues, atomics, locks, skbuffs, PCI) is written anew in
`src/AirPortLinux/linux5.6.7/include/linux`, called *the shim* here.

The modules in this directory model the parts of it in which threads, the
device, the air and the passing of time meet, check them with TLC, and prove what they
say of safety for every size.  Paths below are relative to
`src/AirPortLinux/linux5.6.7` unless they begin with `src/`; `pcie/`, `mvm/` and
`fw/` are under `drivers/net/wireless/intel/iwlwifi/`.


## 1. Inventory

| component | code | state | operations | status |
|---|---|---|---|---|
| workqueue | `include/linux/workqueue.c` | list of works, PENDING bit of each, one worker thread | queue_work, worker loop and its wait, (empty) cancel and flush | modelled, `Workqueue`, but for its destruction |
| delayed work, timers | `include/linux/workqueue.c`, `timer.c` | a timer per delayed work | queue_delayed_work, mod_delayed_work, timer function, (empty) cancels | modelled, `DelayedWork`; other users of timers in `Scan`, `Sme` |
| tasklets | `include/linux/task.c`, `task.h` | one list, SCHED bit of each, one thread | schedule, kill, thread loop | modelled, `Tasklet` |
| wait queues, completions | `include/linux/wait.c`, `wait.h`, `completion.h` | sleepers on the command gate | wait_event_timeout, wake_up, wait_for_completion, complete | the timed wait, in `HostCmd` and `Scan` |
| locks, atomics, bits | `spinlock.h`, `mutex.h`, `atomic.h`, `bitops.h`, `include/net/compat.h` | | spin_lock (empty), mutex_lock (empty), plain-C counters, test_and_set_bit in two steps | in the modules that use them |
| skbuff, pci, device, crypto | `include/linux/skbuff.c`, ... | buffers, registers | | not modelled: data and I/O |
| kext | `src/AirPortLinux/AirPortLinux.cpp`, ... | power state, interface, firmware image | start, stop, setPowerState, loadfirmware, ioctls | its command gate, in `HostCmd`; else planned: `FirmwareLoad`, `Power` |
| PCIe data queues | `pcie/tx.c`, `pcie/trans.c`, `pcie/internal.h` | ring with read and write pointer, overflow queue, stop bit | tx, reclaim, stop, wake, flush, enable, disable | modelled, `TxQueue` |
| PCIe host commands | `pcie/tx.c` | command queue, SYNC_HCMD_ACTIVE, error and radio bits | send sync/async, complete, reclaim, timeout, error, radio off, restart | modelled, `HostCmd` |
| PCIe receive | `pcie/rx.c` | ring, free and used lists, allocator lists, two counters | interrupt handler, restock, background allocator | life of a buffer modelled, `RxAllocator` |
| PCIe start/stop, gen2 | `pcie/trans.c`, `trans-gen2.c`, `tx-gen2.c` | registers, device state | | not modelled: register I/O |
| notification wait | `fw/notif-wait.c` | list of waiters | init, wait, notify, abort | one waiter, in `Scan` |
| driver core | `iwl-drv.c` | firmware request, op modes | request, parse, start | planned with `FirmwareLoad` |
| mvm op mode | `mvm/` | stations, queues, scans, time events, power | transmit, allocate a queue, scan, restart, ... | queues in `TxQueue` and `Itxq`, regular scans and restart in `Scan` |
| dvm op mode | `dvm/` | | | not modelled: devices the port does not target |
| mac80211 scan | `net/mac80211/scan.c` | scan_req, scanning flags, scan_work | request, cancel, completed, work | scans in hardware, in `Scan` |
| mac80211 station | `net/mac80211/mlme.c` | auth_data, assoc_data, associated, a timer and a work | auth, assoc, deauth, answers, timeouts, loss | modelled, `Sme` |
| mac80211, the rest | `net/mac80211/` | stations, aggregation, off-channel | | not modelled; the driver's calls for aggregation are commented out in this port |
| cfg80211 SME | `net/wireless/sme.c`, `mlme.c`, `scan.c` | wdev->conn, ssid, current_bss, holds on BSSs | connect, disconnect, conn_work, events, scan done | modelled, `Sme` |
| cfg80211, the rest, rfkill | `net/wireless`, `net/rfkill` | | | not modelled: configuration front end |

How they interact.  The IOKit *workloop* thread handles interrupts and timers.
It runs `iwl_pcie_rx_handle`, which hands received packets and command responses
to the op mode, calls `reclaim` on the data queues when the device reports
frames sent, and queues works.  Requests come down on threads of IOKit and of
the workqueues: the op mode transmits frames through `iwl_trans_tx` and commands
through `iwl_trans_send_cmd`, which sleeps until the workloop wakes it.
Workqueue functions queue further works, their own included.  Tasklets are
scheduled from the interrupt side and by mac80211.  A notification of the firmware
goes from the interrupt to a waiter and to a list that a work empties; what the op mode
then reports to mac80211, and mac80211 to cfg80211, is taken up by further works
(`scan_work`, `conn_work`, the interface's work), each of which may find that
what it was queued for is over.

What is hard in this code:

* *The shim has fewer guarantees than Linux.*  `spin_lock` and `mutex_lock` are
  empty, atomic counters are plain C, `test_and_set_bit` reads and then writes,
  the worker sleeps without looking at its list, `wait_event_timeout` looks
  at its condition once.  Code from Linux that is correct there meets
  interleavings here for which it was not written.
* *Two sides of a queue.*  The transmit ring is filled from above and reclaimed
  from below, with a section of reclaim that gives the lock up; stop and wake
  travel as a bit and a call.
* *Work that is queued while it runs*: the receive allocator, delayed works that
  queue themselves, timers that fire while the work is being queued again.
* *Answers that come late*: the response to a command that was given up, the notification
  of a scan that was aborted, the status of a frame whose exchange is over, a crash of the
  firmware in the middle of any of these.
* *Several records of one fact*: a scan is known to mac80211, to the op mode (twice) and
  to the firmware; a connection to cfg80211, to mac80211 and to the access point.
* *Limits*: ring full and ring empty, low and high marks, modulo arithmetic, half
  the receive buffers waiting for pages.

What makes each part correct:

* workqueue: each accepted work is called once for each acceptance, in order; the
  list is never damaged; a listed work is eventually called;
* delayed work: a work waits in one place at a time, its timer or the list (which the shim does
  not see to when a work is modified);
* tasklets: as for works; a killed one is neither listed nor marked; the thread
  does not sleep while there is something to run;
* data queue: frames come out once, in order, whatever overflows; the ring is never
  over-filled; a stopped op mode is woken; a flush that succeeds leaves nothing;
* receive: no descriptor is lost; the allocator has the descriptors of each request
  it serves; the device is never without buffers for good;
* host command: a call succeeds only if it was answered; no response is written to a call that is
  over; no call leaves the queue busy; a call returns when it is answered;
* a tid's queue: no frame is sent before there is a transport queue, none is left behind;
* scan: each one that was asked for ends; what is reported is its own end;
* connection: an exchange belongs to the attempt that began it; a BSS is held exactly as long
  as it is used; an attempt always has something before it that takes it on;
* kext: `loadfirmware` ends with data or an error; the recorded power state is real.

The hazards behind these, each at its line, are in `PROJECT.json`.


## 2. Plan

The order follows what everything rests on: the shim first, then the transport's
queues that use it, then the op mode and what is above it.

| step | modules | status |
|---|---|---|
| 1 | `DeferredWork`, `Workqueue`, `DelayedWork`, `Tasklet` | done |
| 2 | `WorkqueueProofs` | done |
| 3 | `TxPipe`, `TxQueue` | done |
| 4 | `RxAllocator` | done |
| 5 | `RxAllocatorProofs`: descriptors accounted for, batches backed | done |
| 6 | `HostCmd`: host commands on the shim's wait | done |
| 7 | `Itxq`: `tx_request` and `iwl_mvm_mac_itxq_xmit` | done |
| 8 | `Scan`: a scan from mac80211 to the firmware and back, notification wait, restart | done |
| 9 | `Sme`: connecting a station, cfg80211 on mac80211 | done |
| 10 | `HostCmdProofs`, `ItxqProofs`, `ScanProofs` | done |
| 11 | `SmeProofs`, `TxQueueProofs`, `TaskletProofs`; in the others the delayed items, the refinements of `DeferredWork` and `TxPipe`, starvation, `AnsweredOnSuccess`, `ReportsOwn`, the types | done |
| 12 | `FirmwareLoad`, `Power`: the kext's sleep and wakeup, power changes | |
| 13 | restart of the receive path while the allocator runs | |

Abstract specifications: `DeferredWork` (what a workqueue promises; refined by
`Workqueue` and `DelayedWork`) and `TxPipe` (what a transmit queue promises; refined
by `TxQueue`).


## 3. Modules

### DeferredWork

The promise: a FIFO of works and at most one running.  A work may be enqueued when
it is not in the queue; the oldest is started; it finishes.

### Workqueue

| variable | code |
|---|---|
| `next`, `prev` | the `list_head` of each work and of the queue, poisoned by `list_del` |
| `pending` | works with WORK_STRUCT_PENDING_BIT set |
| `pc`, `arg`, `was` | each submitter in `queue_work_on`: before the set of the bit, before `__queue_work` |
| `wpc`, `pos`, `nxt` | the worker in `queue_work_run`: its cursor and the saved next entry of `list_for_each_entry_safe` |

`TestBit`, `SetBit` and `QueueWork` are the three steps of a submission: the two
halves of `test_and_set_bit` and `__queue_work` (insertion and signal under
`wq->mutex`, which is a real mutex).  `Scan`, `Take`, `FuncReturn` and `CondWait` are
the worker.  The list is modelled by its pointers and not by a sequence, because
the code walks it without the mutex while others insert; the abstraction to a
sequence (`Walk`) is the refinement mapping, so that a damaged list breaks
`RefinesDeferredWork`.

`Submits` says which thread queues which work.  With two threads on the same work
the two-step bit lets both insert it; the driver queues most of its works from
one thread, and `SingleSubmitter` states this as the condition of the theorems.
`alloc_workqueue` is `Init`.  `cancel_work_sync`, `flush_work`, `flush_workqueue`
and their like change no state in this build (their bodies are commented out
or return before they do).

### DelayedWork

`Workqueue` and, for each delayed work, a timer.  `QueueDelayed` and `ModDelayed`
are the two ways in, `AddTimer` arms, `TimerFires` is `delayed_work_timer_fn` on
the workloop.  `del_timer` never reports success in the shim, so that
`try_to_grab_pending` goes straight to the bit.  A delay is none or some; time itself is not
counted.

`ModFrom` says in which places of a work `mod_delayed_work` is called.  Its callers do call it of
a work whose timer is set: `mvm/tdls.c:293` and 726 of the one that 612 has armed,
`net/mac80211/offchannel.c:251` and 767 of the one that 389, 428 and 608 have armed,
`net/wireless/reg.c:2219` whenever the regulatory domain changes.  With `ModFrom` as these have it (`AsCalled`)
`OneQueueing` is false, which run `delayed_modified` shows: the work is put on the list, or its timer
is set again, beside the timer that was left armed.  `NoDoubleAdd`, and with it the rest of what
`delayed_work` checks, is then false, too.  Run `delayed_work` has it called of idle works only
(`IdleOnly`), where it does what `queue_delayed_work` does: what it shows is what the shim
gives to code that queues delayed works, or modifies idle ones, and to no other.

### Tasklet

The list is a sequence, for here the thread holds the mutex when it looks.  What
a TAILQ does when an entry is inserted twice or removed when it is absent is undefined;
`corrupt` records that it happened, and nothing is said about the state after it: the only
property about corruption is how it comes about (`CorruptByStuckBit`).

### TxPipe, TxQueue

`TxPipe`: frames are accepted, then reported in order or failed, each once.

`TxQueue` is one data queue of the transport with its two callers, the op mode's
sender and the reclaim of the device's answers, and a flush.

| variable | code |
|---|---|
| `queue_used`, `read_ptr`, `write_ptr`, `entries` | the queue's bit and `struct iwl_txq` |
| `overflow_q`, `overflow_tx`, `overflow_skbs` | the frames without room, reclaim's flag and its local list |
| `queue_stopped`, `sw_stopped` | `trans_pcie->queue_stopped` and `mvmtxq->stopped` |
| `lock` | who is in a section under `txq->lock` |
| `pc`, `room`, `segs`, `resent` | where each caller is, the space it read, segments of its frame, the frame being resent |
| `fpc`, `fov`, `fwr` | `iwl_trans_pcie_wait_txq_empty`: its `overflow_tx` and `wr_ptr` |
| `accepted`, `out`, `failed` | what has come in and gone out: no code, for the refinement |

`TxSpace`, `TxStop`, `TxFull`, `TxOverflow`, `TxPut`, `TxError` are the parts of
`iwl_trans_pcie_tx`, for both callers, since reclaim resends through it;
`Reclaim`, `Resend`, `Settle`, `Wake`, `Unwind` are `iwl_trans_pcie_reclaim`
with `iwl_wake_queue`; `Flush*` the flush; `Enable` and `Disable` the queue's life.
A call that fails has stored its frame in the slot at `write_ptr` before (`tx.c:2403`), and nothing
takes it out: the slot, which is not in use, keeps a pointer to a frame that is freed (`Gone`), until
the next call overwrites it.  `RingFilled` says that no such slot comes between the pointers.
There is one sender: that the op mode, when it is told of room, transmits what waits
(`iwl_mvm_mac_itxq_xmit`, `mvm/ops.c:1181`) in the thread of the reclaim, beside a sender, is not modelled
here (`Itxq` has it, on the op mode's side).
With `Locked` the sections under `txq->lock` exclude each other, which is the
driver's contract; without, they do not, as the shim builds it.

Three things the runs do not ask, because the answer is known and is no: whether
a sender of several segments stays out of reclaim's unlocked window
(`iwl_mvm_tx_skb_sta` sends all segments of a frame without a look at the stop, so
`tx_order` is about single segments); whether a flush warns only of frames of
the op mode (it samples `overflow_tx` before the pointers); whether a work queued
with no delay runs without further traffic.

Abstracted: a descriptor's content (a frame is a number, given when the transport
accepts it), the two reads of the space in one call (nothing changes between them
under the lock), `ssn & 0xff` (an index of the ring).  `jiffies` is a constant of the
shim, so the flush's timeout never fires and is no action.  `Disable` follows a
flush that returned 0, as in `mvm/sta.c`.  Not modelled: the stuck-queue timer,
freeze and block, gen2 queues, stop of the device.

### RxAllocator

The life of a receive buffer, for devices with one receive queue.  Descriptors are counted,
not named: each list of `struct iwl_rxq` and `struct iwl_rb_allocator` is its
length.  The interrupt handler (`hpc`) and the allocator (`apc`) interleave at each section
under `rba->lock` and at each access of `req_pending` and `req_ready`; with
`Atomic` an update of these is one step as far as others can see, without it is the
plain C of the shim.  How many buffers the device has filled is a free choice each
time the handler asks, and so is whether the stack keeps a page.

`rba.alloc_wq` is a workqueue of its own with this one work: `listed` is its PENDING bit and its
place on the list, `worker` its thread (`AllocStart`, `ScanEmpty`, `CondWait`; `Queue` is `queue_work_on`, the
test of the bit and the insertion in one step).  The worker sleeps without looking at the list
(`workqueue.c:42` and 76), so that a work inserted between its look and its sleep stays there; it stays
pending, too, and no later `queue_work` inserts it or signals.  That each request is served
(`RequestServed`) is therefore false, and `RxLostWakeup.cfg` reproduces it; what holds is that a request which
finds the worker asleep is served (`ServedIfAsleep`).  `NeverStarved` does not rest on either:
the device keeps half of its buffers, but what the stack keeps beyond that is never replaced.

The constants are those of `pcie/internal.h` scaled down.  `alloc_pages` and
`dma_mapping_error` never report failure in the shim, so allocation succeeds.

### HostCmd

| variable | code |
|---|---|
| `active`, `fw_error`, `rfkill` | STATUS_SYNC_HCMD_ACTIVE, STATUS_FW_ERROR, STATUS_RFKILL_OPMODE of `trans->status` |
| `read_ptr`, `write_ptr`, `meta` | the command queue: its pointers run over the ring, its entries over the window |
| `device`, `todo`, `rx` | the firmware, the commands it has not answered, its answers not yet handled (external) |
| `hpc`, `steal` | `iwl_pcie_hcmd_complete`: where it is, CMD_WANT_SKB as it read it |
| `pc`, `kind`, `idx`, `saw`, `resp` | each caller: where it is, its flags, its entry, the bit it read, `cmd->resp_pkt` |
| `restart` | the op mode has been told to restart the firmware |
| `answered` | the callers whose response has been handled: no code, for the properties |

`TestActive` and `SetActive` are the two halves of `test_and_set_bit`, `Enqueue` and
`NoSpace` the outcomes of `iwl_pcie_enqueue_hcmd`, `Sleep`, `TimeUp` and `Wakes` the
shim's `wait_event_timeout`, the rest of a call its ways out in
`iwl_pcie_send_hcmd_sync`.  The other failures of an enqueue (-EIO and -ENODEV of a dead
device, -ENOMEM), which leave as `NoSpace` does, are not there.  `CompleteLook`, `CompleteStore` and `CompleteWake` are the
handler, in which other threads see the flag, the response and the bit change one after the
other.  `HandleError` and `RadioOff` are the interrupts that end a wait, `Restart` what
follows.

The shim's wait does not look at its condition.  It sleeps on the *command gate* of
the driver's workloop, which interrupt handlers hold; a caller that has the
gate closed from its call to its sleep (`Gated`: a power change) cannot be overtaken by its
response, any other can.  `Serialized` says that something above keeps synchronous
calls apart, in the op mode `mvm->mutex`.  With all of the window in use the pointers, taken modulo the
window, compare equal, a completion reclaims nothing, and no command finds room until the firmware is
restarted, so that `SyncHasRoom` is false, against the comment at `pcie/tx.c:108-113`: `HostCmdFull.cfg`
reproduces it.  The answers of the run are for the
gated callers; a caller outside the gate may miss its wakeup, and wait for its
deadline, and may be written to after it has returned.

### Itxq

| variable | code |
|---|---|
| `txq` | the frames in mac80211's queue of a tid |
| `allocated` | `mvmtxq->txq_id` is valid |
| `listed`, `work` | how often `mvmtxq->list` is on `add_stream_txqs`; `add_stream_wk` is queued |
| `stopped`, `tx_request` | of `mvmtxq` |
| `pc`, `skb`, `count` | each caller: where it is, the frame in its hand, the count it read |
| `sent`, `dropped` | what became of the frames: no code, for the properties |

A sender (`WakeTest` to `WakeAdd`), the work that allocates the transport's queue
(`WorkAlloc`, `WorkDelete`) and the transport when it resumes all end in
`iwl_mvm_mac_itxq_xmit` (`TxRequest` to `TxReread`).  `Counts` says whether
`atomic_fetch_add_unless` counts; in this build it does not, and the run has it so:
everybody drains the queue, and the count only goes down, round the values of its
type (`Width`; 4 in the run, where the type has 2^32: a caller that is to leave the loop through the
wrap needs that many rounds in the build).  The transport's queue itself is `TxQueue`; here it is a
stop flag, which is set when no caller is in it.  A frame is dropped here if its queue is not allocated;
`iwl_mvm_mac_itxq_xmit` also frees one that the transport refuses for another reason, so that
`NoneDropped` is about allocation only.  That nothing is dequeued while the system suspends
(`system_pm_mode`) is left out.

### Scan

| variable | code |
|---|---|
| `scan_req`, `scanning`, `scan_work` | of mac80211's `local`; a request is named by its number |
| `scan_status`, `scan_uid_status` | of `mvm`: the kinds of scan under way, the slot of each |
| `timeout_dwork` | `mvm->scan_timeout_dwork` |
| `fw`, `fwscan`, `notifs` | the firmware, what it scans, its notifications (external) |
| `fw_error`, `restart` | STATUS_FW_ERROR, where the restart of the firmware is |
| `entries`, `hpc` | `mvm->async_handlers_list` and its work |
| `pc`, `uid`, `aborted` | the caller, the slot it uses, `wait_entry->aborted` |
| `failed` | the firmware has failed: no code, for `ReportsOwn` |

`Request` to `StartFails` are `ieee80211_request_scan` down to the op mode's command;
`CancelReported` to `Stopped` `ieee80211_scan_cancel` down to the op mode's wait for the
notification; `Notify` the interrupt, `Handle*` the work that handles notifications,
`ScanWork` mac80211's end of a scan; `TimerFires` and `TimeoutWork` the timeout;
`NicRestart`, `RestartCancel`, `RestartUp` the way from a crash to a firmware that
runs again.  With `Locked` the callers, the handlers and the restart exclude each
other by `local->mtx` and `mvm->mutex`, as the driver writes them.

### Sme

| variable | code |
|---|---|
| `conn`, `ssid`, `ssid_len`, `current_bss` | of the `wireless_dev` |
| `conn_work`, `scan_req` | of the registered device: the work is queued, a scan is under way |
| `known`, `hold` | the BSSs that are not expired, and their `hold` |
| `auth_data`, `assoc_data`, `associated` | of mac80211's `ifmgd` |
| `status`, `onair`, `sta_work` | the status of a frame as it was received, the frames whose status is to come, the interface's work is queued |

Each handler is one action, for all of them run under the lock of the
`wireless_dev`; what interleaves are handlers.  A handler of this code calls from
cfg80211 into mac80211 and is called back, so that its parts are operators from a record of all
variables to those it may leave, with the error it returns (`Ok`, `Err`).
`Connect` and `Disconnect` are the user's calls, `ConnWork` the work with its
states (`DoWork`), `ScanDone` the end of whichever scan, `Rx*` the access point's
frames, `TxStatus`, `TimerFires` and `StaWork` the retries and timeouts of
mac80211.  Allocations and the driver may fail wherever they are asked: a free
choice; the few failures of `ieee80211_mgd_auth` and `ieee80211_mgd_assoc` that return before the former
exchange is taken down are not told from those after.  An access point may put an association off any
number of times.

`cfg80211_conn_scan` may fail with -EBUSY (`Busy`) with a scan under way or, when the driver cannot scan just
now (`mac80211/scan.c:663`, `mvm/scan.c:2026` and 2169), without one; `cfg80211_sme_connect` answers either with
SCAN_AGAIN and success, and leaves the attempt to the end of a scan that in the second case is not
there.  `ScansAgain`, that it is, is false, and `SmeScan.cfg` reproduces it; `AttemptPending` says that it is
the only way in which an attempt is left with nothing before it, and `AttemptEnds` leaves it out.

Assumed of the driver, from what iwlwifi sets and returns: it needs no beacon
before it associates, and a station can always be marked as authenticated.

`ClockRuns` is whether `jiffies` advances.  In this build it does not; run `sme` has a
clock that runs, since without one no attempt gets past its association request,
which is what `connect_clock` shows.


## 4. Runs

Passing:

| run | question | properties | bounds |
|---|---|---|---|
| `delayed_work` | is the workqueue's list sound and each acceptance one call, with timers and works that queue themselves | DTypeOK, NoDoubleAdd, RingOK, CursorOK, RefinesDeferredWork, TimersDrainedByTraffic | 2 delayed works, 1 plain; a thread, the workloop and the worker; each work from one of them, none modified while it waits |
| `tasklet` | is the list sound, and does the thread run what is scheduled | TypeOK, ListSound, CorruptByStuckBit, ScheduledRuns | 3 tasklets, one scheduled and killed by one thread, one scheduled by the interrupt side, one by a tasklet |
| `tx_queue` | limits, wake, flush, life of a queue, for frames of several segments | TypeOK, RingFilled, FlushedEmpty, Resumed, FlushReturns | ring of 8, 11 frames, 6 segments |
| `tx_order` | is the queue a pipe, do both sides agree on the stop | OpModeAgrees, RefinesTxPipe | ring of 8, 12 frames, single segments |
| `rx_allocator` | descriptors, requests and the device's supply | TypeOK, BatchAvailable, ClaimBacked, Accounted, NeverStarved, ServedIfAsleep | ring of 12, batches of 3 |
| `host_cmd` | what a synchronous command promises under late answers, timeouts, errors | TypeOK, GatedResponseToLiveCall, NeverBusy, AnsweredOnSuccess, AnswerReturns | one gated and one free caller, 2 calls each, 1 asynchronous command, 1 fault |
| `scan` | does a scan end, and as itself, across cancel, timeout, crash and restart | TypeOK, AlwaysValidIndex, ReportsOwn, ScanEnds | 2 slots, 3 scans, 1 crash besides those the timeout forces |
| `itxq` | are frames kept until there is a queue, and all sent | TypeOK, NoneDropped, NoneHangs | 3 frames, 1 stop, 1 failed allocation |
| `sme` | do cfg80211 and mac80211 agree on a connection, is each BSS held as long as it is used, is an attempt always taken on, and does it end | TypeOK, ExchangeOwned, HoldsBalanced, AttemptPending, AttemptEnds | 2 access points of one network, another network without, 2 connects, 2 tries |

Why the bounds are enough:

* Three works are a list with a first, a middle and a last entry, and each pair of
  submitters, the worker's own function and the timers included, meets.
* The low mark is `max(4, N/4)` and the high mark `max(2, N/8)`: a ring of 8 has the
  marks of all rings up to 16, and 11 frames go round it, overflow and overflow again
  during the resend.  Queues start two slots below the wrap.
* With `Size` 12 and `Claim` 3 the emergency begins at 2 pending requests and ends at 1 or
  none, so that it is entered, left, and left and entered again; `Batch` divides the
  ring into several refills; `Chunk` 2 keeps a descriptor written but unseen.
* `Window` 2 in a ring of 4 pointers is filled by a synchronous and an asynchronous
  command, and four of the five commands go round it; the second call of a caller
  meets the late answer to its first, and the other caller's.
* Three scans: one whose notification or timeout comes late, one that meets it, one
  that takes the slot of the first; a second slot for a scan that begins while the slot of another is
  not free yet.
* Three frames: one in a caller's hand, one in the queue, one that comes then.
  `Width` 4 is a count that goes below zero and comes round.
* Two connects are an attempt and the one that replaces it or roams from it, to either
  access point; 2 tries are a first and a last.  The safety properties were checked
  with 3 connects as well.

`CHECK_DEADLOCK FALSE` appears only for `Tasklet`, whose damaged list has no next step.

Violations: runs in which TLC finds that the code does not do what a
comment or declaration of the repository says.  Each is a finding in `PROJECT.json`.

| run | property | what happens |
|---|---|---|
| `delayed_modified` | OneQueueing | `del_timer` cancels no timer unless it is called on the workloop, and says in any case that there was none; `mod_delayed_work` of a work whose timer is set puts it on the list with its timer still armed |
| `scan_timeout` | TimeoutFindsScan | `cancel_delayed_work` is empty: the timeout of a scan that has ended fires into no scan, and forces an error on the firmware |
| `connect_clock` | RequestIsSent | `jiffies` is a constant: a timeout set to now is never over, and the association request is never sent |

Three configurations beside the runs reproduce further counterexamples, which section 3 explains under
their modules; no property of a passing run covers these cases but as said there:
`HostCmdFull.cfg` (module `MCHostCmd`, `SyncHasRoom`), `RxLostWakeup.cfg` (`RxAllocator`, `RequestServed`) and
`SmeScan.cfg` (`MCSme`, `ScansAgain`).

The runs take the locks as the driver writes them, and counters as atomic:
`Locked` in `tx_queue`, `tx_order` and `scan`, `Atomic` in `rx_allocator`, one step per
handler in `sme`, sections under `txq->lock` in `host_cmd`.  In the shim `spin_lock` and `mutex_lock` are empty and the
counters plain C, so that a pass says what the driver's algorithm does where its
threads do not meet inside a section.  It is known what happens where they do: without
`Locked` a stop and a wake of a queue cross, and none of the properties of `Scan` survives
a crash; without `Atomic` an update of `req_pending` is lost and the allocator serves a
request too many.  The workqueue, tasklet, host command and `Itxq` models take the two-step
bits and the missing conditions of the shim as they are.


## 5. Fairness

Weak fairness of a thread's steps says that a call that has begun goes on: threads are
scheduled by the kernel, and nothing in a call waits for another but the locks.
Strong fairness is used where a step waits for something that others take again and
again: the return of a work's or tasklet's function, which
may submit again any number of times before it returns; the
firing of a timer, which waits for the workloop between other calls; an atomic update in the
receive allocator, which another thread's updates may delay but not for ever; the steps of
a host command's caller, which waits for the gate; and in `Scan` the handler, `scan_work`
and the restart, which wait for the two mutexes.

Nothing is assumed of what comes from outside: submissions, sends, kills, the
firmware's answers and crashes, the deadline of a command, the user, the
access points.  What is assumed is that a device that has sent reports it
(`TxQueue`), that a crash interrupts and is handled, that a wait for a notification comes to
its deadline, and that a driver ends the scans cfg80211 asks of it (`Sme`), which is
what `ScanEnds` shows of the one below.

`TimersDrainedByTraffic` is conditional on further submissions because the code
needs them: a work linked between the end of the worker's walk and its sleep
stays there until the next submission.  `RxAllocator` has the worker with its lost wakeup, and
assumes of it only that it goes on.  `Scan`, `Itxq` and `Sme` do assume that a queued work runs:
the shim gives that only as long as other works are queued on the same workqueue.  Theirs are shared by many
works (`system_wq`, `local->workqueue`), so that `ScanEnds`, `NoneHangs` and `AttemptEnds` say what holds
under traffic, and not what holds of a system in which nothing else is queued.


## 6. Proofs

Every safety property that a passing run checks, invariant, action property or
refinement, is a theorem here, for every value of the constants that satisfies the module's
assumption.  A hypothesis of a theorem is one of

| hypothesis | where | what it says of the code |
|---|---|---|
| `SingleSubmitter`, `SingleCaller` | workqueues, tasklets | each work, each tasklet, is queued (and killed) from one thread: the shim's two-step `test_and_set_bit` gives nobody else a chance |
| `Disciplined` | delayed works | and `mod_delayed_work` is called for items that wait nowhere, which not all of its callers see to (section 3): without it the theorems about delayed works are false |
| `Serialized` | host commands | something above keeps synchronous commands apart, in the op mode `mvm->mutex` |
| `Locked` | `TxQueue`, `Scan` | the locks the driver writes exclude |
| `Atomic` | `RxAllocator` | the counters of requests are atomic |
| `Headroom` | `RxAllocator` | half the ring has room for a claim, a post and a step of the write pointer: 8, 2 and 8 of 256 in the code |
| `MaxSegs = 1` | `TxQueue` | the op mode's frames have one segment, as the property itself says |

and the runs take them as they are.  Without any of the first three, or without `Atomic`, TLC finds a
counterexample on the bounds of the run; what is known without `Locked` is in section 5.

### Workqueues

`WorkqueueProofs` proves of `Spec`, for any set of works and threads and under
`SingleSubmitter`, `TypeOK`, `NoDoubleAdd`, `PendingCoversQueued`, `RingOK`, `CursorOK`
and `RefinesDeferredWork`; and of `DSpec`, where timers add to the list as well, under
`Disciplined`, `DTypeOK`, `NoDoubleAdd`, `RingOK`, `CursorOK` and `RefinesDeferredWork`.

The argument.  No two of these are inductive by themselves.  Whether a work
is added twice depends on the bit; that the bit covers the list depends on the
worker clearing it only for the work it unlinks; that this is a listed one depends on
the cursor; that the cursor is on the list depends on the ring being whole; and the ring is
whole because no work is added twice.  `IInv` is their conjunction with `CallOK`: between
the two halves of a thread's `test_and_set_bit` a bit read as clear is still clear, which is where
`SingleSubmitter` enters.  The two lemmas about the list itself
(`AddTailKeepsRing`, `DelFirstKeepsRing`) are proved about the pointers for rings of any
length; there is one lemma per action.

With timers `DInv` takes the place of `IInv`.  An item is listed, on its timer, or in one
thread's hands (`Exclusive`), and `mod_delayed_work_on`, which goes on whatever it has read of the bit,
must have read it clear (`DCallOK`): that is where `Disciplined` enters, and what the callers that
modify an armed work break.

The refinement needs more than the ring: `RingOK` lets the pointers form several rings, of
which the worker would see one.  `OneRing` says that the linked items are all on the ring of the
head; `AddTailChain` and `DelFirstChain` say that list_add and list_del change that chain at its
ends only.  The sequence that `DeferredWork` has is read off the pointers by the model's own
recursive function (`WalkIsChain`); the length of the chain is found with the least-number principle
(`LeastNat`), since no induction rule is at hand.

### Tasklets

`TaskletProofs` proves `TypeOK`, `ListSound` and the action property `CorruptByStuckBit`, under
`SingleCaller`.  `ListSound` is not inductive: that nobody inserts what is listed needs that a bit
read clear is still clear when it is set, and that the tasklet about to be inserted is marked and on no
list (`CallOK`), so that systq, which clears the bit of what it takes, uncovers nothing.
`CorruptByStuckBit` follows: a kill that finds its tasklet marked and not listed has nobody else who
could be inserting it.

### The receive allocator

`RxAllocatorProofs` proves about `RxAllocator`, for every `Size`, `Claim`, `Post`,
`Chunk` and `Batch` that satisfy `RxAssumption`:

* `Accounted`, from `Spec` alone, with atomic counters or without.  The strengthening
  is small: what holds of `count` and `rx_used` in an emergency (`EmergencyOK`), and
  that the allocator keeps nothing when it returns.
* `BatchAvailable` and `ClaimBacked`, if `Atomic`.  Neither is inductive.  The
  allocator has the descriptors of a request because they were moved before the request
  was posted (`SentOK`); that this covers all requests at once depends on how many
  there are, which is the number of batches begun (`RequestsOK`: a request is
  made when `used_count` is `Post` above a multiple of `Claim`, lemma `Due`); that what was
  moved is with the allocator, and not with batches that are ready, is `Accounted`
  with `ReadyOK`; `ServeOK` follows a request through the allocator's loop, and
  `LoadedOK` is where `Atomic` enters: what a thread has read of a counter is still its
  value when it writes.  The condition is needed: without it TLC finds `BatchAvailable`
  violated on the bounds of the run.
* `TypeOK`, if `Atomic` and a claim fits the ring, and `NeverStarved`, if also `Headroom`.
  `RingInv` follows each descriptor: `Kept` says where all of them are, `SeenOK` that the
  handler has looked at the pending requests before it takes a buffer and has added only its own
  since, which bounds what is lent (`LentOK`, `MostLent`); what is not lent is on the ring when
  the handler returns (`RestockedOK`), and `Headroom` leaves some of it.

### Host commands

`HostCmdProofs` proves about `HostCmd`, for any callers, whichever of them are gated,
any window and ring of the command queue, and any number of calls and faults:

* `TypeOK`, with the number of a caller's call (`CallsOK`).
* `GatedResponseToLiveCall`, from `Spec` alone.  A response is written in two steps,
  the look at the entry's flag and the store, and the call may end between them: it
  cannot if its caller holds the gate (`HandlerOK`).  That the flag that was read is
  the live call's (`StoreOK`) needs that a flag of a gated caller is there only for its call
  under way and has no response yet (`FlagOK`): a call that succeeds had its response, and
  one that fails takes the flag back, at the index its caller has noted, since the entry
  of a call under way is there and nowhere else (`EntryOK`).
* `NeverBusy`, if `Serialized`: one call at a time, and the bit is set only for
  it (`BusyOK`).  Without the condition two callers meet between the two halves of
  `test_and_set_bit`.
* `AnsweredOnSuccess`, if `Serialized`: a caller is woken by somebody's response, and the wait
  does not look whose.  It must be its own, for what is pending at the firmware and is not
  asynchronous has a caller that waits for it, or the firmware is lost (`AskedOK`); and the
  entry of a response is only its own command's because the slots of what is pending are one run,
  as far behind the write pointer as there are commands, and no longer than the window (`RingOK`).
  This is where the pointers, their wrap at `Wrap` and the window are reasoned about: a completion takes
  exactly the first pending entry off the queue (`RingReclaim`), or none at all once the window was
  full (`Used = Window`, which is the state that `HostCmdFull.cfg` reaches), and even that mixes up no two
  commands.

### Queues of a station

`ItxqProofs` proves `NoneDropped` about `Itxq`, for any number of senders and frames,
and whether or not the callers are counted.  The invariant is `AllocatedOK`:
unless an allocation has failed, a caller beyond its check, and a transport that is
stopped, have a queue that is allocated, and it stays so.  `TypeOK`, which says that every frame is
in one place, is proved from `PlacesOK` and `AllCounted`: the queue, the hands of the callers, what
was sent and what was dropped are apart, and there are as many frames in them as were sent.

### Data queues

`TxQueueProofs` proves about `TxQueue`, for any ring, any number of frames and segments and
any time a flush or a removal comes:

* `FlushedEmpty`, from `Spec` alone, without the lock: reclaim says that it has the overflow queue in
  hand before it takes the frames and until it has sent them (`CallsOK`), and a flush that has seen no
  overflow will see none, for the sender waits for it (`FlushOK`).
* `TypeOK` and `RingFilled`, if `Locked`; a failed call leaves its frame in the slot at the write
  pointer, outside the ring.  What a caller has read of the space holds until it leaves
  its section (`HolderOK`); while reclaim resends, what overflows again finds no room
  (`OverflowOK`), so that the ring never fills up to `read_ptr = write_ptr`.
* `OpModeAgrees`, if also `MaxSegs = 1`: the op mode sends nothing to a queue it believes stopped, and
  the frame that stops a queue is its last (`SingleOK`).
* `RefinesTxPipe` under the same conditions: the frames on the ring from `read_ptr`, then the one being
  resent, those taken off the overflow queue and those left on it, are what is in the pipe, in this
  order; accepting a frame, reporting and failing one are the pipe's steps, and moving frames from
  overflow to ring is none.

### Scans

`ScanProofs` proves `TypeOK` and `AlwaysValidIndex` about `Scan`, for any number of slots, scans and
crashes, if `Locked`.  The two go together: that the slot a stop looks up is a slot at all
is `AlwaysValidIndex`.  It is not inductive: a scan that may be stopped has its slot
or is being stopped at the moment (`SlotOK`); one that is beginning has its slot already, unless
a crash has reported it (`BegunOK`); and no completion is handled during a call
(`ExclusionOK`), which is where `Locked` enters.

The action property `ReportsOwn` is proved under `Locked` too.  Until the firmware fails there is one
scan in its course (`CourseOK`); each slot has one token, the running scan or one notification in
one of the two lists (`TokensOK`), so that a late notification cannot meet the scan that comes
after it in its slot; and what is still to be reported for a slot is what mac80211 waits for (`OwnOK`).

### Connections

`SmeProofs` proves `TypeOK`, `ExchangeOwned`, `HoldsBalanced` and `AttemptPending` of `Sme`, from `Spec`
alone, for any access points, tries and clock.  The module's handlers are compositions of operators from a state to a state; each
has a lemma that says which states it takes and which it leaves (`Good` between handlers, `Begun` after an
attempt to begin an exchange, `Owes` for the holds halfway).  `ExchangeOwned` becomes inductive with
`Owned`: an authentication that is done belongs to an attempt about to associate, or one further on could leave
it behind.

### Only model-checked

The liveness properties (`TimersDrainedByTraffic`, `ScheduledRuns`, `Resumed`, `FlushReturns`,
`ServedIfAsleep`, `AnswerReturns`, `ScanEnds`, `NoneHangs`, `AttemptEnds`), which are beyond the
prover, and the violations of section 5, which need a run and not a proof.  The invariants were
checked by TLC on the bounds of the runs, with their strengthenings, before they were proved.


## 7. Not modelled

See the inventory.  Within the modelled parts:

* shim: destruction of a workqueue, completions and untimed waits;
* `TxQueue`, `HostCmd`, `RxAllocator`: the contents of descriptors, buffers and commands, the
  multi-queue receive path, a restart of the receive path while the allocator runs, the stuck-queue
  timer, freeze of queues, gen2 devices, the stop of the device under traffic;
* `Itxq`: two senders of one queue that both list it for allocation, since what `list_del` then does
  to the list is not modelled (with two senders the model does list it twice), queue
  sharing, removal of the station;
* `Scan`: scheduled scans and those of wake-on-wireless, a scan that mac80211 defers, software scans,
  the stop of the interface, firmware with the older scan commands, several waiters for
  notifications;
* `Sme`: connect keys, SAE, drivers or user programs with an SME of their own,
  removal of the interface, channel switches, TDLS, power save, the probes by which mac80211
  finds that a connection is lost (the loss itself is `ConnectionLost`).

Three things that `Sme` does show, and that no property forbids: a `conn_work` left over from a
cancelled attempt fails the next one early; a reassociation that fails leaves mac80211 associated with
a BSS that cfg80211 has forgotten; a connect that is refused changes the `ssid` of the attempt in
progress.  The last two are listed as hazards.

The kext itself (`src/AirPortLinux/`: start and stop, power changes, firmware
load) is next in the plan.  The large rest of the repository is Linux code above and
beside these paths (nl80211, regulatory, crypto, rate control, mesh, frame parsing and building), for the
most part sequential translation of data under one lock, where a model would repeat
the code; it is left out for that reason.

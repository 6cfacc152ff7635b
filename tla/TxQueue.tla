------------------------------ MODULE TxQueue ------------------------------
(***************************************************************************)
(* A data queue of the PCIe transport (iwlwifi/pcie/tx.c): a ring of N      *)
(* descriptors between write_ptr and read_ptr, the overflow queue that      *)
(* holds what the ring has no room for, the stop and wake calls that tell   *)
(* the op mode to hold its frames back, and the flush that waits for it all *)
(* to drain (pcie/trans.c).                                                 *)
(*                                                                          *)
(* A section under txq->lock may span several steps here, during which lock *)
(* names its owner.  With Locked the lock excludes, as the driver expects;  *)
(* without, it does not, as the shim builds it: spin_lock has no body.      *)
(***************************************************************************)
EXTENDS Integers, FiniteSets, Sequences

CONSTANTS
    Sender,     \* the thread in which the op mode transmits on this queue
    Reclaimer,  \* the one that handles the device's answers
    N,          \* n_window, which is max_tfd_queue_size for a data queue
    Starts,     \* the sequence numbers a queue may be enabled at
    MaxFrames,  \* bound on the frames the op mode sends
    MaxSegs,    \* bound on the segments a frame is cut into
    Locked      \* whether spin_lock excludes

Callers == {Sender, Reclaimer}
Slots == 0 .. N - 1
Frames == 1 .. MaxFrames
NoFrame == 0

\* A frame that a failed call has left in its slot, and its caller has freed or lost.
Gone == -1

NoOwner == "none"

ASSUME TxQueueAssumption ==
    /\ N \in Nat /\ N >= 8
    /\ MaxFrames \in Nat /\ MaxSegs \in Nat \ {0}
    /\ Reclaimer # Sender
    /\ Starts \subseteq Slots
    /\ NoOwner \notin Callers
    /\ Locked \in BOOLEAN

VARIABLES
    queue_used, read_ptr, write_ptr,
    entries,        \* the frame each slot of the ring holds
    overflow_q, overflow_tx,
    queue_stopped,  \* the transport's bit: the op mode has been told to stop
    sw_stopped,     \* what the op mode made of it (mvmtxq->stopped)
    lock,           \* the owner of txq->lock
    pc, room,       \* where each caller is, and the space it read
    segs,           \* the segments of its frame the sender still has to send
    overflow_skbs,  \* what reclaim took off overflow_q and has not sent yet
    resent,         \* the frame of it that it is sending
    accepted,       \* how many frames iwl_trans_pcie_tx took: it numbers them
    out, failed,    \* the frames reclaimed, and those lost on the way
    fpc, fov, fwr   \* iwl_trans_pcie_wait_txq_empty: its overflow_tx and wr_ptr

ringVars == <<read_ptr, write_ptr, entries>>
stopVars == <<queue_stopped, sw_stopped>>
callVars == <<pc, room, segs>>
resendVars == <<overflow_skbs, resent>>
flushVars == <<fpc, fov, fwr>>
endVars == <<accepted, out, failed>>
vars == <<queue_used, ringVars, overflow_q, overflow_tx, stopVars, lock,
          callVars, resendVars, endVars, flushVars>>

-----------------------------------------------------------------------------
\* Slip: the low mark is the whole window.
LowMark_Window == N - 1

LowMark == IF N \div 4 < 4 THEN 4 ELSE N \div 4

HighMark == IF N \div 8 < 2 THEN 2 ELSE N \div 8

Inc(i) == (i + 1) % N
Dec(i) == (i - 1) % N

\* iwl_queue_space; one slot is kept back, for read_ptr = write_ptr is empty.
Space(r, w) == (N - 1) - ((w - r) % N)

\* Slip: the device's index is not checked.
InUse_Unchecked(i) == TRUE

\* iwl_queue_used
InUse(i) ==
    IF write_ptr >= read_ptr
    THEN read_ptr <= i /\ i < write_ptr
    ELSE ~(i < read_ptr /\ i >= write_ptr)

CanLock == Locked => lock = NoOwner

Init ==
    /\ queue_used = FALSE
    /\ read_ptr = 0 /\ write_ptr = 0
    /\ entries = [i \in Slots |-> NoFrame]
    /\ overflow_q = <<>> /\ overflow_tx = FALSE
    /\ queue_stopped = FALSE /\ sw_stopped = FALSE
    /\ lock = NoOwner
    /\ pc = [t \in Callers |-> "idle"]
    /\ room = [t \in Callers |-> 0]
    /\ segs = 0
    /\ overflow_skbs = <<>> /\ resent = NoFrame
    /\ accepted = 0 /\ out = {} /\ failed = {}
    /\ fpc = "off" /\ fov = FALSE /\ fwr = 0

-----------------------------------------------------------------------------
(* iwl_trans_pcie_tx                                                       *)

\* The frame a call is made for: one the reclaimer resends, or the sender's next.
Frame(t) == IF t = Reclaimer THEN resent ELSE accepted + 1

\* The op mode finds the queue allocated and not stopped, takes its next frame
\* and calls iwl_trans_tx for each of the n segments it cuts it into
\* (iwl_mvm_tx_skb_sta).  It sends nothing while it flushes the queue.
Send(n) ==
    /\ pc[Sender] = "idle"
    /\ queue_used /\ ~sw_stopped /\ fpc = "off"
    /\ accepted + n <= MaxFrames
    /\ segs' = n
    /\ pc' = [pc EXCEPT ![Sender] = "tx"]
    /\ UNCHANGED <<queue_used, ringVars, overflow_q, overflow_tx, stopVars, lock,
                   room, resendVars, endVars, flushVars>>

\* Slip: the error path leaves the lock locked.
Return_Locked(t, taken) ==
    /\ segs' = IF t = Reclaimer THEN segs ELSE IF taken THEN segs - 1 ELSE 0
    /\ pc' = [pc EXCEPT ![t] = IF t = Reclaimer THEN "resend"
                               ELSE IF segs' > 0 THEN "tx" ELSE "idle"]
    /\ room' = [room EXCEPT ![t] = 0]
    /\ resent' = IF t = Reclaimer THEN NoFrame ELSE resent
    /\ lock' = IF lock = t /\ taken THEN NoOwner ELSE lock

\* The call returns; the sender goes on with its next segment unless this one
\* was refused.
Return(t, taken) ==
    /\ segs' = IF t = Reclaimer THEN segs ELSE IF taken THEN segs - 1 ELSE 0
    /\ pc' = [pc EXCEPT ![t] = IF t = Reclaimer THEN "resend"
                               ELSE IF segs' > 0 THEN "tx" ELSE "idle"]
    /\ room' = [room EXCEPT ![t] = 0]
    /\ resent' = IF t = Reclaimer THEN NoFrame ELSE resent
    /\ lock' = IF lock = t THEN NoOwner ELSE lock

Accept(t) ==
    /\ accepted' = IF t = Reclaimer THEN accepted ELSE accepted + 1
    /\ Return(t, TRUE)

\* Take the lock and look at the space.
TxSpace(t) ==
    /\ pc[t] = "tx"
    /\ queue_used
    /\ CanLock
    /\ lock' = t
    /\ room' = [room EXCEPT ![t] = Space(read_ptr, write_ptr)]
    /\ pc' = [pc EXCEPT ![t] =
                 IF Space(read_ptr, write_ptr) < HighMark THEN "stop" ELSE "put"]
    /\ UNCHANGED <<queue_used, ringVars, overflow_q, overflow_tx, stopVars, segs,
                   resendVars, endVars, flushVars>>

\* iwl_stop_queue: test_and_set_bit ...
TxStop(t) ==
    /\ pc[t] = "stop"
    /\ queue_stopped' = TRUE
    /\ pc' = [pc EXCEPT ![t] = IF queue_stopped THEN "put" ELSE "full"]
    /\ UNCHANGED <<queue_used, ringVars, overflow_q, overflow_tx, sw_stopped, lock,
                   room, segs, resendVars, endVars, flushVars>>

\* ... and, for the one who set it, iwl_op_mode_queue_full.
TxFull(t) ==
    /\ pc[t] = "full"
    /\ sw_stopped' = TRUE
    /\ pc' = [pc EXCEPT ![t] = "put"]
    /\ UNCHANGED <<queue_used, ringVars, overflow_q, overflow_tx, queue_stopped, lock,
                   room, segs, resendVars, endVars, flushVars>>

NoRoom(t) == room[t] < HighMark /\ room[t] < 3

\* No room: keep the frame off the ring.
TxOverflow(t) ==
    /\ pc[t] = "put" /\ NoRoom(t)
    /\ overflow_q' = Append(overflow_q, Frame(t))
    /\ Accept(t)
    /\ UNCHANGED <<queue_used, ringVars, overflow_tx, stopVars, overflow_skbs, out,
                   failed, flushVars>>

\* Fill the entry at write_ptr and move on.
TxPut(t) ==
    /\ pc[t] = "put" /\ ~NoRoom(t)
    /\ entries' = [entries EXCEPT ![write_ptr] = Frame(t)]
    /\ write_ptr' = Inc(write_ptr)
    /\ Accept(t)
    /\ UNCHANGED <<queue_used, read_ptr, overflow_q, overflow_tx, stopVars,
                   overflow_skbs, out, failed, flushVars>>

\* Slip: the index is moved on before the descriptor is known to be good.
TxError_Counted(t) ==
    /\ pc[t] = "tx" \/ (pc[t] = "put" /\ ~NoRoom(t))
    /\ entries' = IF pc[t] = "put" THEN [entries EXCEPT ![write_ptr] = Gone] ELSE entries
    /\ write_ptr' = IF pc[t] = "put" THEN Inc(write_ptr) ELSE write_ptr
    /\ failed' = IF t = Reclaimer THEN failed \cup {resent} ELSE failed
    /\ Return(t, FALSE)
    /\ UNCHANGED <<queue_used, read_ptr, overflow_q, overflow_tx, stopVars,
                   overflow_skbs, accepted, out, flushVars>>

\* The queue is not in use, or the frame cannot be made linear; or it does not fit
\* in a descriptor (out_err), and then its slot has it already and keeps it.  The
\* op mode frees a frame of its own, with the segments left of it; nobody looks at
\* what reclaim's calls return.
TxError(t) ==
    /\ \/ pc[t] = "tx" /\ UNCHANGED entries
       \/ /\ pc[t] = "put" /\ ~NoRoom(t)
          /\ entries' = [entries EXCEPT ![write_ptr] = Gone]
    /\ failed' = IF t = Reclaimer THEN failed \cup {resent} ELSE failed
    /\ Return(t, FALSE)
    /\ UNCHANGED <<queue_used, read_ptr, write_ptr, overflow_q, overflow_tx, stopVars,
                   overflow_skbs, accepted, out, flushVars>>

-----------------------------------------------------------------------------
(* iwl_trans_pcie_reclaim, which is not reentrant                          *)

\* A step of the reclaimer that starts no transmission leaves these alone.
ReclaimerOnly == UNCHANGED <<queue_used, room, segs, accepted, failed, flushVars>>

\* The device has sent everything up to ssn: hand those frames back.  When that
\* leaves enough room in a stopped queue, take the overflow queue and go on
\* without the lock.
Reclaim(ssn) ==
    /\ pc[Reclaimer] = "idle"
    /\ CanLock
    /\ queue_used
    /\ read_ptr # ssn /\ InUse(Dec(ssn))
    /\ LET freed == {i \in Slots : (i - read_ptr) % N < (ssn - read_ptr) % N} IN
       /\ out' = out \cup {entries[i] : i \in freed}
       /\ entries' = [i \in Slots |-> IF i \in freed THEN NoFrame ELSE entries[i]]
    /\ read_ptr' = ssn
    /\ IF Space(ssn, write_ptr) > LowMark /\ queue_stopped
       THEN /\ overflow_skbs' = overflow_q
            /\ overflow_q' = <<>>
            /\ overflow_tx' = TRUE
            /\ pc' = [pc EXCEPT ![Reclaimer] = "resend"]
       ELSE UNCHANGED <<overflow_skbs, overflow_q, overflow_tx, pc>>
    /\ ReclaimerOnly /\ UNCHANGED <<write_ptr, stopVars, lock, resent>>

\* iwl_trans_tx for each frame it took off ...
Resend ==
    /\ pc[Reclaimer] = "resend" /\ overflow_skbs # <<>>
    /\ resent' = Head(overflow_skbs)
    /\ overflow_skbs' = Tail(overflow_skbs)
    /\ pc' = [pc EXCEPT ![Reclaimer] = "tx"]
    /\ ReclaimerOnly
    /\ UNCHANGED <<ringVars, overflow_q, overflow_tx, stopVars, lock, out>>

\* ... and then iwl_wake_queue if there is room: test_and_clear_bit ...
Settle ==
    /\ pc[Reclaimer] = "resend" /\ overflow_skbs = <<>>
    /\ LET wake == Space(read_ptr, write_ptr) > LowMark IN
       /\ queue_stopped' = (queue_stopped /\ ~wake)
       /\ pc' = [pc EXCEPT ![Reclaimer] =
                    IF queue_stopped /\ wake THEN "wake" ELSE "unwind"]
    /\ ReclaimerOnly
    /\ UNCHANGED <<ringVars, overflow_q, overflow_tx, resendVars, sw_stopped,
                   lock, out>>

\* Slip: the op mode is not told.
Wake_Silent ==
    /\ pc[Reclaimer] = "wake"
    /\ pc' = [pc EXCEPT ![Reclaimer] = "unwind"]
    /\ ReclaimerOnly
    /\ UNCHANGED <<ringVars, overflow_q, overflow_tx, resendVars, stopVars, lock, out>>

\* ... and iwl_op_mode_queue_not_full.
Wake ==
    /\ pc[Reclaimer] = "wake"
    /\ sw_stopped' = FALSE
    /\ pc' = [pc EXCEPT ![Reclaimer] = "unwind"]
    /\ ReclaimerOnly
    /\ UNCHANGED <<ringVars, overflow_q, overflow_tx, resendVars, queue_stopped,
                   lock, out>>

\* Slip: overflow_tx stays set.
Unwind_Flagged ==
    /\ pc[Reclaimer] = "unwind"
    /\ CanLock
    /\ pc' = [pc EXCEPT ![Reclaimer] = "idle"]
    /\ ReclaimerOnly
    /\ UNCHANGED <<ringVars, overflow_q, overflow_tx, resendVars, stopVars, lock, out>>

Unwind ==
    /\ pc[Reclaimer] = "unwind"
    /\ CanLock
    /\ overflow_tx' = FALSE
    /\ pc' = [pc EXCEPT ![Reclaimer] = "idle"]
    /\ ReclaimerOnly
    /\ UNCHANGED <<ringVars, overflow_q, resendVars, stopVars, lock, out>>

-----------------------------------------------------------------------------
(* iwl_trans_pcie_wait_txq_empty.  Its timeout never comes: jiffies is a    *)
(* constant of the shim.                                                    *)

\* Slip: frames in the hands of a reclaim are forgotten.
Overflowing_QueueOnly == overflow_q # <<>>

Overflowing == overflow_tx \/ overflow_q # <<>>

FlushOnly == UNCHANGED <<ringVars, overflow_q, overflow_tx, lock, callVars,
                         resendVars, endVars>>

\* The op mode has held back its frames and waited for those in its hands.
FlushStart ==
    /\ fpc = "off" /\ queue_used
    /\ pc[Sender] = "idle"
    /\ CanLock
    /\ fov' = Overflowing
    /\ fpc' = "read"
    /\ FlushOnly /\ UNCHANGED <<queue_used, stopVars, fwr>>

FlushRead ==
    /\ fpc = "read"
    /\ fwr' = write_ptr
    /\ fpc' = "test"
    /\ FlushOnly /\ UNCHANGED <<queue_used, stopVars, fov>>

\* The head of the loop: out of it when the queue is empty, or with a warning
\* when write_ptr has moved without overflow; or sleep.
FlushTest ==
    /\ fpc = "test"
    /\ LET empty == read_ptr = write_ptr /\ ~fov
           moved == write_ptr # fwr /\ ~fov
       IN fpc' = IF empty THEN "flushed" ELSE IF moved THEN "warned" ELSE "sleep"
    /\ fwr' = IF fpc' = "sleep" THEN write_ptr ELSE fwr
    /\ FlushOnly /\ UNCHANGED <<queue_used, stopVars, fov>>

FlushSample ==
    /\ fpc = "sleep"
    /\ CanLock
    /\ fov' = Overflowing
    /\ fpc' = "test"
    /\ FlushOnly /\ UNCHANGED <<queue_used, stopVars, fwr>>

\* The op mode carries on, whatever the flush returned.
FlushEnd ==
    /\ fpc \in {"flushed", "warned"}
    /\ fpc' = "off" /\ fov' = FALSE /\ fwr' = 0
    /\ FlushOnly /\ UNCHANGED <<queue_used, stopVars>>

-----------------------------------------------------------------------------
(* iwl_trans_pcie_txq_enable and iwl_trans_pcie_txq_disable                 *)

Enable(ssn) ==
    /\ ~queue_used
    /\ queue_used' = TRUE
    /\ read_ptr' = ssn /\ write_ptr' = ssn
    /\ UNCHANGED <<entries, overflow_q, overflow_tx, stopVars, lock, callVars,
                   resendVars, endVars, flushVars>>

\* A station's queue is disabled after a flush that succeeded (iwl_mvm_rm_sta);
\* what is still in it, iwl_pcie_txq_unmap frees.
Disable ==
    /\ fpc = "flushed"
    /\ CanLock
    /\ queue_used' = FALSE
    /\ read_ptr' = write_ptr
    /\ entries' = [i \in Slots |-> IF InUse(i) THEN NoFrame ELSE entries[i]]
    /\ overflow_q' = <<>>
    /\ queue_stopped' = FALSE
    /\ sw_stopped' = (sw_stopped /\ ~queue_stopped)
    /\ fpc' = "off" /\ fov' = FALSE /\ fwr' = 0
    /\ UNCHANGED <<write_ptr, overflow_tx, lock, callVars, resendVars, endVars>>

-----------------------------------------------------------------------------
TxStep(t) ==
    TxSpace(t) \/ TxStop(t) \/ TxFull(t) \/ TxOverflow(t) \/ TxPut(t) \/ TxError(t)

ReclaimStep == (\E ssn \in Slots : Reclaim(ssn)) \/ Resend \/ Settle \/ Wake \/ Unwind

FlushStep == FlushRead \/ FlushTest \/ FlushSample \/ FlushEnd

Next ==
    \/ \E n \in 1 .. MaxSegs : Send(n)
    \/ \E t \in Callers : TxStep(t)
    \/ ReclaimStep
    \/ FlushStart \/ FlushStep
    \/ Disable \/ \E ssn \in Starts : Enable(ssn)

\* Calls return, and the device reports what it sends.
Fairness ==
    /\ \A t \in Callers : WF_vars(TxStep(t))
    /\ WF_vars(ReclaimStep) /\ WF_vars(FlushStep)

Spec == Init /\ [][Next]_vars
FairSpec == Spec /\ Fairness

-----------------------------------------------------------------------------
InRing == (write_ptr - read_ptr) % N

\* The frames on the ring, oldest first.
OnRing == [i \in 1 .. InRing |-> entries[(read_ptr + i - 1) % N]]

\* Everything accepted and not yet reclaimed: what overflowed again while the
\* overflow queue is being sent comes before what has not been sent yet.
InTransit ==
    LET sending == IF resent = NoFrame THEN <<>> ELSE <<resent>>
    IN  OnRing \o overflow_q \o sending \o overflow_skbs

\* Every variable has its type, and the lock is held exactly by a call inside
\* its locked section.
TypeOK ==
    /\ queue_used \in BOOLEAN /\ overflow_tx \in BOOLEAN
    /\ queue_stopped \in BOOLEAN /\ sw_stopped \in BOOLEAN
    /\ read_ptr \in Slots /\ write_ptr \in Slots
    /\ entries \in [Slots -> Frames \cup {NoFrame, Gone}]
    /\ overflow_q \in Seq(Frames) /\ overflow_skbs \in Seq(Frames)
    /\ pc \in [Callers -> {"idle", "tx", "stop", "full", "put",
                            "resend", "wake", "unwind"}]
    /\ resent \in Frames \cup {NoFrame}
    /\ room \in [Callers -> Nat] /\ segs \in 0 .. MaxSegs
    /\ \A t \in Callers : lock = t <=> pc[t] \in {"stop", "full", "put"}
    /\ accepted \in 0 .. MaxFrames /\ out \subseteq Frames /\ failed \subseteq Frames
    /\ fpc \in {"off", "read", "test", "sleep", "flushed", "warned"}
    /\ fov \in BOOLEAN /\ fwr \in Slots

\* Each slot from read_ptr up to write_ptr holds a frame that is still to be
\* reported: neither nothing nor what a failed call has left in a slot, which stays
\* outside.  (Of an entry without an skb reclaim would free nothing, and unmap would
\* loop for ever; of one left behind, they would free a frame a second time.)  Two
\* slots are always free: read_ptr = write_ptr means empty.  And no frame waits on
\* overflow_q with the transport's stop bit clear: reclaim looks there only when
\* the bit is set.
RingFilled ==
    /\ \A i \in Slots : (i - read_ptr) % N < InRing => entries[i] \in Frames
    /\ InRing <= N - 2
    /\ overflow_q # <<>> => queue_stopped

\* The op mode of a sender of single segments believes what the transport's bit
\* says, except between the two halves of a stop or a wake: a bit cleared behind
\* a stop call would leave the op mode stopped for good.
OpModeAgrees ==
    sw_stopped = queue_stopped \/ \E t \in Callers : pc[t] \in {"full", "wake"}

\* The queue is a pipe: frames are reclaimed in the order in which they were
\* accepted, over stops, overflows and resends, and each is reclaimed once: for a
\* sender of single segments.  ("We stopped tx, so we can't have tx as well" does
\* not hold of further segments of a frame, which may enter iwl_trans_pcie_tx while
\* reclaim works on the overflow queue without the lock.)
Pipe == INSTANCE TxPipe WITH pipe <- InTransit
RefinesTxPipe == Pipe!Spec

\* "[Everything] is now empty": when the flush returns 0, no frame is on the
\* ring, on the overflow queue, or in the hands of a reclaim between the two.
FlushedEmpty == fpc = "flushed" => InTransit = <<>>

\* A stopped queue is woken: "if free space become > high mark, Tx queue
\* resumed".
Resumed == sw_stopped ~> ~sw_stopped

\* A flush returns, though frames it waits for may still be on the overflow
\* queue when it starts.
FlushReturns == fpc = "read" ~> fpc \in {"flushed", "warned"}
=============================================================================

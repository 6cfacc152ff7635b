-------------------------------- MODULE Itxq --------------------------------
(***************************************************************************)
(* The frames of one station and tid on their way from mac80211's queue to  *)
(* the transport (mvm/mac80211.c: iwl_mvm_mac_wake_tx_queue and             *)
(* iwl_mvm_mac_itxq_xmit).  Three kinds of callers take frames out: those   *)
(* who put one in, the work that allocates the transport queue              *)
(* (mvm/sta.c), and the transport when it resumes (mvm/ops.c).              *)
(*                                                                          *)
(* None of them holds a lock that another one needs.  tx_request is to let  *)
(* one of them do the work of all; the build's atomic_fetch_add_unless      *)
(* (include/net/compat.h) neither adds nor reports.                         *)
(***************************************************************************)
EXTENDS Naturals, Sequences, FiniteSets

CONSTANTS
    Senders,        \* the threads that send frames
    Worker,         \* the one that runs add_stream_wk
    Transport,      \* the one that stops and resumes the queue
    Counts,         \* whether atomic_fetch_add_unless does what it is to do
    Width,          \* the number of values of tx_request
    MaxFrames,      \* bound: frames sent
    MaxStops,       \* bound: stops by the transport
    MaxFailures     \* bound: allocations that fail

ASSUME ItxqAssumption ==
    /\ Worker \notin Senders /\ Transport \notin Senders \cup {Worker}
    /\ Counts \in BOOLEAN
    /\ Width \in Nat /\ Width > 2
    /\ MaxFrames \in Nat /\ MaxStops \in Nat /\ MaxFailures \in Nat

Callers == Senders \cup {Worker, Transport}
Frames == 1 .. MaxFrames
None == 0

VARIABLES
    txq,            \* the frames in mac80211's queue
    allocated,      \* mvmtxq->txq_id # IWL_MVM_INVALID_QUEUE
    listed,         \* how often mvmtxq->list is on add_stream_txqs
    work,           \* add_stream_wk is queued
    stopped,        \* mvmtxq->stopped
    tx_request,     \* mvmtxq->tx_request
    pc, skb, count, \* each caller: where it is, the frame in its hand, the count it read
    sent, dropped,  \* history: frames given to the transport queue, and to none
    frames, stops, failures \* counts, for the bounds

queueVars == <<txq, allocated, listed, work, stopped, tx_request>>
historyVars == <<sent, dropped>>
countVars == <<frames, stops, failures>>
vars == <<queueVars, pc, skb, count, historyVars, countVars>>

Init ==
    /\ txq = <<>>
    /\ allocated = FALSE /\ listed = 0 /\ work = FALSE
    /\ stopped = FALSE /\ tx_request = 0
    /\ pc = [c \in Callers |-> "idle"]
    /\ skb = [c \in Callers |-> None]
    /\ count = [c \in Callers |-> 0]
    /\ sent = <<>> /\ dropped = {}
    /\ frames = 0 /\ stops = 0 /\ failures = 0

At(c, place) == pc' = [pc EXCEPT ![c] = place]

Idle(c) == IF c = Worker THEN "loop" ELSE "idle"

-----------------------------------------------------------------------------
(* iwl_mvm_mac_wake_tx_queue                                               *)

\* mac80211 queues a frame, and wakes the queue.
Enqueue(s) ==
    /\ pc[s] = "idle" /\ frames < MaxFrames
    /\ frames' = frames + 1
    /\ txq' = Append(txq, frames + 1)
    /\ At(s, "wake")
    /\ UNCHANGED <<allocated, listed, work, stopped, tx_request, skb, count, historyVars, stops, failures>>

WakeStep == UNCHANGED <<queueVars, skb, count, historyVars, countVars>>

\* Slip: a queue that is not allocated is taken for one that is.
WakeTest_Unasked(s) == pc[s] = "wake" /\ At(s, "check") /\ WakeStep

\* Is the queue allocated?
WakeTest(s) == pc[s] = "wake" /\ At(s, IF allocated THEN "check" ELSE "test") /\ WakeStep

\* Allocated: the frames are deferred while the allocation is under way.
WakeCheck(s) ==
    pc[s] = "check" /\ At(s, IF listed = 0 THEN "request" ELSE "idle") /\ WakeStep

\* Not allocated: it may be listed for allocation already.
WakeListed(s) == pc[s] = "test" /\ At(s, IF listed = 0 THEN "add" ELSE "idle") /\ WakeStep

\* Slip: the work is not scheduled.
WakeAdd_Silent(s) ==
    /\ pc[s] = "add"
    /\ listed' = listed + 1
    /\ At(s, "idle")
    /\ UNCHANGED <<txq, allocated, work, stopped, tx_request, skb, count, historyVars, countVars>>

\* list_add_tail and schedule_work.
WakeAdd(s) ==
    /\ pc[s] = "add"
    /\ listed' = listed + 1
    /\ work' = TRUE
    /\ At(s, "idle")
    /\ UNCHANGED <<txq, allocated, stopped, tx_request, skb, count, historyVars, countVars>>

-----------------------------------------------------------------------------
(* iwl_mvm_add_new_dqa_stream_wk                                           *)

WorkStart ==
    /\ work /\ pc[Worker] = "idle"
    /\ work' = FALSE
    /\ At(Worker, "loop")
    /\ UNCHANGED <<txq, allocated, listed, stopped, tx_request, skb, count, historyVars, countVars>>

WorkEnd ==
    /\ pc[Worker] = "loop" /\ listed = 0
    /\ At(Worker, "idle")
    /\ WakeStep

\* iwl_mvm_sta_alloc_queue sets txq_id ...
WorkAlloc ==
    /\ pc[Worker] = "loop" /\ listed > 0
    /\ allocated' = TRUE
    /\ At(Worker, "delete")
    /\ UNCHANGED <<txq, listed, work, stopped, tx_request, skb, count, historyVars, countVars>>

\* There is no free queue, or the firmware does not answer: txq_id is invalid, and
\* the result is not looked at.
WorkAllocFails ==
    /\ pc[Worker] = "loop" /\ listed > 0 /\ failures < MaxFailures
    /\ failures' = failures + 1
    /\ allocated' = FALSE
    /\ At(Worker, "delete")
    /\ UNCHANGED <<txq, listed, work, stopped, tx_request, skb, count, historyVars, frames, stops>>

\* ... then the entry is taken off the list, and the deferred frames go out.
WorkDelete ==
    /\ pc[Worker] = "delete"
    /\ listed' = listed - 1
    /\ At(Worker, "request")
    /\ UNCHANGED <<txq, allocated, work, stopped, tx_request, skb, count, historyVars, countVars>>

-----------------------------------------------------------------------------
(* iwl_mvm_queue_state_change                                              *)

Stop ==
    /\ pc[Transport] = "idle" /\ allocated /\ ~stopped /\ stops < MaxStops
    /\ stopped' = TRUE
    /\ stops' = stops + 1
    /\ UNCHANGED <<txq, allocated, listed, work, tx_request, pc, skb, count, historyVars, frames, failures>>

\* Slip: the queue is not looked at.
Resume_Silent ==
    /\ pc[Transport] = "idle" /\ stopped
    /\ stopped' = FALSE
    /\ UNCHANGED <<txq, allocated, listed, work, tx_request, pc, skb, count, historyVars, countVars>>

Resume ==
    /\ pc[Transport] = "idle" /\ stopped
    /\ stopped' = FALSE
    /\ At(Transport, "request")
    /\ UNCHANGED <<txq, allocated, listed, work, tx_request, skb, count, historyVars, countVars>>

-----------------------------------------------------------------------------
(* iwl_mvm_mac_itxq_xmit                                                   *)

\* atomic_fetch_add_unless(&tx_request, 1, 2)
TxRequest(c) ==
    /\ pc[c] = "request"
    /\ tx_request' = IF Counts /\ tx_request # 2 THEN (tx_request + 1) % Width ELSE tx_request
    /\ At(c, IF Counts /\ tx_request # 0 THEN Idle(c) ELSE "drain")
    /\ UNCHANGED <<txq, allocated, listed, work, stopped, skb, count, historyVars, countVars>>

\* Slip: the frame stays in the queue.
Dequeue_Peek(c) ==
    /\ pc[c] = "drain" /\ ~stopped /\ txq # <<>>
    /\ skb' = [skb EXCEPT ![c] = Head(txq)]
    /\ At(c, "tx")
    /\ UNCHANGED <<queueVars, count, historyVars, countVars>>

\* ieee80211_tx_dequeue, unless the queue is stopped.
Dequeue(c) ==
    /\ pc[c] = "drain" /\ ~stopped /\ txq # <<>>
    /\ skb' = [skb EXCEPT ![c] = Head(txq)]
    /\ txq' = Tail(txq)
    /\ At(c, "tx")
    /\ UNCHANGED <<allocated, listed, work, stopped, tx_request, count, historyVars, countVars>>

\* iwl_mvm_tx_skb: a frame for which there is no queue is dropped.
Tx(c) ==
    /\ pc[c] = "tx"
    /\ IF allocated THEN sent' = Append(sent, skb[c]) /\ UNCHANGED dropped
                    ELSE dropped' = dropped \cup {skb[c]} /\ UNCHANGED sent
    /\ skb' = [skb EXCEPT ![c] = None]
    /\ At(c, "drain")
    /\ UNCHANGED <<queueVars, count, countVars>>

Drained(c) ==
    /\ pc[c] = "drain" /\ (stopped \/ txq = <<>>)
    /\ count' = [count EXCEPT ![c] = tx_request]
    /\ At(c, "dec")
    /\ UNCHANGED <<queueVars, skb, historyVars, countVars>>

\* The count runs below zero.
Decremented(c) == (count[c] + Width - 1) % Width

\* atomic_dec_return, plain C: read, write, and the result is what was written or
\* what is read once more.
TxDone(c) ==
    /\ pc[c] = "dec"
    /\ tx_request' = Decremented(c)
    /\ count' = [count EXCEPT ![c] = 0]
    /\ \/ At(c, IF Decremented(c) = 0 THEN Idle(c) ELSE "drain")
       \/ At(c, "reread")
    /\ UNCHANGED <<txq, allocated, listed, work, stopped, skb, historyVars, countVars>>

TxReread(c) ==
    /\ pc[c] = "reread"
    /\ At(c, IF tx_request = 0 THEN Idle(c) ELSE "drain")
    /\ UNCHANGED <<queueVars, skb, count, historyVars, countVars>>

-----------------------------------------------------------------------------
WakeTxQueue(s) == WakeTest(s) \/ WakeCheck(s) \/ WakeListed(s) \/ WakeAdd(s)

Work == WorkEnd \/ WorkAlloc \/ WorkAllocFails \/ WorkDelete

Xmit(c) == TxRequest(c) \/ Dequeue(c) \/ Tx(c) \/ Drained(c) \/ TxDone(c) \/ TxReread(c)

\* No further frame need come.
Quiet ==
    /\ \A c \in Callers : pc[c] = "idle"
    /\ UNCHANGED vars

Next ==
    \/ \E s \in Senders : Enqueue(s) \/ WakeTxQueue(s)
    \/ WorkStart \/ Work \/ Stop \/ Resume
    \/ \E c \in Callers : Xmit(c)
    \/ Quiet

\* A call that has begun goes on, a work that is queued runs (its workqueue is
\* drained as long as it is used), and the transport, which reclaims what it has
\* sent, resumes a queue that it has stopped.
Fairness ==
    /\ \A s \in Senders : WF_vars(WakeTxQueue(s))
    /\ \A c \in Callers : WF_vars(Xmit(c))
    /\ WF_vars(WorkStart) /\ WF_vars(Work) /\ WF_vars(Resume)

Spec == Init /\ [][Next]_vars
FairSpec == Spec /\ Fairness

-----------------------------------------------------------------------------
InQueue == {txq[i] : i \in DOMAIN txq}
InHand == {skb[c] : c \in Callers} \ {None}
Takers == {c \in Callers : pc[c] \in {"drain", "tx", "dec", "reread"}}

\* Every variable has its type, and a frame is in one place.
TypeOK ==
    /\ txq \in Seq(Frames) /\ sent \in Seq(Frames)
    /\ dropped \subseteq Frames
    /\ {allocated, work, stopped} \subseteq BOOLEAN
    /\ listed \in Nat
    /\ tx_request \in 0 .. Width - 1
    /\ pc \in [Callers -> {"idle", "wake", "check", "test", "add", "loop", "delete",
                           "request", "drain", "tx", "dec", "reread"}]
    /\ skb \in [Callers -> Frames \cup {None}]
    /\ count \in [Callers -> 0 .. Width - 1]
    /\ Len(txq) + Cardinality(InHand) + Len(sent) + Cardinality(dropped) = frames

\* "should defer the frame": no frame is taken out for a queue that has not been
\* allocated, where it would be dropped, unless its allocation has failed.
NoneDropped == dropped # {} => failures > 0

\* "to not leave any TX hanging in the queue until the next TX invocation (which
\* may not even happen)": a frame that is queued goes out, whatever the stops,
\* the allocation and the other callers do meanwhile.  And a call that is alone
\* with the count comes back: though the count may have been left anywhere by the
\* calls it crossed, it goes round no more than Width times.
NoneHangs ==
    /\ \A f \in Frames : f \in InQueue ~> f \notin InQueue
    /\ \A c \in Callers : ~<>[](Takers = {c})
=============================================================================

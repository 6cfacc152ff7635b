--------------------------- MODULE TxQueueProofs ---------------------------
(***************************************************************************)
(* A data queue of the PCIe transport, for any size of its ring and any     *)
(* number of frames: what a flush promises, which holds whether or not the  *)
(* lock excludes; what the lock protects; and, for a sender of frames of    *)
(* one segment, that the queue is a pipe.                                   *)
(***************************************************************************)
EXTENDS TxQueue, TLAPS, SequenceTheorems

-----------------------------------------------------------------------------
(* The ring's arithmetic                                                    *)

\* What TxQueueAssumption says of the ring and of its marks.
LEMMA Ring ==
    /\ N \in Nat /\ N >= 8
    /\ LowMark \in Nat /\ HighMark \in Nat
    /\ 2 <= HighMark /\ HighMark < LowMark /\ LowMark < N
    /\ Slots = 0 .. N - 1
BY TxQueueAssumption DEF LowMark, HighMark, Slots

\* The remainder of what is at most one turn of the ring away.
LEMMA Turn ==
    \A x \in Int : -N <= x /\ x < 2 * N =>
        x % N = IF x < 0 THEN x + N ELSE IF x < N THEN x ELSE x - N
<1> SUFFICES ASSUME NEW x \in Int, -N <= x, x < 2 * N
             PROVE  x % N = IF x < 0 THEN x + N ELSE IF x < N THEN x ELSE x - N
  OBVIOUS
<1>1. PICK d \in Int : d = x \div N
  BY Ring
<1>2. PICK r \in 0 .. N - 1 : r = x % N
  BY Ring
<1>3. x = N * d + r
  BY <1>1, <1>2, Ring
<1>4. d \in -1 .. 1
  <2>1. CASE d >= 2
    <3>1. N * d >= 2 * N
      <4>1. N * d = 2 * N + N * (d - 2) /\ N * (d - 2) >= 0
        BY <2>1, Ring
      <4> QED BY <4>1, Ring
    <3> QED BY <1>3, <3>1, Ring
  <2>2. CASE d <= -2
    <3>1. N * d <= -2 * N
      <4>1. N * d = -2 * N - N * (-2 - d) /\ N * (-2 - d) >= 0
        BY <2>2, Ring
      <4> QED BY <4>1, Ring
    <3> QED BY <1>3, <3>1, Ring
  <2> QED BY <2>1, <2>2
<1>5. CASE d = 1
  BY <1>2, <1>3, <1>5, Ring
<1>6. CASE d = 0
  BY <1>2, <1>3, <1>6, Ring
<1>7. CASE d = -1
  BY <1>2, <1>3, <1>7, Ring
<1> QED BY <1>4, <1>5, <1>6, <1>7

\* The next slot, and the one before.
LEMMA Neighbours ==
    ASSUME NEW i \in Slots
    PROVE  /\ Inc(i) = (IF i = N - 1 THEN 0 ELSE i + 1) /\ Inc(i) \in Slots
           /\ Dec(i) = (IF i = 0 THEN N - 1 ELSE i - 1) /\ Dec(i) \in Slots
<1>1. Inc(i) = IF i = N - 1 THEN 0 ELSE i + 1
  <2>1. PICK x : x = i + 1
    OBVIOUS
  <2>2. x \in Int /\ -N <= x /\ x < 2 * N
    BY <2>1, Ring
  <2>3. x % N = IF x < 0 THEN x + N ELSE IF x < N THEN x ELSE x - N
    BY <2>2, Turn
  <2> QED BY <2>1, <2>2, <2>3, Ring DEF Inc
<1>2. Dec(i) = IF i = 0 THEN N - 1 ELSE i - 1
  <2>1. PICK x : x = i - 1
    OBVIOUS
  <2>2. x \in Int /\ -N <= x /\ x < 2 * N
    BY <2>1, Ring
  <2>3. x % N = IF x < 0 THEN x + N ELSE IF x < N THEN x ELSE x - N
    BY <2>2, Turn
  <2> QED BY <2>1, <2>2, <2>3, Ring DEF Dec
<1> QED BY <1>1, <1>2, Ring

\* How far it is from slot r on to slot w.
Ahead(r, w) == (w - r) % N

LEMMA Distance ==
    ASSUME NEW r \in Slots, NEW w \in Slots
    PROVE  /\ Ahead(r, w) = (IF w >= r THEN w - r ELSE w - r + N)
           /\ Ahead(r, w) \in Slots /\ Space(r, w) = N - 1 - Ahead(r, w) /\ Space(r, w) \in Slots
<1>1. PICK x : x = w - r
  OBVIOUS
<1>2. x \in Int /\ -N <= x /\ x < 2 * N /\ x < N
  BY <1>1, Ring
<1>3. x % N = IF x < 0 THEN x + N ELSE IF x < N THEN x ELSE x - N
  BY <1>2, Turn
<1>4. Ahead(r, w) = IF w >= r THEN w - r ELSE w - r + N
  BY <1>1, <1>2, <1>3, Ring DEF Ahead
<1>5. Space(r, w) = N - 1 - Ahead(r, w)
  BY DEF Space, Ahead
<1> QED BY <1>4, <1>5, Ring

-----------------------------------------------------------------------------
(* What holds of the calls, and of a flush, whether or not the lock excludes *)

\* A caller is inside iwl_trans_pcie_tx; inside its locked section.
TxPcs == {"tx", "stop", "full", "put"}
HeldPcs == {"stop", "full", "put"}

Types ==
    /\ queue_used \in BOOLEAN /\ overflow_tx \in BOOLEAN
    /\ queue_stopped \in BOOLEAN /\ sw_stopped \in BOOLEAN
    /\ read_ptr \in Slots /\ write_ptr \in Slots
    /\ entries \in [Slots -> Frames \cup {NoFrame, Gone}]
    /\ overflow_q \in Seq(Frames) /\ overflow_skbs \in Seq(Frames)
    /\ pc \in [Callers -> TxPcs \cup {"idle", "resend", "wake", "unwind"}]
    /\ resent \in Frames \cup {NoFrame}
    /\ room \in [Callers -> Nat] /\ segs \in 0 .. MaxSegs
    /\ accepted \in 0 .. MaxFrames /\ failed \subseteq Frames
    /\ fpc \in {"off", "read", "test", "sleep", "flushed", "warned"}
    /\ fov \in BOOLEAN /\ fwr \in Slots

\* No frame is off the ring.
Drained == overflow_q = <<>> /\ overflow_skbs = <<>> /\ resent = NoFrame

\* The sender sends the segments it has left, of a queue that is in use; the
\* reclaimer has the frames it has taken off the overflow queue, and says so, and
\* keeps the queue stopped until it has sent them.
CallsOK ==
    /\ pc[Sender] \in TxPcs \cup {"idle"}
    /\ pc[Sender] \in TxPcs => segs >= 1 /\ queue_used
    /\ accepted + segs <= MaxFrames
    /\ resent # NoFrame <=> pc[Reclaimer] \in TxPcs
    /\ overflow_skbs # <<>> => pc[Reclaimer] \in TxPcs \cup {"resend"}
    /\ pc[Reclaimer] \in TxPcs \/ overflow_skbs # <<>> => queue_stopped /\ queue_used
    /\ overflow_tx <=> pc[Reclaimer] # "idle"

\* A flush that has seen no overflow will see none: the sender waits for it.
FlushOK ==
    /\ fpc # "off" => pc[Sender] = "idle" /\ queue_used
    /\ fpc # "off" /\ ~fov => Drained
    /\ fpc = "flushed" => read_ptr = write_ptr /\ ~fov
    /\ ~queue_used => read_ptr = write_ptr /\ overflow_q = <<>>

FlushInv == Types /\ CallsOK /\ FlushOK

-----------------------------------------------------------------------------
(* With a lock that excludes.                                               *)

\* The lock is held by the caller in its locked section, and what it has read of
\* the space is so until it leaves it.
HolderOK(t) ==
    /\ lock = t <=> pc[t] \in HeldPcs
    /\ pc[t] \in HeldPcs => room[t] = Space(read_ptr, write_ptr)
    /\ pc[t] \in {"stop", "full"} => room[t] < HighMark
    /\ pc[t] \in {"full", "put"} /\ room[t] < HighMark => queue_stopped

LockOK == lock \in Callers \cup {NoOwner} /\ \A t \in Callers : HolderOK(t)

\* While reclaim sends the overflow queue, what overflows again finds no room,
\* and after it nothing does.
OverflowOK ==
    /\ overflow_q # <<>> => queue_stopped
    /\ pc[Reclaimer] # "idle" /\ overflow_q # <<>> =>
           Space(read_ptr, write_ptr) < HighMark /\ Space(read_ptr, write_ptr) < 3

LockInv == FlushInv /\ LockOK /\ OverflowOK /\ RingFilled /\ out \subseteq Frames

-----------------------------------------------------------------------------
(* With frames of one segment.                                              *)

\* The op mode sends only to a queue that is not stopped, and that has nothing
\* left over: the frame that stops the queue is the last one.
SingleOK ==
    /\ pc[Sender] \in TxPcs => Drained
    /\ pc[Sender] \in {"tx", "stop"} => ~queue_stopped /\ ~sw_stopped
    /\ pc[Sender] = "full" => queue_stopped /\ ~sw_stopped /\ pc[Reclaimer] # "wake"
    /\ pc[Sender] = "put" /\ queue_stopped => room[Sender] < HighMark
    /\ pc[Reclaimer] # "full"
    /\ pc[Reclaimer] = "wake" => ~queue_stopped /\ sw_stopped
    /\ pc[Sender] # "full" /\ pc[Reclaimer] # "wake" => sw_stopped = queue_stopped

\* The frames are numbered in the order in which they are accepted.
Taken == 1 .. accepted

FreshOK ==
    /\ entries \in [Slots -> Taken \cup {NoFrame, Gone}] /\ resent \in Taken \cup {NoFrame}
    /\ overflow_q \in Seq(Taken) /\ overflow_skbs \in Seq(Taken)
    /\ out \cup failed \subseteq Taken

-----------------------------------------------------------------------------
(* The flush                                                                *)

\* The frame of a call is one.
LEMMA FrameTyped ==
    ASSUME Types, CallsOK, NEW t \in Callers, pc[t] \in TxPcs PROVE Frame(t) \in Frames
<1>1. CASE t = Reclaimer
  BY <1>1 DEF Types, CallsOK, Frame
<1>2. CASE t = Sender /\ t # Reclaimer
  <2>1. segs \in Nat /\ segs >= 1 /\ accepted + segs <= MaxFrames /\ accepted \in Nat
    BY <1>2, TxQueueAssumption DEF Types, CallsOK
  <2> QED BY <1>2, <2>1, TxQueueAssumption DEF Frame, Frames
<1> QED BY <1>1, <1>2 DEF Callers

\* What a call leaves of its caller when it returns.
LEMMA ReturnEffect ==
    ASSUME FlushInv, NEW t \in Callers, pc[t] \in TxPcs, NEW taken \in BOOLEAN, Return(t, taken)
    PROVE  /\ \A u \in Callers \ {t} : pc'[u] = pc[u] /\ room'[u] = room[u]
           /\ pc' \in [Callers -> TxPcs \cup {"idle", "resend", "wake", "unwind"}]
           /\ room' \in [Callers -> Nat] /\ room'[t] = 0
           /\ t = Reclaimer => pc'[t] = "resend" /\ segs' = segs /\ resent' = NoFrame
           /\ t = Sender => /\ resent' = resent
                            /\ segs' = IF taken THEN segs - 1 ELSE 0
                            /\ pc'[t] = IF segs' > 0 THEN "tx" ELSE "idle"
           /\ segs' \in 0 .. MaxSegs
<1>1. /\ pc \in [Callers -> TxPcs \cup {"idle", "resend", "wake", "unwind"}]
      /\ room \in [Callers -> Nat] /\ segs \in 0 .. MaxSegs /\ Sender # Reclaimer
      /\ t = Sender => segs >= 1
  BY TxQueueAssumption DEF FlushInv, Types, CallsOK
<1>2. PICK p : p = IF t = Reclaimer THEN "resend" ELSE IF segs' > 0 THEN "tx" ELSE "idle"
  OBVIOUS
<1>3. p \in TxPcs \cup {"idle", "resend", "wake", "unwind"}
  BY <1>2 DEF TxPcs
<1>4. pc' = [pc EXCEPT ![t] = p] /\ room' = [room EXCEPT ![t] = 0]
  BY <1>2 DEF Return
<1>5. /\ \A u \in Callers \ {t} : pc'[u] = pc[u] /\ room'[u] = room[u]
      /\ pc' \in [Callers -> TxPcs \cup {"idle", "resend", "wake", "unwind"}]
      /\ room' \in [Callers -> Nat] /\ room'[t] = 0 /\ pc'[t] = p
  BY <1>1, <1>3, <1>4
<1>6. segs' = IF t = Reclaimer THEN segs ELSE IF taken THEN segs - 1 ELSE 0
  BY DEF Return
<1>7. resent' = IF t = Reclaimer THEN NoFrame ELSE resent
  BY DEF Return
<1>8. segs' \in 0 .. MaxSegs
  BY <1>1, <1>6, TxQueueAssumption DEF Callers
<1> QED BY <1>1, <1>2, <1>5, <1>6, <1>7, <1>8

\* The op mode begins a frame.
LEMMA SendFlush ==
    ASSUME FlushInv, NEW n \in 1 .. MaxSegs, Send(n) PROVE FlushInv'
<1>1. /\ pc[Sender] = "idle" /\ fpc = "off" /\ queue_used /\ accepted + n <= MaxFrames /\ segs' = n
      /\ pc' = [pc EXCEPT ![Sender] = "tx"]
      /\ UNCHANGED <<queue_used, ringVars, overflow_q, overflow_tx, stopVars, room, resendVars,
                     endVars, flushVars>>
  BY DEF Send
<1>2. /\ pc'[Sender] = "tx" /\ pc'[Reclaimer] = pc[Reclaimer]
      /\ pc' \in [Callers -> TxPcs \cup {"idle", "resend", "wake", "unwind"}]
  BY <1>1, TxQueueAssumption DEF FlushInv, Types, Callers, TxPcs
<1>3. Types'
  BY <1>1, <1>2, TxQueueAssumption
     DEF FlushInv, Types, ringVars, stopVars, resendVars, endVars, flushVars
<1>4. CallsOK'
  BY <1>1, <1>2, TxQueueAssumption
     DEF FlushInv, Types, CallsOK, stopVars, resendVars, endVars, TxPcs
<1>5. FlushOK'
  BY <1>1, <1>2 DEF FlushInv, FlushOK, Drained, ringVars, resendVars, flushVars
<1> QED BY <1>3, <1>4, <1>5 DEF FlushInv

\* A call looks at the space and stops the queue.
LEMMA TxStopFlush ==
    ASSUME FlushInv, NEW t \in Callers, TxSpace(t) \/ TxStop(t) \/ TxFull(t) PROVE FlushInv'
<1>1. PICK p \in HeldPcs : pc' = [pc EXCEPT ![t] = p]
  BY DEF TxSpace, TxStop, TxFull, HeldPcs
<1>2. /\ pc[t] \in TxPcs
      /\ queue_stopped' = queue_stopped \/ queue_stopped' = TRUE
      /\ sw_stopped' = sw_stopped \/ sw_stopped' = TRUE
      /\ UNCHANGED <<queue_used, ringVars, overflow_q, overflow_tx, segs, resendVars, endVars,
                     flushVars>>
  BY DEF TxSpace, TxStop, TxFull, stopVars, TxPcs
<1>3. room' \in [Callers -> Nat]
  <2>1. room \in [Callers -> Nat] /\ Space(read_ptr, write_ptr) \in Nat
    <3>1. room \in [Callers -> Nat] /\ read_ptr \in Slots /\ write_ptr \in Slots
      BY DEF FlushInv, Types
    <3>2. Space(read_ptr, write_ptr) \in Slots
      BY <3>1, Distance
    <3> QED BY <3>1, <3>2, Ring
  <2>2. room' = room \/ room' = [room EXCEPT ![t] = Space(read_ptr, write_ptr)]
    BY DEF TxSpace, TxStop, TxFull
  <2> QED BY <2>1, <2>2
<1>4. /\ pc'[t] = p /\ \A u \in Callers \ {t} : pc'[u] = pc[u]
      /\ pc' \in [Callers -> TxPcs \cup {"idle", "resend", "wake", "unwind"}]
  BY <1>1 DEF FlushInv, Types, TxPcs, HeldPcs
<1>5. Types'
  BY <1>2, <1>3, <1>4 DEF FlushInv, Types, ringVars, resendVars, endVars, flushVars
<1>6. \A u \in Callers : pc'[u] \in TxPcs <=> pc[u] \in TxPcs
  BY <1>1, <1>2, <1>4 DEF TxPcs, HeldPcs
<1>7. \A u \in Callers : pc'[u] = pc[u] \/ (pc[u] \in TxPcs /\ pc'[u] \in TxPcs)
  BY <1>1, <1>2, <1>4 DEF TxPcs, HeldPcs
<1>8. Sender \in Callers /\ Reclaimer \in Callers
  BY DEF Callers
<1>9. CallsOK'
  <2>1. queue_stopped => queue_stopped'
    BY <1>2 DEF FlushInv, Types
  <2>2. "idle" \notin TxPcs
    BY DEF TxPcs
  <2> QED BY <1>2, <1>6, <1>7, <1>8, <2>1, <2>2 DEF FlushInv, CallsOK, resendVars, endVars
<1>10. FlushOK'
  <2>1. pc'[Sender] = "idle" <=> pc[Sender] = "idle"
    BY <1>7, <1>8 DEF TxPcs
  <2> QED BY <1>2, <2>1 DEF FlushInv, FlushOK, Drained, ringVars, resendVars, flushVars
<1> QED BY <1>5, <1>9, <1>10 DEF FlushInv

\* The frame of a call goes to the ring or to the overflow queue, or is given up.
LEMMA TxEndFlush ==
    ASSUME FlushInv, NEW t \in Callers, TxOverflow(t) \/ TxPut(t) \/ TxError(t) PROVE FlushInv'
<1>1. /\ pc[t] \in TxPcs
      /\ Frame(t) \in Frames
      /\ Sender \in Callers /\ Reclaimer \in Callers /\ Sender # Reclaimer
  BY FrameTyped, TxQueueAssumption DEF TxOverflow, TxPut, TxError, TxPcs, FlushInv, Callers
<1>2. PICK taken \in BOOLEAN :
          /\ Return(t, taken)
          /\ accepted' = IF taken /\ t # Reclaimer THEN accepted + 1 ELSE accepted
  BY DEF TxOverflow, TxPut, TxError, Accept
<1>3. /\ \A u \in Callers \ {t} : pc'[u] = pc[u] /\ room'[u] = room[u]
      /\ pc' \in [Callers -> TxPcs \cup {"idle", "resend", "wake", "unwind"}]
      /\ room' \in [Callers -> Nat] /\ room'[t] = 0
      /\ t = Reclaimer => pc'[t] = "resend" /\ segs' = segs /\ resent' = NoFrame
      /\ t = Sender => /\ resent' = resent
                       /\ segs' = IF taken THEN segs - 1 ELSE 0
                       /\ pc'[t] = IF segs' > 0 THEN "tx" ELSE "idle"
      /\ segs' \in 0 .. MaxSegs
  BY <1>1, <1>2, ReturnEffect
<1>4. /\ UNCHANGED <<queue_used, read_ptr, overflow_tx, queue_stopped, sw_stopped, overflow_skbs,
                     out, fpc, fov, fwr>>
      /\ overflow_q' = overflow_q \/ overflow_q' = Append(overflow_q, Frame(t))
      /\ entries' \in {entries, [entries EXCEPT ![write_ptr] = Frame(t)],
                        [entries EXCEPT ![write_ptr] = Gone]}
      /\ write_ptr' \in {write_ptr, Inc(write_ptr)}
      /\ failed' = failed \/ (t = Reclaimer /\ failed' = failed \cup {Frame(t)})
  BY DEF TxOverflow, TxPut, TxError, ringVars, stopVars, flushVars, Frame
<1>5. Types'
  <2>1. overflow_q' \in Seq(Frames)
    <3>1. overflow_q \in Seq(Frames)
      BY DEF FlushInv, Types
    <3>2. Append(overflow_q, Frame(t)) \in Seq(Frames)
      BY <1>1, <3>1
    <3> QED BY <1>4, <3>1, <3>2
  <2>2. entries' \in [Slots -> Frames \cup {NoFrame, Gone}] /\ write_ptr' \in Slots
    BY <1>1, <1>4, Neighbours DEF FlushInv, Types
  <2>3. resent' \in Frames \cup {NoFrame}
    BY <1>3 DEF FlushInv, Types, Callers
  <2>4. accepted' \in 0 .. MaxFrames
    <3>1. CASE accepted' = accepted
      BY <3>1 DEF FlushInv, Types
    <3>2. CASE t = Sender /\ accepted' = accepted + 1
      <4>1. accepted \in 0 .. MaxFrames /\ segs \in 0 .. MaxSegs
        BY DEF FlushInv, Types
      <4>2. segs >= 1 /\ accepted + segs <= MaxFrames
        BY <1>1, <3>2 DEF FlushInv, CallsOK
      <4> QED BY <3>2, <4>1, <4>2, TxQueueAssumption
    <3> QED BY <1>2, <3>1, <3>2 DEF Callers
  <2>5. failed' \subseteq Frames
    BY <1>1, <1>4 DEF FlushInv, Types
  <2> QED BY <1>3, <1>4, <2>1, <2>2, <2>3, <2>4, <2>5 DEF FlushInv, Types
<1>6. CASE t = Sender
  <2>1. /\ pc'[Sender] \in {"tx", "idle"} /\ pc'[Reclaimer] = pc[Reclaimer] /\ resent' = resent
        /\ pc'[Sender] = "tx" => segs' >= 1
        /\ segs' = IF taken THEN segs - 1 ELSE 0
    BY <1>1, <1>3, <1>6
  <2>2. queue_used /\ segs >= 1 /\ accepted + segs <= MaxFrames /\ segs \in Nat /\ accepted \in Nat
    BY <1>1, <1>6, TxQueueAssumption DEF FlushInv, Types, CallsOK
  <2>3. accepted' + segs' <= MaxFrames
    <3>1. CASE taken
      BY <1>1, <1>2, <1>6, <2>1, <2>2, <3>1, TxQueueAssumption
    <3>2. CASE ~taken
      BY <1>2, <2>1, <2>2, <3>2, TxQueueAssumption
    <3> QED BY <3>1, <3>2
  <2>4. CallsOK'
    BY <1>4, <2>1, <2>2, <2>3 DEF FlushInv, CallsOK, TxPcs
  <2>5. fpc = "off"
    BY <1>1, <1>6 DEF FlushInv, FlushOK, TxPcs
  <2>6. FlushOK'
    BY <1>4, <2>2, <2>5 DEF FlushOK
  <2> QED BY <1>5, <2>4, <2>6 DEF FlushInv
<1>7. CASE t = Reclaimer
  <2>1. /\ pc'[Reclaimer] = "resend" /\ pc'[Sender] = pc[Sender] /\ resent' = NoFrame
        /\ segs' = segs /\ accepted' = accepted
    BY <1>1, <1>2, <1>3, <1>7
  <2>2. resent # NoFrame /\ queue_used /\ queue_stopped /\ pc[Reclaimer] # "idle"
    BY <1>1, <1>7 DEF FlushInv, CallsOK, TxPcs
  <2>3. CallsOK'
    BY <1>4, <2>1, <2>2 DEF FlushInv, CallsOK, TxPcs
  <2>4. fpc # "off" => fov
    BY <2>2 DEF FlushInv, FlushOK, Drained
  <2>5. FlushOK'
    BY <1>4, <2>1, <2>2, <2>4 DEF FlushInv, FlushOK
  <2> QED BY <1>5, <2>3, <2>5 DEF FlushInv
<1> QED BY <1>6, <1>7 DEF Callers

\* Reclaim frees slots and may take the overflow queue.
LEMMA ReclaimFlush ==
    ASSUME FlushInv, NEW ssn \in Slots, Reclaim(ssn) PROVE FlushInv'
<1>1. /\ pc[Reclaimer] = "idle" /\ queue_used /\ read_ptr # ssn /\ InUse(Dec(ssn))
      /\ read_ptr' = ssn
      /\ UNCHANGED <<queue_used, write_ptr, queue_stopped, sw_stopped, resent, room, segs, accepted,
                     failed, fpc, fov, fwr>>
  BY DEF Reclaim, ReclaimerOnly, stopVars, flushVars
<1>2. \/ UNCHANGED <<overflow_skbs, overflow_q, overflow_tx, pc>>
      \/ /\ queue_stopped /\ overflow_skbs' = overflow_q /\ overflow_q' = <<>> /\ overflow_tx' = TRUE
         /\ pc' = [pc EXCEPT ![Reclaimer] = "resend"]
  BY DEF Reclaim
<1>3. PICK freed \in SUBSET Slots :
          /\ out' = out \cup {entries[i] : i \in freed}
          /\ entries' = [i \in Slots |-> IF i \in freed THEN NoFrame ELSE entries[i]]
  BY DEF Reclaim
<1>4. /\ pc'[Sender] = pc[Sender] /\ pc'[Reclaimer] \in {"idle", "resend"}
      /\ pc' \in [Callers -> TxPcs \cup {"idle", "resend", "wake", "unwind"}]
      /\ pc'[Reclaimer] = "idle" <=> overflow_tx' = overflow_tx
  <2>1. pc \in [Callers -> TxPcs \cup {"idle", "resend", "wake", "unwind"}]
        /\ Sender # Reclaimer /\ Sender \in Callers /\ Reclaimer \in Callers
    BY TxQueueAssumption DEF FlushInv, Types, Callers
  <2>2. ~overflow_tx
    BY <1>1 DEF FlushInv, CallsOK
  <2> QED BY <1>1, <1>2, <2>1, <2>2
<1>5. Types'
  <2>1. entries' \in [Slots -> Frames \cup {NoFrame, Gone}]
    BY <1>3 DEF FlushInv, Types
  <2>2. overflow_q' \in Seq(Frames) /\ overflow_skbs' \in Seq(Frames)
    <3>1. overflow_q \in Seq(Frames) /\ overflow_skbs \in Seq(Frames) /\ <<>> \in Seq(Frames)
      BY DEF FlushInv, Types
    <3> QED BY <1>2, <3>1
  <2>3. overflow_tx' \in BOOLEAN
    BY <1>2 DEF FlushInv, Types
  <2> QED BY <1>1, <1>4, <2>1, <2>2, <2>3 DEF FlushInv, Types
<1>6. overflow_skbs = <<>> /\ resent = NoFrame
  BY <1>1 DEF FlushInv, CallsOK, TxPcs
<1>7. CallsOK'
  <2>1. CASE UNCHANGED <<overflow_skbs, overflow_q, overflow_tx, pc>>
    BY <1>1, <2>1 DEF FlushInv, CallsOK
  <2>2. CASE /\ queue_stopped /\ overflow_skbs' = overflow_q /\ overflow_q' = <<>>
             /\ overflow_tx' = TRUE /\ pc' = [pc EXCEPT ![Reclaimer] = "resend"]
    <3>1. pc'[Reclaimer] = "resend"
      BY <1>4, <2>2 DEF FlushInv, CallsOK, Types, Callers
    <3> QED BY <1>1, <1>4, <1>6, <2>2, <3>1 DEF FlushInv, CallsOK, TxPcs
  <2> QED BY <1>2, <2>1, <2>2
<1>8. fpc # "flushed"
  <2>1. read_ptr # write_ptr
    BY <1>1, Ring, Neighbours DEF InUse, FlushInv, Types
  <2> QED BY <2>1 DEF FlushInv, FlushOK
<1>9. FlushOK'
  <2>1. Drained => Drained'
    BY <1>1, <1>2 DEF Drained
  <2> QED BY <1>1, <1>4, <1>8, <2>1 DEF FlushInv, FlushOK
<1> QED BY <1>5, <1>7, <1>9 DEF FlushInv

\* Reclaim sends what it has taken, settles whether to wake the op mode, and ends.
LEMMA ReclaimerFlush ==
    ASSUME FlushInv, Resend \/ Settle \/ Wake \/ Unwind PROVE FlushInv'
<1>1. /\ UNCHANGED <<queue_used, read_ptr, write_ptr, entries, overflow_q, room, segs, accepted,
                     failed, fpc, fov, fwr>>
      /\ pc[Reclaimer] \in {"resend", "wake", "unwind"}
  BY DEF Resend, Settle, Wake, Unwind, ReclaimerOnly, ringVars, flushVars
<1>2. /\ pc \in [Callers -> TxPcs \cup {"idle", "resend", "wake", "unwind"}]
      /\ Sender # Reclaimer /\ Sender \in Callers /\ Reclaimer \in Callers
      /\ queue_stopped \in BOOLEAN /\ sw_stopped \in BOOLEAN /\ overflow_tx \in BOOLEAN
      /\ resent = NoFrame
  BY <1>1, TxQueueAssumption DEF FlushInv, Types, CallsOK, Callers, TxPcs
<1>3. PICK p \in {"tx", "wake", "unwind", "idle"} : pc' = [pc EXCEPT ![Reclaimer] = p]
  BY DEF Resend, Settle, Wake, Unwind
<1>4. /\ pc'[Sender] = pc[Sender] /\ pc'[Reclaimer] = p
      /\ pc' \in [Callers -> TxPcs \cup {"idle", "resend", "wake", "unwind"}]
  BY <1>2, <1>3 DEF TxPcs
<1>5. CASE Resend
  <2>1. overflow_skbs # <<>> /\ overflow_skbs \in Seq(Frames)
    BY <1>5 DEF Resend, FlushInv, Types
  <2>2. resent' \in Frames /\ overflow_skbs' \in Seq(Frames) /\ p = "tx"
    BY <1>2, <1>3, <1>5, <2>1 DEF Resend
  <2>3. resent' # NoFrame /\ UNCHANGED <<overflow_tx, queue_stopped, sw_stopped>>
    BY <1>5, <2>2 DEF Resend, stopVars, NoFrame, Frames
  <2>4. Types'
    BY <1>1, <1>4, <2>2, <2>3 DEF FlushInv, Types
  <2>5. CallsOK'
    BY <1>1, <1>2, <1>4, <2>1, <2>2, <2>3 DEF FlushInv, CallsOK, TxPcs
  <2>6. FlushOK'
    BY <1>1, <1>4, <2>1 DEF FlushInv, FlushOK, Drained
  <2> QED BY <2>4, <2>5, <2>6 DEF FlushInv
<1>6. CASE Settle \/ Wake \/ Unwind
  <2>1. /\ overflow_skbs = <<>> /\ UNCHANGED <<overflow_skbs, resent>>
        /\ p \in {"wake", "unwind", "idle"}
    BY <1>2, <1>3, <1>6 DEF Settle, Wake, Unwind, resendVars, FlushInv, CallsOK, TxPcs
  <2>2. overflow_tx' = IF p = "idle" THEN FALSE ELSE overflow_tx
    BY <1>2, <1>3, <1>6 DEF Settle, Wake, Unwind
  <2>3. queue_stopped' \in BOOLEAN /\ sw_stopped' \in BOOLEAN
    BY <1>2, <1>6 DEF Settle, Wake, Unwind, stopVars
  <2>4. Types'
    BY <1>1, <1>4, <2>1, <2>2, <2>3 DEF FlushInv, Types
  <2>5. CallsOK'
    BY <1>1, <1>2, <1>4, <2>1, <2>2 DEF FlushInv, CallsOK, TxPcs
  <2>6. FlushOK'
    BY <1>1, <1>4, <2>1 DEF FlushInv, FlushOK, Drained
  <2> QED BY <2>4, <2>5, <2>6 DEF FlushInv
<1> QED BY <1>5, <1>6

\* The flush itself: it samples the two marks of an overflow together.
LEMMA FlushStepFlush ==
    ASSUME FlushInv, FlushStart \/ FlushStep PROVE FlushInv'
<1>1. UNCHANGED <<queue_used, read_ptr, write_ptr, entries, overflow_q, overflow_tx, pc, room, segs,
                  overflow_skbs, resent, accepted, out, failed, queue_stopped, sw_stopped>>
  BY DEF FlushStart, FlushStep, FlushRead, FlushTest, FlushSample, FlushEnd, FlushOnly,
         ringVars, callVars, resendVars, endVars, stopVars
<1>2. /\ fpc' \in {"off", "read", "test", "sleep", "flushed", "warned"}
      /\ fov' \in BOOLEAN /\ fwr' \in Slots
  <2>1. 0 \in Slots
    BY Ring
  <2> QED BY <2>1 DEF FlushStart, FlushStep, FlushRead, FlushTest, FlushSample, FlushEnd, FlushInv,
             Types, Overflowing
<1>3. Types'
  BY <1>1, <1>2 DEF FlushInv, Types
<1>4. CallsOK'
  BY <1>1 DEF FlushInv, CallsOK
<1>5. pc[Sender] = "idle" /\ queue_used
  BY DEF FlushStart, FlushStep, FlushRead, FlushTest, FlushSample, FlushEnd, FlushInv, FlushOK
<1>6. ~Overflowing => Drained
  BY DEF FlushInv, CallsOK, Overflowing, Drained, TxPcs
<1>7. fpc' # "off" /\ ~fov' => Drained
  BY <1>6 DEF FlushStart, FlushStep, FlushRead, FlushTest, FlushSample, FlushEnd, FlushInv, FlushOK
<1>8. fpc' = "flushed" => read_ptr = write_ptr /\ ~fov'
  BY DEF FlushStart, FlushStep, FlushRead, FlushTest, FlushSample, FlushEnd
<1>9. FlushOK'
  BY <1>1, <1>5, <1>7, <1>8 DEF FlushOK, Drained
<1> QED BY <1>3, <1>4, <1>9 DEF FlushInv

\* A queue is disabled when it has been flushed, and is empty when it is enabled.
LEMMA EnableFlush ==
    ASSUME FlushInv, Disable \/ \E ssn \in Starts : Enable(ssn) PROVE FlushInv'
<1>1. CASE Disable
  <2>1. /\ fpc = "flushed" /\ queue_used' = FALSE /\ read_ptr' = write_ptr
        /\ entries' = [i \in Slots |-> IF InUse(i) THEN NoFrame ELSE entries[i]]
        /\ overflow_q' = <<>> /\ fpc' = "off" /\ fov' = FALSE /\ fwr' = 0
        /\ queue_stopped' = FALSE /\ sw_stopped' = (sw_stopped /\ ~queue_stopped)
        /\ UNCHANGED <<write_ptr, overflow_tx, pc, room, segs, overflow_skbs, resent, accepted, out,
                       failed>>
    BY <1>1 DEF Disable, callVars, resendVars, endVars
  <2>2. Drained /\ pc[Sender] = "idle"
    BY <2>1 DEF FlushInv, FlushOK
  <2>3. Types'
    <3>1. entries' \in [Slots -> Frames \cup {NoFrame, Gone}]
      BY <2>1 DEF FlushInv, Types
    <3>2. fwr' \in Slots /\ overflow_q' \in Seq(Frames)
      BY <2>1, Ring
    <3> QED BY <2>1, <3>1, <3>2 DEF FlushInv, Types
  <2>4. CallsOK'
    BY <2>1, <2>2 DEF FlushInv, CallsOK, Drained, TxPcs
  <2>5. FlushOK'
    BY <2>1 DEF FlushOK
  <2> QED BY <2>3, <2>4, <2>5 DEF FlushInv
<1>2. ASSUME NEW ssn \in Starts, Enable(ssn) PROVE FlushInv'
  <2>1. /\ ~queue_used /\ queue_used' = TRUE /\ read_ptr' = ssn /\ write_ptr' = ssn /\ ssn \in Slots
        /\ UNCHANGED <<entries, overflow_q, overflow_tx, queue_stopped, sw_stopped, pc, room, segs,
                       overflow_skbs, resent, accepted, out, failed, fpc, fov, fwr>>
    BY <1>2, TxQueueAssumption DEF Enable, stopVars, callVars, resendVars, endVars, flushVars
  <2>2. Types'
    BY <2>1 DEF FlushInv, Types
  <2>3. CallsOK'
    BY <2>1 DEF FlushInv, CallsOK
  <2>4. fpc = "off"
    BY <2>1 DEF FlushInv, FlushOK
  <2>5. FlushOK'
    BY <2>1, <2>4 DEF FlushOK
  <2> QED BY <2>2, <2>3, <2>5 DEF FlushInv
<1> QED BY <1>1, <1>2

\* Nothing has been sent and nothing is being flushed.
LEMMA InitFlush == ASSUME Init PROVE FlushInv
<1>1. 0 \in Slots /\ 0 \in 0 .. MaxFrames /\ 0 \in 0 .. MaxSegs
  BY Ring, TxQueueAssumption
<1>2. entries \in [Slots -> Frames \cup {NoFrame, Gone}] /\ room \in [Callers -> Nat]
  BY DEF Init
<1>3. /\ pc \in [Callers -> TxPcs \cup {"idle", "resend", "wake", "unwind"}]
      /\ pc[Sender] = "idle" /\ pc[Reclaimer] = "idle"
  BY DEF Init, Callers
<1>4. Types
  BY <1>1, <1>2, <1>3 DEF Init, Types
<1>5. CallsOK
  BY <1>3, TxQueueAssumption DEF Init, CallsOK, TxPcs
<1>6. FlushOK
  BY DEF Init, FlushOK
<1> QED BY <1>4, <1>5, <1>6 DEF FlushInv

\* Every step keeps what the flush relies on.
LEMMA NextFlush == ASSUME FlushInv, [Next]_vars PROVE FlushInv'
<1>1. ASSUME NEW n \in 1 .. MaxSegs, Send(n) PROVE FlushInv'
  BY <1>1, SendFlush
<1>2. ASSUME NEW t \in Callers, TxStep(t) PROVE FlushInv'
  BY <1>2, TxStopFlush, TxEndFlush DEF TxStep
<1>3. CASE ReclaimStep
  BY <1>3, ReclaimFlush, ReclaimerFlush DEF ReclaimStep
<1>4. CASE FlushStart \/ FlushStep
  BY <1>4, FlushStepFlush
<1>5. CASE Disable \/ \E ssn \in Starts : Enable(ssn)
  BY <1>5, EnableFlush
<1>6. CASE UNCHANGED vars
  BY <1>6 DEF vars, ringVars, stopVars, callVars, resendVars, endVars, flushVars, FlushInv, Types,
     CallsOK, FlushOK, Drained
<1> QED BY <1>1, <1>2, <1>3, <1>4, <1>5, <1>6 DEF Next

\* The overflow flag and the overflow queue account for every frame that is off
\* the ring, whether or not the lock excludes.
THEOREM FlushInvHolds == Spec => []FlushInv
<1>1. Init => FlushInv
  BY InitFlush
<1>2. FlushInv /\ [Next]_vars => FlushInv'
  BY NextFlush
<1> QED BY <1>1, <1>2, PTL DEF Spec

\* When iwl_trans_pcie_wait_txq_empty returns 0, the queue is empty, and nothing is
\* in the hands of a reclaim; the lock is not needed for it.
THEOREM FlushLeavesNothing == Spec => []FlushedEmpty
<1>1. FlushInv => FlushedEmpty
  <2> SUFFICES ASSUME FlushInv, fpc = "flushed" PROVE InTransit = <<>>
    BY DEF FlushedEmpty
  <2>1. Drained /\ read_ptr = write_ptr /\ read_ptr \in Slots
    BY DEF FlushInv, FlushOK, Types
  <2>2. InRing = 0
    BY <2>1, Distance, Ring DEF InRing, Ahead
  <2>3. OnRing = <<>>
    BY <2>2 DEF OnRing
  <2> QED BY <2>1, <2>3 DEF InTransit, Drained
<1> QED BY <1>1, FlushInvHolds, PTL

-----------------------------------------------------------------------------
(* What the lock protects: the ring, and the space a caller has read        *)

\* Distances from another slot.
LEMMA Triangle ==
    ASSUME NEW r \in Slots, NEW s \in Slots, NEW i \in Slots
    PROVE  Ahead(s, i) = IF Ahead(r, i) >= Ahead(r, s) THEN Ahead(r, i) - Ahead(r, s)
                         ELSE Ahead(r, i) - Ahead(r, s) + N
<1>1. /\ Ahead(r, i) = IF i >= r THEN i - r ELSE i - r + N
      /\ Ahead(r, s) = IF s >= r THEN s - r ELSE s - r + N
      /\ Ahead(s, i) = IF i >= s THEN i - s ELSE i - s + N
  BY Distance
<1> QED BY <1>1, Ring

\* A slot is at no distance from itself only; the next one is one further, short of
\* a whole turn.
LEMMA Further ==
    ASSUME NEW r \in Slots, NEW w \in Slots
    PROVE  /\ Ahead(r, w) = 0 <=> r = w
           /\ Ahead(r, w) < N - 1 => Ahead(r, Inc(w)) = Ahead(r, w) + 1
           /\ r # w => Ahead(r, Dec(w)) = Ahead(r, w) - 1
           /\ \A i \in Slots : Ahead(r, i) = Ahead(r, w) => i = w
<1>1. Ahead(r, w) = IF w >= r THEN w - r ELSE w - r + N
  BY Distance
<1>2. /\ Inc(w) = (IF w = N - 1 THEN 0 ELSE w + 1) /\ Inc(w) \in Slots
      /\ Dec(w) = (IF w = 0 THEN N - 1 ELSE w - 1) /\ Dec(w) \in Slots
  BY Neighbours
<1>3. Ahead(r, Inc(w)) = IF Inc(w) >= r THEN Inc(w) - r ELSE Inc(w) - r + N
  BY <1>2, Distance
<1>4. Ahead(r, Dec(w)) = IF Dec(w) >= r THEN Dec(w) - r ELSE Dec(w) - r + N
  BY <1>2, Distance
<1>5. \A i \in Slots : Ahead(r, i) = IF i >= r THEN i - r ELSE i - r + N
  BY Distance
<1>6. Ahead(r, w) < N - 1 => Ahead(r, Inc(w)) = Ahead(r, w) + 1
  BY <1>1, <1>2, <1>3, Ring
<1>7. r # w => Ahead(r, Dec(w)) = Ahead(r, w) - 1
  BY <1>1, <1>2, <1>4, Ring
<1>8. \A i \in Slots : Ahead(r, i) = Ahead(r, w) => i = w
  BY <1>1, <1>5, Ring
<1>9. Ahead(r, w) = 0 <=> r = w
  BY <1>1, Ring
<1> QED BY <1>6, <1>7, <1>8, <1>9

\* What iwl_queue_used tests: the slot is nearer to read_ptr than write_ptr is.
LEMMA UsedSlots ==
    ASSUME Types, NEW i \in Slots
    PROVE  /\ InUse(i) <=> Ahead(read_ptr, i) < InRing
           /\ InRing = Ahead(read_ptr, write_ptr) /\ InRing \in Slots
           /\ Space(read_ptr, write_ptr) = N - 1 - InRing
<1>1. read_ptr \in Slots /\ write_ptr \in Slots
  BY DEF Types
<1>2. /\ InRing = Ahead(read_ptr, write_ptr) /\ InRing \in Slots
      /\ Space(read_ptr, write_ptr) = N - 1 - InRing
  BY <1>1, Distance DEF InRing, Ahead
<1>3. /\ Ahead(read_ptr, i) = IF i >= read_ptr THEN i - read_ptr ELSE i - read_ptr + N
      /\ Ahead(read_ptr, write_ptr) = IF write_ptr >= read_ptr THEN write_ptr - read_ptr
                                      ELSE write_ptr - read_ptr + N
  BY <1>1, Distance
<1>4. CASE InRing = 0
  BY <1>1, <1>2, <1>3, <1>4, Ring DEF InUse
<1>5. CASE InRing # 0
  BY <1>1, <1>2, <1>3, <1>5, Ring DEF InUse
<1> QED BY <1>2, <1>4, <1>5

\* The ring's part of RingFilled.
SlotsFilled == \A i \in Slots : Ahead(read_ptr, i) < InRing => entries[i] \in Frames

\* RingFilled in terms of distances.
LEMMA FilledRing == RingFilled <=> SlotsFilled /\ InRing <= N - 2 /\ (overflow_q # <<>> => queue_stopped)
BY DEF RingFilled, SlotsFilled, Ahead

\* Nothing that LockInv adds is touched: the op mode begins a frame, the flush
\* goes on, or reclaim takes its next frame, wakes the op mode or ends.
LEMMA OutsideLock ==
    ASSUME LockInv,
           UNCHANGED <<ringVars, overflow_q, queue_stopped, lock, room, out>>,
           pc' \in [Callers -> TxPcs \cup {"idle", "resend", "wake", "unwind"}],
           \A t \in Callers : pc'[t] = pc[t] \/ (pc[t] \notin HeldPcs /\ pc'[t] \notin HeldPcs),
           pc[Reclaimer] = "idle" => pc'[Reclaimer] = "idle"
    PROVE  LockOK' /\ OverflowOK' /\ RingFilled' /\ (out \subseteq Frames)'
<1>1. UNCHANGED <<read_ptr, write_ptr, entries>>
  BY DEF ringVars
<1>2. LockOK'
  BY <1>1 DEF LockInv, LockOK, HolderOK, HeldPcs
<1>3. OverflowOK'
  BY <1>1 DEF LockInv, OverflowOK
<1>4. RingFilled'
  BY <1>1 DEF LockInv, RingFilled, InRing
<1> QED BY <1>2, <1>3, <1>4 DEF LockInv

\* Two callers are never in their locked sections together, and none is while the
\* lock is free.
LEMMA Exclusion ==
    ASSUME LockInv
    PROVE  /\ \A t \in Callers : pc[t] \in HeldPcs =>
                  lock = t /\ \A u \in Callers \ {t} : pc[u] \notin HeldPcs /\ lock # u
           /\ lock = NoOwner => \A t \in Callers : pc[t] \notin HeldPcs
BY TxQueueAssumption DEF LockInv, LockOK, HolderOK

\* A call looks at the space and stops the queue when it is short.
LEMMA TxStopLock ==
    ASSUME Locked, LockInv, NEW t \in Callers, TxSpace(t) \/ TxStop(t) \/ TxFull(t) PROVE LockInv'
<1>1. UNCHANGED <<read_ptr, write_ptr, entries, overflow_q, out>>
  BY DEF TxSpace, TxStop, TxFull, ringVars, endVars
<1>2. pc \in [Callers -> TxPcs \cup {"idle", "resend", "wake", "unwind"}] /\ room \in [Callers -> Nat]
  BY DEF LockInv, FlushInv, Types
<1>3. \A u \in Callers \ {t} : pc'[u] = pc[u] /\ room'[u] = room[u] /\ pc[u] \notin HeldPcs
  BY <1>2, Exclusion DEF TxSpace, TxStop, TxFull, CanLock, HeldPcs
<1>4. lock' = t /\ pc'[t] \in HeldPcs
  <2>1. CASE TxSpace(t)
    BY <1>2, <2>1 DEF TxSpace, HeldPcs
  <2>2. CASE TxStop(t) \/ TxFull(t)
    BY <1>2, <2>2, Exclusion DEF TxStop, TxFull, HeldPcs
  <2> QED BY <2>1, <2>2
<1>5. /\ room'[t] = Space(read_ptr, write_ptr)
      /\ pc'[t] \in {"stop", "full"} => room'[t] < HighMark
      /\ pc'[t] \in {"full", "put"} /\ room'[t] < HighMark => queue_stopped'
  <2>1. CASE TxSpace(t)
    BY <1>2, <2>1 DEF TxSpace
  <2>2. CASE TxStop(t)
    BY <1>2, <2>2 DEF TxStop, LockInv, LockOK, HolderOK, HeldPcs
  <2>3. CASE TxFull(t)
    BY <1>2, <2>3 DEF TxFull, LockInv, LockOK, HolderOK, HeldPcs
  <2> QED BY <2>1, <2>2, <2>3
<1>6. queue_stopped => queue_stopped'
  BY DEF TxSpace, TxStop, TxFull, stopVars
<1>7. LockOK'
  <2>1. HolderOK(t)'
    BY <1>1, <1>4, <1>5 DEF HolderOK
  <2>2. ASSUME NEW u \in Callers \ {t} PROVE HolderOK(u)'
    BY <1>3, <1>4 DEF HolderOK, HeldPcs
  <2> QED BY <1>4, <2>1, <2>2 DEF LockOK
<1>8. OverflowOK'
  <2>1. pc[Reclaimer] = "idle" => pc'[Reclaimer] = "idle"
    BY <1>3 DEF TxSpace, TxStop, TxFull, Callers
  <2> QED BY <1>1, <1>6, <2>1 DEF LockInv, OverflowOK
<1>9. RingFilled'
  BY <1>1, <1>6 DEF LockInv, RingFilled, InRing
<1>10. FlushInv'
  BY TxStopFlush DEF LockInv
<1> QED BY <1>1, <1>7, <1>8, <1>9, <1>10 DEF LockInv

\* What the callers hold when a call has returned.
LEMMA ReturnLock ==
    ASSUME LockInv, NEW t \in Callers, pc[t] \in TxPcs, pc[t] \in HeldPcs \/ UNCHANGED write_ptr,
           NEW taken \in BOOLEAN, Return(t, taken), UNCHANGED <<read_ptr, queue_stopped>>
    PROVE  LockOK' /\ (pc[Reclaimer] = "idle" <=> pc'[Reclaimer] = "idle")
<1>1. FlushInv
  BY DEF LockInv
<1>2. /\ \A u \in Callers \ {t} : pc'[u] = pc[u] /\ room'[u] = room[u]
      /\ t = Reclaimer => pc'[t] = "resend"
      /\ t = Sender => pc'[t] \in {"tx", "idle"}
  BY <1>1, ReturnEffect
<1>3. pc'[t] \notin HeldPcs
  BY <1>2 DEF HeldPcs, Callers
<1>4. lock' = IF lock = t THEN NoOwner ELSE lock
  BY DEF Return
<1>5. lock \in Callers \cup {NoOwner} /\ NoOwner \notin Callers
  BY TxQueueAssumption DEF LockInv, LockOK
<1>6. HolderOK(t)'
  BY <1>3, <1>4, <1>5 DEF HolderOK, HeldPcs
<1>7. ASSUME NEW u \in Callers \ {t} PROVE HolderOK(u)'
  <2>1. HolderOK(u)
    BY DEF LockInv, LockOK
  <2>2. lock' = u <=> lock = u
    BY <1>4, <1>5
  <2>3. CASE pc[t] \in HeldPcs
    <3>1. pc[u] \notin HeldPcs
      BY <2>3, Exclusion
    <3> QED BY <1>2, <2>1, <2>2, <3>1 DEF HolderOK, HeldPcs
  <2>4. CASE UNCHANGED write_ptr
    BY <1>2, <2>1, <2>2, <2>4 DEF HolderOK
  <2> QED BY <2>3, <2>4
<1>8. LockOK'
  BY <1>4, <1>5, <1>6, <1>7 DEF LockOK
<1>9. pc[Reclaimer] = "idle" <=> pc'[Reclaimer] = "idle"
  BY <1>2 DEF TxPcs, Callers
<1> QED BY <1>8, <1>9

\* A frame overflows when there is no room, and then the queue is stopped.
LEMMA TxOverflowLock ==
    ASSUME Locked, LockInv, NEW t \in Callers, TxOverflow(t) PROVE LockInv'
<1>1. /\ pc[t] \in HeldPcs /\ pc[t] \in TxPcs /\ pc[t] = "put" /\ NoRoom(t) /\ Return(t, TRUE)
      /\ UNCHANGED <<read_ptr, write_ptr, entries, queue_stopped, out>>
  BY DEF TxOverflow, Accept, TxPcs, HeldPcs, ringVars, stopVars
<1>2. LockOK'
  BY <1>1, ReturnLock
<1>3. /\ room[t] = Space(read_ptr, write_ptr)
      /\ room[t] < HighMark => queue_stopped
  BY <1>1 DEF LockInv, LockOK, HolderOK
<1>4. OverflowOK'
  BY <1>1, <1>3 DEF NoRoom, OverflowOK
<1>5. RingFilled'
  BY <1>1, <1>3 DEF LockInv, RingFilled, InRing, NoRoom
<1>6. FlushInv'
  BY TxEndFlush DEF LockInv
<1> QED BY <1>1, <1>2, <1>4, <1>5, <1>6 DEF LockInv

\* A frame that goes to the ring leaves two slots free, for the space its caller
\* has read is the space there is; and no frame is waiting that reclaim put back.
LEMMA TxPutLock ==
    ASSUME Locked, LockInv, NEW t \in Callers, TxPut(t) PROVE LockInv'
<1>1. /\ pc[t] \in HeldPcs /\ pc[t] \in TxPcs /\ pc[t] = "put" /\ ~NoRoom(t) /\ Return(t, TRUE)
      /\ entries' = [entries EXCEPT ![write_ptr] = Frame(t)] /\ write_ptr' = Inc(write_ptr)
      /\ UNCHANGED <<read_ptr, overflow_q, queue_stopped, out>>
  BY DEF TxPut, Accept, TxPcs, HeldPcs, stopVars
<1>2. LockOK' /\ (pc[Reclaimer] = "idle" <=> pc'[Reclaimer] = "idle")
  BY <1>1, ReturnLock
<1>3. FlushInv /\ Types /\ FlushInv'
  BY TxEndFlush DEF LockInv, FlushInv
<1>4. room[t] = Space(read_ptr, write_ptr) /\ room[t] \in Nat
  BY <1>1, <1>3 DEF LockInv, LockOK, HolderOK, Types
<1>5. ~(Space(read_ptr, write_ptr) < HighMark /\ Space(read_ptr, write_ptr) < 3)
  BY <1>1, <1>4 DEF NoRoom
<1>6. OverflowOK'
  BY <1>1, <1>2, <1>5 DEF LockInv, OverflowOK
<1>7. /\ read_ptr \in Slots /\ write_ptr \in Slots /\ write_ptr' \in Slots
      /\ entries \in [Slots -> Frames \cup {NoFrame, Gone}]
      /\ InRing = Ahead(read_ptr, write_ptr) /\ InRing \in Nat /\ InRing <= N - 3
  <2>1. /\ read_ptr \in Slots /\ write_ptr \in Slots /\ write_ptr' \in Slots
        /\ entries \in [Slots -> Frames \cup {NoFrame, Gone}]
    BY <1>3 DEF FlushInv, Types
  <2>2. /\ InRing = Ahead(read_ptr, write_ptr) /\ InRing \in Slots
        /\ Space(read_ptr, write_ptr) = N - 1 - InRing
    BY <1>3, <2>1, UsedSlots
  <2> QED BY <1>5, <2>1, <2>2, Ring
<1>8. InRing' = InRing + 1
  <2>1. InRing' = Ahead(read_ptr, Inc(write_ptr))
    BY <1>1 DEF InRing, Ahead
  <2> QED BY <1>7, <2>1, Further, Ring
<1>9. SlotsFilled'
  <2>1. SlotsFilled
    BY FilledRing DEF LockInv
  <2>2. ASSUME NEW i \in Slots, Ahead(read_ptr, i) < InRing + 1 PROVE entries'[i] \in Frames
    <3>1. CASE i = write_ptr
      BY <1>1, <1>3, <1>7, <3>1, FrameTyped DEF FlushInv
    <3>2. CASE i # write_ptr
      <4>1. Ahead(read_ptr, i) # InRing /\ Ahead(read_ptr, i) \in Int
        <5>1. Ahead(read_ptr, i) # Ahead(read_ptr, write_ptr)
          BY <1>7, <3>2, Further
        <5>2. Ahead(read_ptr, i) \in Slots
          BY <1>7, Distance
        <5> QED BY <1>7, <5>1, <5>2, Ring
      <4>2. entries'[i] = entries[i]
        BY <1>1, <1>7, <3>2
      <4> QED BY <1>7, <2>1, <2>2, <4>1, <4>2 DEF SlotsFilled
    <3> QED BY <3>1, <3>2
  <2> QED BY <1>1, <1>8, <2>2 DEF SlotsFilled, Ahead
<1>10. RingFilled'
  <2>1. (overflow_q # <<>> => queue_stopped)'
    BY <1>1 DEF LockInv, RingFilled
  <2>2. InRing' <= N - 2
    BY <1>7, <1>8, Ring
  <2> QED BY <1>9, <2>1, <2>2 DEF RingFilled, SlotsFilled, Ahead
<1> QED BY <1>1, <1>2, <1>3, <1>6, <1>10 DEF LockInv

\* The slot in which a call may leave a frame that it gives up is not on the ring.
LEMMA ErrorRing ==
    ASSUME Types, InRing <= N - 2, NEW t \in Callers, TxError(t)
    PROVE  /\ UNCHANGED <<read_ptr, write_ptr>> /\ InRing' = InRing
           /\ \A i \in Slots : Ahead(read_ptr, i) < InRing => entries'[i] = entries[i]
<1>1. UNCHANGED <<read_ptr, write_ptr>> /\ InRing' = InRing
  BY DEF TxError, InRing
<1>2. entries' = entries \/ entries' = [entries EXCEPT ![write_ptr] = Gone]
  BY DEF TxError
<1>3. InRing = Ahead(read_ptr, write_ptr) /\ InRing \in Slots /\ write_ptr \in Slots
  BY UsedSlots DEF Types
<1>4. ASSUME NEW i \in Slots, Ahead(read_ptr, i) < InRing PROVE i # write_ptr
  BY <1>3, <1>4, Ring
<1> QED BY <1>1, <1>2, <1>4 DEF Types

\* A frame that is given up leaves the ring as it was.
LEMMA TxErrorLock ==
    ASSUME Locked, LockInv, NEW t \in Callers, TxError(t) PROVE LockInv'
<1>1. /\ pc[t] \in TxPcs /\ Return(t, FALSE)
      /\ UNCHANGED <<read_ptr, write_ptr, overflow_q, queue_stopped, out>>
  BY DEF TxError, TxPcs, stopVars
<1>2. LockOK' /\ (pc[Reclaimer] = "idle" <=> pc'[Reclaimer] = "idle")
  BY <1>1, ReturnLock
<1>3. OverflowOK'
  BY <1>1, <1>2 DEF LockInv, OverflowOK
<1>4. RingFilled'
  <2>1. SlotsFilled /\ InRing <= N - 2 /\ (overflow_q # <<>> => queue_stopped) /\ Types
    BY FilledRing DEF LockInv, FlushInv
  <2>2. /\ InRing' = InRing
        /\ \A i \in Slots : Ahead(read_ptr, i) < InRing => entries'[i] = entries[i]
    BY <2>1, ErrorRing
  <2>3. SlotsFilled'
    BY <1>1, <2>1, <2>2 DEF SlotsFilled, Ahead
  <2> QED BY <1>1, <2>1, <2>2, <2>3 DEF RingFilled, SlotsFilled, Ahead
<1>5. FlushInv'
  BY TxEndFlush DEF LockInv
<1> QED BY <1>1, <1>2, <1>3, <1>4, <1>5 DEF LockInv

\* What reclaim frees: the device reports up to a slot in use, so the frames from
\* read_ptr up to it leave the ring, and those behind it are still there.
LEMMA ReclaimRing ==
    ASSUME Types, RingFilled, NEW ssn \in Slots, Reclaim(ssn)
    PROVE  /\ Ahead(read_ptr, ssn) \in 1 .. InRing
           /\ InRing' = InRing - Ahead(read_ptr, ssn)
           /\ SlotsFilled'
           /\ entries' = [i \in Slots |-> IF Ahead(read_ptr, i) < Ahead(read_ptr, ssn) THEN NoFrame
                                          ELSE entries[i]]
           /\ out' = out \cup {entries[i] : i \in {j \in Slots :
                                              Ahead(read_ptr, j) < Ahead(read_ptr, ssn)}}
           /\ \A i \in Slots : Ahead(read_ptr, i) < Ahead(read_ptr, ssn) => entries[i] \in Frames
<1>1. /\ read_ptr # ssn /\ InUse(Dec(ssn)) /\ read_ptr' = ssn /\ write_ptr' = write_ptr
      /\ entries' = [i \in Slots |-> IF Ahead(read_ptr, i) < Ahead(read_ptr, ssn) THEN NoFrame
                                     ELSE entries[i]]
      /\ out' = out \cup {entries[i] : i \in {j \in Slots :
                                         Ahead(read_ptr, j) < Ahead(read_ptr, ssn)}}
  BY DEF Reclaim, Ahead
<1>2. read_ptr \in Slots /\ write_ptr \in Slots /\ entries \in [Slots -> Frames \cup {NoFrame, Gone}]
  BY DEF Types
<1>3. PICK a \in Slots : a = Ahead(read_ptr, ssn)
  BY <1>2, Distance
<1>4. PICK b \in Slots : b = InRing /\ b = Ahead(read_ptr, write_ptr)
  BY UsedSlots
<1>5. a >= 1 /\ a <= b
  <2>1. Dec(ssn) \in Slots
    BY Neighbours
  <2>2. Ahead(read_ptr, Dec(ssn)) < b
    BY <1>1, <1>4, <2>1, UsedSlots
  <2>3. Ahead(read_ptr, Dec(ssn)) = a - 1
    BY <1>1, <1>2, <1>3, Further
  <2>4. a # 0
    BY <1>1, <1>2, <1>3, Further
  <2> QED BY <1>3, <1>4, <2>2, <2>3, <2>4, Ring
<1>6. InRing' = b - a
  <2>1. InRing' = Ahead(ssn, write_ptr)
    BY <1>1 DEF InRing, Ahead
  <2> QED BY <1>2, <1>3, <1>4, <1>5, <2>1, Triangle
<1>7. \A i \in Slots : Ahead(read_ptr, i) < b => entries[i] \in Frames
  BY <1>4, FilledRing DEF SlotsFilled
<1>8. \A i \in Slots : Ahead(read_ptr, i) < a => entries[i] \in Frames
  <2> SUFFICES ASSUME NEW i \in Slots, Ahead(read_ptr, i) < a PROVE entries[i] \in Frames
    OBVIOUS
  <2>1. Ahead(read_ptr, i) \in Slots
    BY <1>2, Distance
  <2>2. Ahead(read_ptr, i) < b
    BY <1>3, <1>4, <1>5, <2>1, Ring
  <2> QED BY <1>7, <2>2
<1>9. ASSUME NEW i \in Slots, Ahead(ssn, i) < b - a PROVE entries'[i] \in Frames
  <2>1. PICK d \in Slots : d = Ahead(read_ptr, i)
    BY <1>2, Distance
  <2>2. Ahead(ssn, i) = IF d >= a THEN d - a ELSE d - a + N
    BY <1>2, <1>3, <2>1, Triangle
  <2>3. d \in Int /\ a \in Int /\ b \in Int /\ N \in Int /\ d >= 0 /\ b < N
    BY <1>3, <1>4, <2>1, Ring
  <2>4. d >= a /\ d < b
    BY <1>9, <2>2, <2>3
  <2>5. entries'[i] = entries[i]
    BY <1>1, <1>3, <2>1, <2>3, <2>4
  <2> QED BY <1>7, <2>1, <2>4, <2>5
<1>10. SlotsFilled'
  BY <1>1, <1>6, <1>9 DEF SlotsFilled, Ahead
<1> QED BY <1>1, <1>3, <1>4, <1>5, <1>6, <1>8, <1>10, Ring

\* Reclaim holds the lock, and takes the whole overflow queue or leaves it.
LEMMA ReclaimLock ==
    ASSUME Locked, LockInv, NEW ssn \in Slots, Reclaim(ssn) PROVE LockInv'
<1>1. /\ pc[Reclaimer] = "idle" /\ lock = NoOwner /\ lock' = lock /\ queue_stopped' = queue_stopped
      /\ room' = room
  BY DEF Reclaim, CanLock, ReclaimerOnly, stopVars
<1>2. \/ UNCHANGED <<overflow_skbs, overflow_q, overflow_tx, pc>>
      \/ overflow_q' = <<>> /\ pc' = [pc EXCEPT ![Reclaimer] = "resend"]
  BY DEF Reclaim
<1>3. FlushInv /\ Types /\ FlushInv'
  BY ReclaimFlush DEF LockInv, FlushInv
<1>4. pc \in [Callers -> TxPcs \cup {"idle", "resend", "wake", "unwind"}]
  BY <1>3 DEF Types
<1>5. \A t \in Callers : pc[t] \notin HeldPcs /\ pc'[t] \notin HeldPcs
  BY <1>1, <1>2, <1>4, Exclusion DEF HeldPcs
<1>6. LockOK'
  BY <1>1, <1>5, TxQueueAssumption DEF LockOK, HolderOK, HeldPcs
<1>7. OverflowOK'
  BY <1>1, <1>2 DEF LockInv, OverflowOK
<1>8. /\ Ahead(read_ptr, ssn) \in 1 .. InRing
      /\ InRing' = InRing - Ahead(read_ptr, ssn)
      /\ SlotsFilled'
      /\ out' = out \cup {entries[i] : i \in {j \in Slots :
                                         Ahead(read_ptr, j) < Ahead(read_ptr, ssn)}}
      /\ \A i \in Slots : Ahead(read_ptr, i) < Ahead(read_ptr, ssn) => entries[i] \in Frames
  BY <1>3, ReclaimRing DEF LockInv
<1>9. (out \subseteq Frames)'
  BY <1>8 DEF LockInv
<1>10. RingFilled'
  <2>1. InRing \in Slots /\ InRing <= N - 2
    BY <1>3, UsedSlots DEF LockInv, RingFilled
  <2>2. InRing' <= N - 2
    BY <1>8, <2>1, Ring
  <2> QED BY <1>7, <1>8, <2>2 DEF RingFilled, SlotsFilled, OverflowOK, Ahead
<1> QED BY <1>3, <1>6, <1>7, <1>9, <1>10 DEF LockInv

\* The bit is cleared when there is room, and then nothing has overflowed again,
\* and no caller is in its locked section for want of it.
LEMMA SettleLock ==
    ASSUME Locked, LockInv, Settle PROVE LockInv'
<1>1. /\ UNCHANGED <<read_ptr, write_ptr, entries, overflow_q, room, lock, out>>
      /\ pc[Reclaimer] = "resend"
  BY DEF Settle, ringVars, ReclaimerOnly
<1>2. PICK p \in {"wake", "unwind"} : pc' = [pc EXCEPT ![Reclaimer] = p]
  BY DEF Settle
<1>3. /\ pc \in [Callers -> TxPcs \cup {"idle", "resend", "wake", "unwind"}]
      /\ read_ptr \in Slots /\ write_ptr \in Slots /\ queue_stopped \in BOOLEAN
  BY DEF LockInv, FlushInv, Types
<1>4. /\ \A t \in Callers \ {Reclaimer} : pc'[t] = pc[t]
      /\ pc'[Reclaimer] \in {"wake", "unwind"}
  BY <1>2, <1>3 DEF Callers
<1>5. queue_stopped' = queue_stopped \/ Space(read_ptr, write_ptr) > LowMark
  BY <1>3 DEF Settle
<1>6. Space(read_ptr, write_ptr) < HighMark => ~(Space(read_ptr, write_ptr) > LowMark)
  <2>1. PICK x \in Slots : x = Space(read_ptr, write_ptr)
    BY <1>3, Distance
  <2> QED BY <2>1, Ring
<1>7. overflow_q # <<>> => queue_stopped' = queue_stopped
  <2>1. overflow_q # <<>> => Space(read_ptr, write_ptr) < HighMark
    BY <1>1 DEF LockInv, OverflowOK
  <2> QED BY <1>5, <1>6, <2>1
<1>8. OverflowOK'
  BY <1>1, <1>4, <1>7 DEF LockInv, OverflowOK
<1>9. RingFilled'
  BY <1>1, <1>7 DEF LockInv, RingFilled, InRing
<1>10. LockOK'
  <2>1. HolderOK(Reclaimer)'
    <3>1. lock # Reclaimer
      BY <1>1 DEF LockInv, LockOK, HolderOK, HeldPcs, Callers
    <3> QED BY <1>1, <1>4, <3>1 DEF HolderOK, HeldPcs
  <2>2. ASSUME NEW t \in Callers \ {Reclaimer} PROVE HolderOK(t)'
    <3>1. HolderOK(t)
      BY DEF LockInv, LockOK
    <3>2. pc[t] \in {"full", "put"} /\ room[t] < HighMark => queue_stopped'
      <4> SUFFICES ASSUME pc[t] \in {"full", "put"}, room[t] < HighMark PROVE queue_stopped'
        OBVIOUS
      <4>1. room[t] = Space(read_ptr, write_ptr) /\ queue_stopped
        BY <3>1 DEF HolderOK, HeldPcs
      <4>2. Space(read_ptr, write_ptr) < HighMark
        BY <4>1
      <4>3. queue_stopped' = queue_stopped
        BY <1>5, <1>6, <4>2
      <4> QED BY <4>1, <4>3
    <3> QED BY <1>1, <1>4, <3>1, <3>2 DEF HolderOK
  <2> QED BY <1>1, <2>1, <2>2 DEF LockInv, LockOK
<1>11. FlushInv'
  BY ReclaimerFlush DEF LockInv
<1> QED BY <1>1, <1>8, <1>9, <1>10, <1>11 DEF LockInv

\* The rest of a reclaim.
LEMMA ReclaimerLock ==
    ASSUME LockInv, Resend \/ Wake \/ Unwind PROVE LockInv'
<1>1. PICK p \in {"tx", "unwind", "idle"} : pc' = [pc EXCEPT ![Reclaimer] = p]
  BY DEF Resend, Wake, Unwind
<1>2. /\ pc[Reclaimer] \in {"resend", "wake", "unwind"}
      /\ UNCHANGED <<ringVars, overflow_q, queue_stopped, lock, room, out>>
  BY DEF Resend, Wake, Unwind, ReclaimerOnly, stopVars
<1>3. /\ pc \in [Callers -> TxPcs \cup {"idle", "resend", "wake", "unwind"}]
      /\ Reclaimer \in Callers
  BY DEF LockInv, FlushInv, Types, Callers
<1>4. /\ pc' \in [Callers -> TxPcs \cup {"idle", "resend", "wake", "unwind"}]
      /\ \A t \in Callers : pc'[t] = pc[t] \/ (pc[t] \notin HeldPcs /\ pc'[t] \notin HeldPcs)
      /\ pc[Reclaimer] # "idle"
  BY <1>1, <1>2, <1>3 DEF TxPcs, HeldPcs
<1>5. LockOK' /\ OverflowOK' /\ RingFilled' /\ (out \subseteq Frames)'
  BY <1>2, <1>4, OutsideLock
<1>6. FlushInv'
  BY ReclaimerFlush DEF LockInv
<1> QED BY <1>5, <1>6 DEF LockInv

\* The op mode begins a frame.
LEMMA SendLock ==
    ASSUME LockInv, NEW n \in 1 .. MaxSegs, Send(n) PROVE LockInv'
<1>1. /\ pc[Sender] = "idle" /\ pc' = [pc EXCEPT ![Sender] = "tx"]
      /\ UNCHANGED <<ringVars, overflow_q, queue_stopped, lock, room, out>>
  BY DEF Send, stopVars, endVars
<1>2. /\ pc \in [Callers -> TxPcs \cup {"idle", "resend", "wake", "unwind"}]
      /\ Sender \in Callers /\ Reclaimer # Sender
  BY TxQueueAssumption DEF LockInv, FlushInv, Types, Callers
<1>3. /\ pc' \in [Callers -> TxPcs \cup {"idle", "resend", "wake", "unwind"}]
      /\ \A t \in Callers : pc'[t] = pc[t] \/ (pc[t] \notin HeldPcs /\ pc'[t] \notin HeldPcs)
      /\ pc'[Reclaimer] = pc[Reclaimer]
  BY <1>1, <1>2 DEF TxPcs, HeldPcs, Callers
<1>4. LockOK' /\ OverflowOK' /\ RingFilled' /\ (out \subseteq Frames)'
  BY <1>1, <1>3, OutsideLock
<1>5. FlushInv'
  BY SendFlush DEF LockInv
<1> QED BY <1>4, <1>5 DEF LockInv

\* The flush only looks.
LEMMA FlushLock ==
    ASSUME LockInv, FlushStart \/ FlushStep PROVE LockInv'
<1>1. UNCHANGED <<ringVars, overflow_q, queue_stopped, lock, room, out, pc>>
  BY DEF FlushStart, FlushStep, FlushRead, FlushTest, FlushSample, FlushEnd, FlushOnly,
         callVars, endVars, stopVars
<1>2. pc \in [Callers -> TxPcs \cup {"idle", "resend", "wake", "unwind"}]
  BY DEF LockInv, FlushInv, Types
<1>3. LockOK' /\ OverflowOK' /\ RingFilled' /\ (out \subseteq Frames)'
  BY <1>1, <1>2, OutsideLock
<1>4. FlushInv'
  BY FlushStepFlush DEF LockInv
<1> QED BY <1>3, <1>4 DEF LockInv

\* A queue is disabled and enabled with its ring empty and nobody in it.
LEMMA EnableLock ==
    ASSUME Locked, LockInv, Disable \/ \E ssn \in Starts : Enable(ssn) PROVE LockInv'
<1>1. /\ read_ptr = write_ptr /\ read_ptr' = write_ptr'
      /\ read_ptr \in Slots /\ read_ptr' \in Slots
      /\ overflow_q' = <<>> /\ UNCHANGED <<lock, pc, room, out>>
  BY TxQueueAssumption DEF Disable, Enable, LockInv, FlushInv, FlushOK, Types, callVars, endVars
<1>2. InRing = 0 /\ InRing' = 0
  BY <1>1, Further DEF InRing, Ahead
<1>3. \A t \in Callers : pc[t] \notin HeldPcs /\ lock # t
  <2>1. CASE Disable
    BY <2>1, Exclusion, TxQueueAssumption DEF Disable, CanLock
  <2>2. CASE \E ssn \in Starts : Enable(ssn)
    <3>1. ~queue_used
      BY <2>2 DEF Enable
    <3>2. pc[Sender] \notin HeldPcs /\ pc[Reclaimer] \notin HeldPcs
      BY <3>1 DEF LockInv, FlushInv, CallsOK, TxPcs, HeldPcs
    <3> QED BY <3>2 DEF LockInv, LockOK, HolderOK, Callers
  <2> QED BY <2>1, <2>2
<1>4. LockOK'
  BY <1>1, <1>3 DEF LockInv, LockOK, HolderOK, HeldPcs
<1>5. OverflowOK'
  BY <1>1 DEF OverflowOK
<1>6. RingFilled'
  <2>1. PICK r \in Slots : r = read_ptr'
    BY <1>1
  <2>2. \A i \in Slots : ~((i - r) % N < 0)
    BY Distance, Ring DEF Ahead
  <2>3. InRing' <= N - 2
    BY <1>2, Ring
  <2> QED BY <1>1, <1>2, <2>1, <2>2, <2>3 DEF RingFilled
<1>7. FlushInv'
  BY EnableFlush DEF LockInv
<1> QED BY <1>1, <1>4, <1>5, <1>6, <1>7 DEF LockInv

\* The ring is empty and the lock free.
LEMMA InitLock == ASSUME Init PROVE LockInv
<1>1. FlushInv
  BY InitFlush
<1>2. LockOK
  BY TxQueueAssumption DEF Init, LockOK, HolderOK, HeldPcs
<1>3. OverflowOK /\ out \subseteq Frames
  BY DEF Init, OverflowOK
<1>4. 0 \in Slots
  BY Ring
<1>5. InRing = 0
  BY <1>4, Further DEF Init, InRing, Ahead
<1>6. \A i \in Slots : ~((i - read_ptr) % N < InRing)
  BY <1>4, <1>5, Distance, Ring DEF Init, Ahead
<1>7. RingFilled
  BY <1>5, <1>6, Ring DEF Init, RingFilled
<1> QED BY <1>1, <1>2, <1>3, <1>7 DEF LockInv

\* Every step keeps what the lock protects.
LEMMA NextLock == ASSUME Locked, LockInv, [Next]_vars PROVE LockInv'
<1>1. ASSUME NEW n \in 1 .. MaxSegs, Send(n) PROVE LockInv'
  BY <1>1, SendLock
<1>2. ASSUME NEW t \in Callers, TxStep(t) PROVE LockInv'
  BY <1>2, TxStopLock, TxOverflowLock, TxPutLock, TxErrorLock DEF TxStep
<1>3. CASE ReclaimStep
  BY <1>3, ReclaimLock, SettleLock, ReclaimerLock DEF ReclaimStep
<1>4. CASE FlushStart \/ FlushStep
  BY <1>4, FlushLock
<1>5. CASE Disable \/ \E ssn \in Starts : Enable(ssn)
  BY <1>5, EnableLock
<1>6. CASE UNCHANGED vars
  <2>1. FlushInv'
    BY <1>6, NextFlush DEF LockInv
  <2>2. UNCHANGED <<read_ptr, write_ptr, entries, overflow_q, queue_stopped, lock, room, out, pc>>
    BY <1>6 DEF vars, ringVars, stopVars, callVars, endVars
  <2> QED BY <2>1, <2>2 DEF LockInv, LockOK, HolderOK, OverflowOK, RingFilled, InRing
<1> QED BY <1>1, <1>2, <1>3, <1>4, <1>5, <1>6 DEF Next

\* What the lock of a queue protects, when it excludes, for frames of any number
\* of segments.
THEOREM LockInvHolds == Locked => (Spec => []LockInv)
<1> SUFFICES ASSUME Locked PROVE Spec => []LockInv
  OBVIOUS
<1>1. Init => LockInv
  BY InitLock
<1>2. LockInv /\ [Next]_vars => LockInv'
  BY NextLock
<1> QED BY <1>1, <1>2, PTL DEF Spec

\* Every variable of a queue has its type, and its lock is held exactly by a call
\* inside its locked section, of iwl_trans_pcie_tx.
THEOREM TxTypeCorrect == Locked => (Spec => []TypeOK)
<1>1. LockInv => TypeOK
  BY DEF LockInv, FlushInv, Types, LockOK, HolderOK, TypeOK, TxPcs, HeldPcs
<1> QED BY <1>1, LockInvHolds, PTL

\* The slots from read_ptr to write_ptr hold frames still to be reported, never what
\* a failed iwl_trans_pcie_tx has left in its slot; two are always free; and no frame
\* waits on the overflow queue of a queue that is not stopped.
THEOREM RingIsFilled == Locked => (Spec => []RingFilled)
<1>1. LockInv => RingFilled
  BY DEF LockInv
<1> QED BY <1>1, LockInvHolds, PTL

-----------------------------------------------------------------------------
(* Frames of one segment: the op mode and the transport's bit               *)

\* The callers, and the types of what the op mode's agreement depends on.
LEMMA Agreeing ==
    ASSUME LockInv
    PROVE  /\ pc \in [Callers -> TxPcs \cup {"idle", "resend", "wake", "unwind"}]
           /\ Sender \in Callers /\ Reclaimer \in Callers /\ Sender # Reclaimer
           /\ queue_stopped \in BOOLEAN /\ sw_stopped \in BOOLEAN
           /\ \A t \in Callers : \A p : \A u \in Callers :
                  [pc EXCEPT ![t] = p][u] = IF u = t THEN p ELSE pc[u]
BY TxQueueAssumption DEF LockInv, FlushInv, Types, Callers

\* A call of the sender's looks at the space and stops the queue; one of reclaim's
\* finds it stopped.
LEMMA TxStopSingle ==
    ASSUME Locked, LockInv, SingleOK, NEW t \in Callers, TxSpace(t) \/ TxStop(t) \/ TxFull(t)
    PROVE  SingleOK'
<1>1. UNCHANGED <<overflow_q, overflow_skbs, resent>>
  BY DEF TxSpace, TxStop, TxFull, resendVars
<1>2. /\ pc[t] \in TxPcs /\ pc'[t] \in HeldPcs /\ \A u \in Callers \ {t} : pc'[u] = pc[u]
  BY Agreeing DEF TxSpace, TxStop, TxFull, TxPcs, HeldPcs
<1>3. CASE t = Sender
  <2>1. Drained /\ Drained' /\ pc'[Reclaimer] = pc[Reclaimer]
    BY <1>1, <1>2, <1>3, Agreeing DEF SingleOK, Drained
  <2>2. CASE TxSpace(t)
    <3>1. /\ pc[Sender] = "tx" /\ pc'[Sender] \in {"stop", "put"}
          /\ UNCHANGED <<queue_stopped, sw_stopped>>
      BY <1>3, <2>2, Agreeing DEF TxSpace, stopVars
    <3> QED BY <2>1, <3>1 DEF SingleOK
  <2>3. CASE TxStop(t)
    <3>1. pc[Sender] = "stop" /\ ~queue_stopped /\ ~sw_stopped /\ pc[Reclaimer] # "wake"
      BY <1>3, <2>3 DEF TxStop, SingleOK
    <3>2. pc'[Sender] = "full" /\ queue_stopped' = TRUE /\ sw_stopped' = sw_stopped
      BY <1>3, <2>3, <3>1, Agreeing DEF TxStop
    <3> QED BY <2>1, <3>1, <3>2 DEF SingleOK
  <2>4. CASE TxFull(t)
    <3>1. /\ pc[Sender] = "full" /\ queue_stopped /\ pc[Reclaimer] # "wake"
          /\ room[Sender] < HighMark
      BY <1>3, <2>4 DEF TxFull, SingleOK, LockInv, LockOK, HolderOK
    <3>2. /\ pc'[Sender] = "put" /\ queue_stopped' = queue_stopped /\ sw_stopped' = TRUE
          /\ room' = room
      BY <1>3, <2>4, Agreeing DEF TxFull
    <3> QED BY <2>1, <3>1, <3>2, Agreeing DEF SingleOK
  <2> QED BY <2>2, <2>3, <2>4
<1>4. CASE t = Reclaimer
  <2>1. queue_stopped /\ resent # NoFrame /\ pc'[Sender] = pc[Sender]
    BY <1>2, <1>4, Agreeing DEF LockInv, FlushInv, CallsOK
  <2>2. pc[Sender] \notin TxPcs
    BY <2>1 DEF SingleOK, Drained
  <2>3. pc[Reclaimer] # "full" /\ pc[Reclaimer] # "wake" /\ sw_stopped = queue_stopped
    BY <1>2, <1>4, <2>2 DEF SingleOK, TxPcs
  <2>4. /\ pc'[Reclaimer] \notin {"full", "wake"}
        /\ queue_stopped' = queue_stopped /\ sw_stopped' = sw_stopped
    <3>1. TxSpace(t) \/ TxStop(t)
      BY <1>4, <2>3 DEF TxFull
    <3> QED BY <1>4, <2>1, <3>1, Agreeing DEF TxSpace, TxStop, stopVars
  <2> QED BY <2>1, <2>2, <2>3, <2>4 DEF SingleOK, TxPcs
<1> QED BY <1>3, <1>4 DEF Callers

\* A call of the sender's ends its frame; one of reclaim's has no sender beside it.
LEMMA TxEndSingle ==
    ASSUME Locked, MaxSegs = 1, LockInv, SingleOK,
           NEW t \in Callers, TxOverflow(t) \/ TxPut(t) \/ TxError(t)
    PROVE  SingleOK' /\ pc'[Sender] = "idle"
<1>1. pc[t] \in TxPcs /\ UNCHANGED <<queue_stopped, sw_stopped>>
  BY DEF TxOverflow, TxPut, TxError, TxPcs, stopVars
<1>2. PICK taken \in BOOLEAN : Return(t, taken)
  BY DEF TxOverflow, TxPut, TxError, Accept
<1>3. /\ \A u \in Callers \ {t} : pc'[u] = pc[u] /\ room'[u] = room[u]
      /\ t = Reclaimer => pc'[t] = "resend"
      /\ t = Sender => /\ segs' = IF taken THEN segs - 1 ELSE 0
                       /\ pc'[t] = IF segs' > 0 THEN "tx" ELSE "idle"
  BY <1>1, <1>2, ReturnEffect DEF LockInv
<1>4. CASE t = Sender
  <2>1. segs \in 0 .. 1
    BY DEF LockInv, FlushInv, Types
  <2>2. pc'[Sender] = "idle" /\ pc'[Reclaimer] = pc[Reclaimer]
    BY <1>3, <1>4, <2>1, Agreeing
  <2>3. pc[Sender] = "put" \/ pc[Sender] = "tx"
    BY <1>4 DEF TxOverflow, TxPut, TxError
  <2> QED BY <1>1, <2>2, <2>3 DEF SingleOK, TxPcs
<1>5. CASE t = Reclaimer
  <2>1. resent # NoFrame /\ pc'[Sender] = pc[Sender] /\ pc'[Reclaimer] = "resend"
    BY <1>1, <1>3, <1>5, Agreeing DEF LockInv, FlushInv, CallsOK
  <2>2. pc[Sender] \notin TxPcs
    BY <2>1 DEF SingleOK, Drained
  <2>3. sw_stopped = queue_stopped
    BY <1>1, <1>5, <2>2 DEF SingleOK, TxPcs
  <2>4. pc[Sender] = "idle"
    BY <2>2 DEF LockInv, FlushInv, CallsOK
  <2> QED BY <1>1, <2>1, <2>2, <2>3, <2>4 DEF SingleOK, TxPcs
<1> QED BY <1>4, <1>5 DEF Callers

\* The op mode sends when it has not been stopped, and then nothing is left over.
LEMMA SendSingle ==
    ASSUME Locked, LockInv, SingleOK, NEW n \in 1 .. MaxSegs, Send(n) PROVE SingleOK'
<1>1. /\ pc[Sender] = "idle" /\ ~sw_stopped /\ pc' = [pc EXCEPT ![Sender] = "tx"]
      /\ UNCHANGED <<overflow_q, overflow_skbs, resent, queue_stopped, sw_stopped>>
  BY DEF Send, stopVars, resendVars
<1>2. pc'[Sender] = "tx" /\ pc'[Reclaimer] = pc[Reclaimer]
  BY <1>1, Agreeing
<1>3. pc[Reclaimer] # "wake" /\ ~queue_stopped
  BY <1>1 DEF SingleOK
<1>4. Drained
  BY <1>3 DEF LockInv, FlushInv, CallsOK, OverflowOK, Drained
<1> QED BY <1>1, <1>2, <1>3, <1>4 DEF SingleOK, Drained, TxPcs

\* Reclaim takes frames from the overflow queue only while no call of the sender's
\* is under way.
LEMMA ReclaimSingle ==
    ASSUME Locked, LockInv, SingleOK, NEW ssn \in Slots, Reclaim(ssn) PROVE SingleOK'
<1>1. /\ pc[Reclaimer] = "idle" /\ UNCHANGED <<queue_stopped, sw_stopped, resent, room>>
  BY DEF Reclaim, ReclaimerOnly, stopVars
<1>2. \/ UNCHANGED <<overflow_skbs, overflow_q, pc>>
      \/ /\ overflow_skbs' = overflow_q /\ overflow_q' = <<>>
         /\ pc' = [pc EXCEPT ![Reclaimer] = "resend"]
  BY DEF Reclaim
<1>3. Drained => Drained'
  BY <1>1, <1>2 DEF Drained
<1>4. pc'[Sender] = pc[Sender] /\ pc'[Reclaimer] \in {"idle", "resend"}
  BY <1>1, <1>2, Agreeing
<1> QED BY <1>1, <1>3, <1>4 DEF SingleOK

\* Reclaim wakes a queue whose sender has been stopped, and is idle.
LEMMA SettleSingle ==
    ASSUME Locked, LockInv, SingleOK, Settle PROVE SingleOK'
<1>1. /\ pc[Reclaimer] = "resend"
      /\ UNCHANGED <<overflow_q, overflow_skbs, resent, sw_stopped, room>>
  BY DEF Settle, ReclaimerOnly, resendVars
<1> DEFINE wake == Space(read_ptr, write_ptr) > LowMark
<1>2. /\ queue_stopped' = (queue_stopped /\ ~wake)
      /\ pc' = [pc EXCEPT ![Reclaimer] = IF queue_stopped /\ wake THEN "wake" ELSE "unwind"]
  BY DEF Settle
<1>3. /\ pc'[Sender] = pc[Sender]
      /\ pc'[Reclaimer] = IF queue_stopped /\ wake THEN "wake" ELSE "unwind"
  BY <1>2, Agreeing
<1>4. pc[Sender] \in HeldPcs => room[Sender] = Space(read_ptr, write_ptr)
  BY Agreeing DEF LockInv, LockOK, HolderOK
<1>5. wake => ~(Space(read_ptr, write_ptr) < HighMark)
  <2>1. PICK x \in Slots : x = Space(read_ptr, write_ptr)
    BY Distance DEF LockInv, FlushInv, Types
  <2> QED BY <2>1, Ring
<1> HIDE DEF wake
<1>6. queue_stopped /\ wake => pc[Sender] = "idle"
  <2> SUFFICES ASSUME queue_stopped, wake, pc[Sender] # "idle" PROVE FALSE
    OBVIOUS
  <2>1. pc[Sender] \in {"full", "put"}
    BY DEF LockInv, FlushInv, CallsOK, TxPcs, SingleOK
  <2>2. room[Sender] < HighMark
    BY <2>1, Agreeing DEF SingleOK, LockInv, LockOK, HolderOK
  <2> QED BY <1>4, <1>5, <2>1, <2>2 DEF HeldPcs
<1>7. CASE queue_stopped /\ wake
  <2>1. pc[Sender] = "idle" /\ sw_stopped /\ ~queue_stopped' /\ pc'[Reclaimer] = "wake"
    BY <1>1, <1>2, <1>3, <1>6, <1>7 DEF SingleOK
  <2> QED BY <1>1, <1>3, <2>1, Agreeing DEF SingleOK, TxPcs
<1>8. CASE ~(queue_stopped /\ wake)
  <2>1. queue_stopped' = queue_stopped /\ pc'[Reclaimer] = "unwind"
    BY <1>2, <1>3, <1>8, Agreeing
  <2> QED BY <1>1, <1>3, <2>1 DEF SingleOK, Drained
<1> QED BY <1>7, <1>8

\* The rest of a reclaim: it sends a frame, wakes the op mode or ends.
LEMMA ReclaimerSingle ==
    ASSUME LockInv, SingleOK, Resend \/ Wake \/ Unwind PROVE SingleOK'
<1>1. UNCHANGED <<overflow_q, queue_stopped, room>>
  BY DEF Resend, Wake, Unwind, ReclaimerOnly, stopVars
<1>2. CASE Resend
  <2>1. pc[Reclaimer] = "resend" /\ overflow_skbs # <<>> /\ sw_stopped' = sw_stopped
    BY <1>2 DEF Resend, stopVars
  <2>2. pc[Sender] \notin TxPcs /\ pc'[Sender] = pc[Sender] /\ pc'[Reclaimer] = "tx"
    BY <1>2, <2>1, Agreeing DEF Resend, SingleOK, Drained
  <2> QED BY <1>1, <2>1, <2>2 DEF SingleOK, TxPcs
<1>3. CASE Wake
  <2>1. /\ pc[Reclaimer] = "wake" /\ sw_stopped' = FALSE
        /\ pc'[Sender] = pc[Sender] /\ pc'[Reclaimer] = "unwind"
        /\ UNCHANGED <<overflow_skbs, resent>>
    BY <1>3, Agreeing DEF Wake, resendVars
  <2>2. ~queue_stopped /\ pc[Sender] # "full"
    BY <2>1 DEF SingleOK
  <2> QED BY <1>1, <2>1, <2>2, Agreeing DEF SingleOK, Drained
<1>4. CASE Unwind
  <2>1. /\ pc[Reclaimer] = "unwind" /\ sw_stopped' = sw_stopped
        /\ pc'[Sender] = pc[Sender] /\ pc'[Reclaimer] = "idle"
        /\ UNCHANGED <<overflow_skbs, resent>>
    BY <1>4, Agreeing DEF Unwind, resendVars, stopVars
  <2> QED BY <1>1, <2>1 DEF SingleOK, Drained
<1> QED BY <1>2, <1>3, <1>4

\* A queue is disabled with its sender idle: the op mode is told if it was stopped.
LEMMA EnableSingle ==
    ASSUME LockInv, SingleOK, Disable \/ \E ssn \in Starts : Enable(ssn) PROVE SingleOK'
<1>1. UNCHANGED <<overflow_skbs, resent, pc, room>>
  BY DEF Disable, Enable, callVars, resendVars
<1>2. CASE Disable
  <2>1. pc[Sender] = "idle"
    BY <1>2 DEF Disable, LockInv, FlushInv, FlushOK
  <2>2. queue_stopped' = FALSE /\ sw_stopped' = (sw_stopped /\ ~queue_stopped)
    BY <1>2 DEF Disable
  <2> QED BY <1>1, <2>1, <2>2, Agreeing DEF SingleOK, TxPcs
<1>3. CASE \E ssn \in Starts : Enable(ssn)
  <2>1. UNCHANGED <<overflow_q, queue_stopped, sw_stopped>>
    BY <1>3 DEF Enable, stopVars
  <2> QED BY <1>1, <2>1 DEF SingleOK, Drained
<1> QED BY <1>2, <1>3

\* Every step keeps the op mode and the transport's bit together.
LEMMA NextSingle ==
    ASSUME Locked, MaxSegs = 1, LockInv, SingleOK, [Next]_vars PROVE SingleOK'
<1>1. ASSUME NEW n \in 1 .. MaxSegs, Send(n) PROVE SingleOK'
  BY <1>1, SendSingle
<1>2. ASSUME NEW t \in Callers, TxStep(t) PROVE SingleOK'
  BY <1>2, TxStopSingle, TxEndSingle DEF TxStep
<1>3. CASE ReclaimStep
  BY <1>3, ReclaimSingle, SettleSingle, ReclaimerSingle DEF ReclaimStep
<1>4. CASE FlushStart \/ FlushStep \/ UNCHANGED vars
  <2>1. UNCHANGED <<overflow_q, overflow_skbs, resent, queue_stopped, sw_stopped, pc, room>>
    BY <1>4 DEF vars, FlushStart, FlushStep, FlushRead, FlushTest, FlushSample, FlushEnd, FlushOnly,
       callVars, resendVars, stopVars
  <2> QED BY <2>1 DEF SingleOK, Drained
<1>5. CASE Disable \/ \E ssn \in Starts : Enable(ssn)
  BY <1>5, EnableSingle
<1> QED BY <1>1, <1>2, <1>3, <1>4, <1>5 DEF Next

\* The op mode of a sender of single segments believes what the transport's bit
\* says, except between the two halves of a stop or a wake: iwl_stop_queue and
\* iwl_wake_queue never cross.
THEOREM OpModeIsTold == Locked /\ MaxSegs = 1 => (Spec => [](SingleOK /\ OpModeAgrees))
<1> SUFFICES ASSUME Locked, MaxSegs = 1 PROVE Spec => [](SingleOK /\ OpModeAgrees)
  OBVIOUS
<1>1. Init => SingleOK
  BY TxQueueAssumption DEF Init, SingleOK, Drained, TxPcs, Callers
<1>2. LockInv /\ SingleOK /\ [Next]_vars => SingleOK'
  BY NextSingle
<1>3. LockInv /\ SingleOK => OpModeAgrees
  BY Agreeing DEF SingleOK, OpModeAgrees
<1> QED BY <1>1, <1>2, <1>3, LockInvHolds, PTL DEF Spec

-----------------------------------------------------------------------------
(* The frames accepted so far                                               *)

\* What has been accepted stays accepted, and a call's frame has been when it is
\* on the ring or on the overflow queue.
LEMMA TakenGrows ==
    ASSUME LockInv, FreshOK, NEW t \in Callers, pc[t] \in TxPcs, NEW taken \in BOOLEAN,
           accepted' = IF taken /\ t # Reclaimer THEN accepted + 1 ELSE accepted
    PROVE  /\ Taken \subseteq Taken'
           /\ taken \/ t = Reclaimer => Frame(t) \in Taken'
<1>1. accepted \in Nat
  BY TxQueueAssumption DEF LockInv, FlushInv, Types
<1>2. Taken \subseteq Taken'
  BY <1>1 DEF Taken
<1>3. t = Reclaimer => Frame(t) \in Taken
  BY DEF Frame, FreshOK, LockInv, FlushInv, CallsOK
<1>4. taken /\ t # Reclaimer => Frame(t) \in Taken'
  BY <1>1 DEF Frame, Taken
<1> QED BY <1>2, <1>3, <1>4

\* A call ends.
LEMMA TxEndFresh ==
    ASSUME LockInv, FreshOK, NEW t \in Callers, TxOverflow(t) \/ TxPut(t) \/ TxError(t)
    PROVE  FreshOK'
<1>1. pc[t] \in TxPcs /\ UNCHANGED <<overflow_skbs, out>>
  BY DEF TxOverflow, TxPut, TxError, TxPcs
<1>2. PICK taken \in BOOLEAN :
          /\ Return(t, taken)
          /\ accepted' = IF taken /\ t # Reclaimer THEN accepted + 1 ELSE accepted
          /\ \/ ~taken /\ UNCHANGED <<overflow_q, entries>>
             \/ taken /\ overflow_q' = Append(overflow_q, Frame(t)) /\ UNCHANGED entries
             \/ ~taken /\ UNCHANGED overflow_q /\ entries' = [entries EXCEPT ![write_ptr] = Gone]
             \/ taken /\ entries' = [entries EXCEPT ![write_ptr] = Frame(t)] /\ UNCHANGED overflow_q
          /\ failed' = failed \/ (t = Reclaimer /\ failed' = failed \cup {Frame(t)})
  BY DEF TxOverflow, TxPut, TxError, Accept, ringVars, Frame
<1>3. /\ Taken \subseteq Taken'
      /\ taken \/ t = Reclaimer => Frame(t) \in Taken'
  BY <1>1, <1>2, TakenGrows
<1>4. overflow_q' \in Seq(Taken')
  <2>1. overflow_q \in Seq(Taken')
    BY <1>3, SeqMonotonic DEF FreshOK
  <2>2. taken => Append(overflow_q, Frame(t)) \in Seq(Taken')
    BY <1>3, <2>1, AppendProperties
  <2> QED BY <1>2, <2>1, <2>2
<1>5. overflow_skbs' \in Seq(Taken')
  BY <1>1, <1>3, SeqMonotonic DEF FreshOK
<1>6. entries' \in [Slots -> Taken' \cup {NoFrame, Gone}]
  <2>1. entries \in [Slots -> Taken' \cup {NoFrame, Gone}]
    BY <1>3 DEF FreshOK
  <2> QED BY <1>2, <1>3, <2>1
<1>7. resent' \in Taken' \cup {NoFrame}
  BY <1>2, <1>3 DEF Return, FreshOK
<1>8. out' \cup failed' \subseteq Taken'
  BY <1>1, <1>2, <1>3 DEF FreshOK
<1> QED BY <1>4, <1>5, <1>6, <1>7, <1>8 DEF FreshOK

\* Every step keeps the numbers of the frames.
LEMMA NextFresh == ASSUME Locked, LockInv, FreshOK, [Next]_vars PROVE FreshOK'
<1>1. ASSUME NEW t \in Callers, TxOverflow(t) \/ TxPut(t) \/ TxError(t) PROVE FreshOK'
  BY <1>1, TxEndFresh
<1>2. ASSUME NEW ssn \in Slots, Reclaim(ssn) PROVE FreshOK'
  <2>1. /\ accepted' = accepted /\ resent' = resent /\ failed' = failed
        /\ overflow_q' \in {overflow_q, <<>>} /\ overflow_skbs' \in {overflow_skbs, overflow_q}
    BY <1>2 DEF Reclaim, ReclaimerOnly
  <2>2. /\ entries' = [i \in Slots |-> IF Ahead(read_ptr, i) < Ahead(read_ptr, ssn) THEN NoFrame
                                       ELSE entries[i]]
        /\ out' = out \cup {entries[i] : i \in {j \in Slots :
                                           Ahead(read_ptr, j) < Ahead(read_ptr, ssn)}}
        /\ \A i \in Slots : Ahead(read_ptr, i) < Ahead(read_ptr, ssn) => entries[i] \in Frames
    BY <1>2, ReclaimRing DEF LockInv, FlushInv
  <2>3. \A i \in Slots : Ahead(read_ptr, i) < Ahead(read_ptr, ssn) => entries[i] \in Taken
    BY <2>2 DEF FreshOK, NoFrame, Gone, Frames
  <2>4. entries' \in [Slots -> Taken \cup {NoFrame, Gone}]
    BY <2>2 DEF FreshOK
  <2>5. out' \subseteq Taken
    BY <2>2, <2>3 DEF FreshOK
  <2>6. overflow_q' \in Seq(Taken) /\ overflow_skbs' \in Seq(Taken)
    BY <2>1, EmptySeq DEF FreshOK
  <2>7. Taken' = Taken
    BY <2>1 DEF Taken
  <2> QED BY <2>1, <2>4, <2>5, <2>6, <2>7 DEF FreshOK
<1>3. CASE Resend
  <2>1. /\ overflow_skbs # <<>> /\ resent' = Head(overflow_skbs) /\ overflow_skbs' = Tail(overflow_skbs)
        /\ UNCHANGED <<entries, overflow_q, accepted, out, failed>>
    BY <1>3 DEF Resend, ReclaimerOnly, ringVars
  <2>2. resent' \in Taken /\ overflow_skbs' \in Seq(Taken)
    BY <2>1, HeadTailProperties DEF FreshOK
  <2>3. Taken' = Taken
    BY <2>1 DEF Taken
  <2> QED BY <2>1, <2>2, <2>3 DEF FreshOK
<1>4. CASE Disable
  <2>1. /\ UNCHANGED <<overflow_skbs, resent, accepted, out, failed>>
        /\ entries' = [i \in Slots |-> IF InUse(i) THEN NoFrame ELSE entries[i]]
        /\ overflow_q' = <<>>
    BY <1>4 DEF Disable, resendVars, endVars
  <2>2. overflow_q' \in Seq(Taken)
    BY <2>1, EmptySeq
  <2>3. entries' \in [Slots -> Taken \cup {NoFrame, Gone}]
    BY <2>1 DEF FreshOK
  <2>4. Taken' = Taken
    BY <2>1 DEF Taken
  <2> QED BY <2>1, <2>2, <2>3, <2>4 DEF FreshOK
<1>5. ASSUME UNCHANGED <<entries, overflow_q, overflow_skbs, resent, accepted, out, failed>>
      PROVE  FreshOK'
  BY <1>5 DEF FreshOK, Taken
<1>6. CASE Settle \/ Wake \/ Unwind
  BY <1>5, <1>6 DEF Settle, Wake, Unwind, ReclaimerOnly, ringVars, resendVars
<1>7. CASE FlushStart \/ FlushStep \/ UNCHANGED vars
  BY <1>5, <1>7 DEF vars, FlushStart, FlushStep, FlushRead, FlushTest, FlushSample, FlushEnd,
     FlushOnly, ringVars, resendVars, endVars
<1>8. ASSUME NEW t \in Callers, TxSpace(t) \/ TxStop(t) \/ TxFull(t) PROVE FreshOK'
  BY <1>5, <1>8 DEF TxSpace, TxStop, TxFull, ringVars, resendVars, endVars
<1>9. ASSUME NEW n \in 1 .. MaxSegs, Send(n) PROVE FreshOK'
  BY <1>5, <1>9 DEF Send, ringVars, resendVars, endVars
<1>10. ASSUME NEW ssn \in Starts, Enable(ssn) PROVE FreshOK'
  BY <1>5, <1>10 DEF Enable, resendVars, endVars
<1> QED BY <1>1, <1>2, <1>3, <1>4, <1>6, <1>7, <1>8, <1>9, <1>10 DEF Next, TxStep, ReclaimStep

-----------------------------------------------------------------------------
(* The frames on the ring, as a sequence                                    *)

\* What follows the first n elements of a sequence.
LEMMA Suffix ==
    ASSUME NEW S, NEW s \in Seq(S), NEW n \in 0 .. Len(s)
    PROVE  /\ SubSeq(s, n + 1, Len(s)) \in Seq(S)
           /\ Len(SubSeq(s, n + 1, Len(s))) = Len(s) - n
           /\ \A j \in 1 .. Len(s) - n : SubSeq(s, n + 1, Len(s))[j] = s[n + j]
<1>1. PICK m \in Nat : m = Len(s)
  BY LenProperties
<1>2. n \in Nat /\ n <= m
  BY <1>1
<1>3. PICK l \in Nat : l = n + 1
  BY <1>2
<1>4. \A j \in l .. m : s[j] \in S
  BY <1>1, <1>3, <1>2, ElementOfSeq
<1>5. l \in Int /\ m \in Int
  BY <1>1, <1>3
<1>6. /\ SubSeq(s, l, m) \in Seq(S)
      /\ Len(SubSeq(s, l, m)) = IF l <= m THEN m - l + 1 ELSE 0
      /\ \A j \in 1 .. m - l + 1 : SubSeq(s, l, m)[j] = s[l + j - 1]
  BY <1>4, <1>5, SubSeqProperties
<1>7. Len(SubSeq(s, l, m)) = m - n
  BY <1>1, <1>2, <1>3, <1>6
<1>8. ASSUME NEW j \in 1 .. m - n PROVE SubSeq(s, l, m)[j] = s[n + j]
  <2>1. j \in 1 .. m - l + 1 /\ l + j - 1 = n + j
    BY <1>1, <1>2, <1>3
  <2>2. SubSeq(s, l, m)[j] = s[l + j - 1]
    BY <1>6, <2>1
  <2> QED BY <2>1, <2>2
<1> QED BY <1>1, <1>3, <1>6, <1>7, <1>8

\* The slot k further on than r.
At(r, k) == (r + k) % N

\* It is at the distance k, and a slot is the one at its distance.
LEMMA SlotAt ==
    ASSUME NEW r \in Slots
    PROVE  /\ \A k \in Slots : At(r, k) \in Slots /\ Ahead(r, At(r, k)) = k
           /\ \A i \in Slots : At(r, Ahead(r, i)) = i
<1>1. ASSUME NEW k \in Slots
      PROVE  At(r, k) = (IF r + k < N THEN r + k ELSE r + k - N) /\ At(r, k) \in Slots
  <2>1. PICK x : x = r + k
    OBVIOUS
  <2>2. x \in Int /\ -N <= x /\ x < 2 * N /\ x >= 0
    BY <2>1, Ring
  <2>3. x % N = IF x < 0 THEN x + N ELSE IF x < N THEN x ELSE x - N
    BY <2>2, Turn
  <2> QED BY <2>1, <2>2, <2>3, Ring DEF At
<1>2. ASSUME NEW k \in Slots PROVE Ahead(r, At(r, k)) = k
  <2>1. PICK i \in Slots : i = At(r, k)
    BY <1>1
  <2>2. Ahead(r, i) = IF i >= r THEN i - r ELSE i - r + N
    BY Distance
  <2>3. CASE r + k < N
    BY <1>1, <2>1, <2>2, <2>3, Ring
  <2>4. CASE ~(r + k < N)
    BY <1>1, <2>1, <2>2, <2>4, Ring
  <2> QED BY <2>3, <2>4
<1>3. ASSUME NEW i \in Slots PROVE At(r, Ahead(r, i)) = i
  <2>1. PICK k \in Slots : k = Ahead(r, i)
    BY Distance
  <2>2. Ahead(r, i) = IF i >= r THEN i - r ELSE i - r + N
    BY Distance
  <2> QED BY <1>1, <2>1, <2>2, Ring
<1> QED BY <1>1, <1>2, <1>3

\* The ring holds a sequence of frames.
LEMMA RingSeq ==
    ASSUME Types, RingFilled
    PROVE  /\ OnRing \in Seq(Frames) /\ Len(OnRing) = InRing /\ InRing \in Slots
           /\ \A j \in 1 .. InRing :
                  At(read_ptr, j - 1) \in Slots /\ OnRing[j] = entries[At(read_ptr, j - 1)]
<1>1. InRing \in Slots /\ InRing \in Nat /\ read_ptr \in Slots
  BY UsedSlots, Ring DEF Types
<1>2. ASSUME NEW j \in 1 .. InRing
      PROVE  /\ (read_ptr + j - 1) % N = At(read_ptr, j - 1)
             /\ At(read_ptr, j - 1) \in Slots
             /\ entries[At(read_ptr, j - 1)] \in Frames
  <2>1. PICK k \in Slots : k = j - 1 /\ k < InRing
    BY <1>1, Ring
  <2>2. At(read_ptr, k) \in Slots /\ Ahead(read_ptr, At(read_ptr, k)) = k
    BY <1>1, SlotAt
  <2>3. entries[At(read_ptr, k)] \in Frames
    BY <2>1, <2>2, FilledRing DEF SlotsFilled
  <2>4. read_ptr + j - 1 = read_ptr + k
    BY <1>1, <2>1, Ring
  <2> QED BY <2>1, <2>2, <2>3, <2>4 DEF At, Types
<1>3. \A j \in 1 .. InRing : OnRing[j] = entries[At(read_ptr, j - 1)] /\ OnRing[j] \in Frames
  BY <1>2 DEF OnRing
<1>4. OnRing \in [1 .. InRing -> Frames]
  BY <1>3 DEF OnRing
<1>5. OnRing \in Seq(Frames) /\ Len(OnRing) = InRing
  BY <1>1, <1>4
<1> QED BY <1>1, <1>2, <1>3, <1>5

\* Steps that leave the ring alone.
LEMMA SameRing == ASSUME UNCHANGED ringVars PROVE OnRing' = OnRing
BY DEF ringVars, OnRing, InRing

\* Nor does a call that gives its frame up change what is on the ring.
LEMMA ErrorOnRing ==
    ASSUME FlushInv, RingFilled, NEW t \in Callers, TxError(t) PROVE OnRing' = OnRing
<1>1. Types /\ InRing <= N - 2 /\ read_ptr \in Slots
  BY DEF FlushInv, Types, RingFilled
<1>2. /\ read_ptr' = read_ptr /\ InRing' = InRing
      /\ \A i \in Slots : Ahead(read_ptr, i) < InRing => entries'[i] = entries[i]
  BY <1>1, ErrorRing
<1>3. InRing \in Slots
  BY <1>1, UsedSlots
<1>4. ASSUME NEW j \in 1 .. InRing
      PROVE  entries'[(read_ptr + j - 1) % N] = entries[(read_ptr + j - 1) % N]
  <2>1. PICK k \in Slots : k = j - 1 /\ k < InRing
    BY <1>3, Ring
  <2>2. At(read_ptr, k) \in Slots /\ Ahead(read_ptr, At(read_ptr, k)) = k
    BY <1>1, SlotAt
  <2>3. read_ptr + j - 1 = read_ptr + k
    BY <1>1, <2>1, Ring
  <2> QED BY <1>2, <2>1, <2>2, <2>3 DEF At
<1> QED BY <1>2, <1>4 DEF OnRing

\* A frame put on the ring comes after those that are there.
LEMMA PutOnRing ==
    ASSUME Locked, LockInv, NEW t \in Callers, TxPut(t) PROVE OnRing' = Append(OnRing, Frame(t))
<1>1. LockInv' /\ FlushInv /\ FlushInv'
  BY TxPutLock DEF LockInv
<1>2. /\ Types /\ RingFilled /\ Types' /\ RingFilled'
      /\ read_ptr \in Slots /\ write_ptr \in Slots /\ entries \in [Slots -> Frames \cup {NoFrame, Gone}]
  BY <1>1 DEF LockInv, FlushInv, Types
<1>3. Frame(t) \in Frames
  BY <1>1, FrameTyped DEF TxPut, FlushInv, TxPcs
<1>4. /\ entries' = [entries EXCEPT ![write_ptr] = Frame(t)] /\ write_ptr' = Inc(write_ptr)
      /\ read_ptr' = read_ptr
  BY DEF TxPut
<1>5. PICK n \in Slots : n = InRing /\ n = Ahead(read_ptr, write_ptr) /\ n < N - 1
  <2>1. InRing \in Slots /\ InRing = Ahead(read_ptr, write_ptr) /\ InRing <= N - 2
    BY <1>2, UsedSlots DEF RingFilled
  <2> QED BY <2>1, Ring
<1>6. InRing' = n + 1
  BY <1>2, <1>4, <1>5, Further DEF InRing, Ahead
<1>7. At(read_ptr, n) = write_ptr
  BY <1>2, <1>5, SlotAt
<1>8. /\ OnRing \in Seq(Frames) /\ Len(OnRing) = n
      /\ \A j \in 1 .. n : OnRing[j] = entries[At(read_ptr, j - 1)]
  BY <1>2, <1>5, RingSeq
<1>9. OnRing' = [j \in 1 .. n + 1 |-> entries'[(read_ptr + j - 1) % N]]
  BY <1>4, <1>6 DEF OnRing
<1>10. ASSUME NEW j \in 1 .. n + 1 PROVE OnRing'[j] = Append(OnRing, Frame(t))[j]
  <2>1. PICK k \in Slots : k = j - 1 /\ k <= n
    BY <1>5, Ring
  <2>2. read_ptr + j - 1 = read_ptr + k
    BY <1>2, <2>1, Ring
  <2>3. OnRing'[j] = entries'[At(read_ptr, k)]
    BY <1>9, <2>2 DEF At
  <2>4. CASE k = n
    <3>1. OnRing'[j] = Frame(t)
      BY <1>2, <1>4, <1>7, <2>3, <2>4
    <3>2. j = Len(OnRing) + 1
      BY <1>5, <1>8, <2>1, <2>4, Ring
    <3> QED BY <1>3, <1>8, <3>1, <3>2, AppendProperties
  <2>5. CASE k # n
    <3>1. At(read_ptr, k) # write_ptr
      BY <1>2, <1>5, <2>1, <2>5, SlotAt
    <3>2. OnRing'[j] = entries[At(read_ptr, k)]
      BY <1>2, <1>4, <2>3, <3>1
    <3>3. j \in 1 .. Len(OnRing)
      BY <1>5, <1>8, <2>1, <2>5, Ring
    <3> QED BY <1>3, <1>5, <1>8, <2>1, <3>2, <3>3, AppendProperties
  <2> QED BY <2>4, <2>5
<1>11. OnRing' \in Seq(Frames) /\ Len(OnRing') = n + 1
  <2>1. OnRing' \in Seq(Frames)
    <3>1. ASSUME NEW j \in 1 .. n + 1 PROVE Append(OnRing, Frame(t))[j] \in Frames
      BY <1>3, <1>5, <1>8, AppendProperties, ElementOfSeq, Ring
    <3>2. OnRing' \in [1 .. n + 1 -> Frames]
      BY <1>9, <1>10, <3>1
    <3> QED BY <1>5, <3>2, Ring
  <2> QED BY <1>5, <1>9, <2>1, Ring
<1>12. Append(OnRing, Frame(t)) \in Seq(Frames) /\ Len(Append(OnRing, Frame(t))) = n + 1
  BY <1>3, <1>8, AppendProperties
<1> QED BY <1>10, <1>11, <1>12, SeqEqual

\* What reclaim reports are the first frames of the ring, and the others stay.
LEMMA ReclaimOnRing ==
    ASSUME Types, RingFilled, NEW ssn \in Slots, Reclaim(ssn), NEW a, a = Ahead(read_ptr, ssn)
    PROVE  /\ a \in 1 .. Len(OnRing)
           /\ OnRing' = SubSeq(OnRing, a + 1, Len(OnRing))
           /\ out' = out \cup {OnRing[j] : j \in 1 .. a}
<1>1. read_ptr \in Slots /\ read_ptr' = ssn
  BY DEF Types, Reclaim
<1>2. PICK n \in Slots : n = InRing
  BY UsedSlots
<1>3. /\ a \in 1 .. n
      /\ InRing' = n - a
      /\ entries' = [i \in Slots |-> IF Ahead(read_ptr, i) < a THEN NoFrame ELSE entries[i]]
      /\ out' = out \cup {entries[i] : i \in {j \in Slots : Ahead(read_ptr, j) < a}}
  BY <1>2, ReclaimRing
<1>4. a \in Slots /\ n \in Int /\ a \in Int
  BY <1>2, <1>3, Ring
<1>5. /\ OnRing \in Seq(Frames) /\ Len(OnRing) = n
      /\ \A j \in 1 .. n : OnRing[j] = entries[At(read_ptr, j - 1)]
  BY <1>2, RingSeq
<1>6. OnRing' = [j \in 1 .. n - a |-> entries'[(ssn + j - 1) % N]]
  BY <1>1, <1>3 DEF OnRing
<1>7. ASSUME NEW j \in 1 .. n - a PROVE OnRing'[j] = OnRing[a + j]
  <2>1. PICK k \in Slots : k = j - 1 /\ k < n - a
    BY <1>2, <1>3, Ring
  <2>2. PICK i \in Slots : i = At(ssn, k) /\ Ahead(ssn, i) = k
    BY SlotAt
  <2>3. ssn + j - 1 = ssn + k
    BY <2>1, Ring
  <2>4. OnRing'[j] = entries'[i]
    BY <1>6, <2>2, <2>3 DEF At
  <2>5. PICK d \in Slots : d = Ahead(read_ptr, i)
    BY <1>1, Distance
  <2>6. k = IF d >= a THEN d - a ELSE d - a + N
    BY <1>1, <2>2, <2>5, Triangle
  <2>7. d = a + k
    <3>1. d \in Int /\ d >= 0 /\ k \in Int /\ k < n - a /\ n < N /\ N \in Int
      BY <1>2, <2>1, <2>5, Ring
    <3>2. CASE d >= a
      BY <1>4, <2>6, <3>1, <3>2
    <3>3. CASE ~(d >= a)
      BY <1>4, <2>6, <3>1, <3>3
    <3> QED BY <3>2, <3>3
  <2>8. ~(d < a)
    BY <1>4, <2>1, <2>7, Ring
  <2>9. entries'[i] = entries[i]
    BY <1>3, <2>5, <2>8
  <2>10. At(read_ptr, d) = i
    BY <1>1, <2>5, SlotAt
  <2>11. PICK m \in 1 .. n : m = a + j /\ m - 1 = d
    <3>1. a \in Int /\ j \in Int /\ n \in Int /\ 1 <= a /\ 1 <= j /\ j <= n - a
      BY <1>3, <1>4
    <3>2. a + j \in 1 .. n
      BY <3>1
    <3>3. k = j - 1 /\ k \in Int
      BY <2>1, <3>1
    <3>4. a + j - 1 = d
      BY <2>7, <3>1, <3>3
    <3>5. PICK m \in 1 .. n : m = a + j
      BY <3>2
    <3>6. m - 1 = d
      BY <3>1, <3>4, <3>5, <2>1, <2>7
    <3> QED BY <3>5, <3>6
  <2>12. OnRing[m] = entries[At(read_ptr, m - 1)]
    BY <1>5
  <2>13. OnRing[a + j] = entries[i]
    BY <2>10, <2>11, <2>12
  <2> QED BY <2>4, <2>9, <2>13
<1>8. OnRing' = SubSeq(OnRing, a + 1, Len(OnRing))
  <2>1. PICK q : q = SubSeq(OnRing, a + 1, Len(OnRing))
    OBVIOUS
  <2>2. q \in Seq(Frames) /\ Len(q) = n - a /\ \A j \in 1 .. n - a : q[j] = OnRing[a + j]
    <3>1. a \in 0 .. Len(OnRing)
      BY <1>3, <1>4, <1>5
    <3>2. OnRing \in Seq(Frames)
      BY <1>5
    <3>3. /\ q \in Seq(Frames) /\ Len(q) = Len(OnRing) - a
          /\ \A j \in 1 .. Len(OnRing) - a : q[j] = OnRing[a + j]
      BY <2>1, <3>1, <3>2, Suffix
    <3> QED BY <1>5, <3>3
  <2>3. \A j \in 1 .. n - a : OnRing'[j] \in Frames
    <3> SUFFICES ASSUME NEW j \in 1 .. n - a PROVE OnRing[a + j] \in Frames
      BY <1>7
    <3>1. a + j \in 1 .. Len(OnRing)
      BY <1>3, <1>4, <1>5
    <3> QED BY <1>5, <3>1, ElementOfSeq
  <2>4. n - a \in Nat
    BY <1>3, <1>4
  <2>5. OnRing' \in [1 .. n - a -> Frames]
    BY <1>6, <2>3
  <2>6. OnRing' \in Seq(Frames) /\ Len(OnRing') = n - a
    BY <2>4, <2>5
  <2>7. \A j \in 1 .. Len(OnRing') : OnRing'[j] = q[j]
    BY <1>7, <2>2, <2>6
  <2> QED BY <2>1, <2>2, <2>6, <2>7, SeqEqual
<1>9. {entries[i] : i \in {j \in Slots : Ahead(read_ptr, j) < a}} = {OnRing[j] : j \in 1 .. a}
  <2>1. ASSUME NEW i \in Slots, Ahead(read_ptr, i) < a
        PROVE  \E j \in 1 .. a : entries[i] = OnRing[j]
    <3>1. PICK d \in Slots : d = Ahead(read_ptr, i) /\ At(read_ptr, d) = i
      BY <1>1, Distance, SlotAt
    <3>2. PICK m \in 1 .. n : m \in 1 .. a /\ m - 1 = d
      <4>1. d \in Int /\ d >= 0 /\ d < a /\ a <= n
        BY <1>3, <1>4, <2>1, <3>1, Ring
      <4>2. d + 1 \in 1 .. n /\ d + 1 \in 1 .. a /\ (d + 1) - 1 = d
        BY <1>4, <4>1
      <4> QED BY <4>2
    <3>3. OnRing[m] = entries[At(read_ptr, m - 1)]
      BY <1>5
    <3>4. entries[i] = OnRing[m]
      BY <3>1, <3>2, <3>3
    <3> QED BY <3>2, <3>4
  <2>2. ASSUME NEW j \in 1 .. a
        PROVE  \E i \in Slots : Ahead(read_ptr, i) < a /\ entries[i] = OnRing[j]
    <3>1. PICK k \in Slots : k = j - 1 /\ k < a
      BY <1>3, <1>4, Ring
    <3>2. At(read_ptr, k) \in Slots /\ Ahead(read_ptr, At(read_ptr, k)) = k
      BY <1>1, SlotAt
    <3>3. j \in 1 .. n
      BY <1>3, <1>4
    <3> QED BY <1>5, <3>1, <3>2, <3>3
  <2> QED BY <2>1, <2>2
<1> QED BY <1>3, <1>5, <1>8, <1>9

-----------------------------------------------------------------------------
(* The pipe                                                                 *)

Sending == IF resent = NoFrame THEN <<>> ELSE <<resent>>

\* Frames wait in four places, in this order.
LEMMA Places ==
    ASSUME FlushInv, RingFilled
    PROVE  /\ InTransit = ((OnRing \o overflow_q) \o Sending) \o overflow_skbs
           /\ OnRing \in Seq(Frames) /\ overflow_q \in Seq(Frames)
           /\ Sending \in Seq(Frames) /\ overflow_skbs \in Seq(Frames)
<1>1. OnRing \in Seq(Frames)
  BY RingSeq DEF FlushInv
<1>2. Sending \in Seq(Frames)
  BY DEF Sending, FlushInv, Types
<1> QED BY <1>1, <1>2 DEF InTransit, Sending, FlushInv, Types

\* Without frames off the ring, what is in transit is what is on it.
LEMMA AllOnRing ==
    ASSUME FlushInv, RingFilled, Drained PROVE InTransit = OnRing
BY Places, ConcatEmptySeq DEF Drained, Sending

\* A frame moved from the third place to the end of the first or second, when it is
\* the next one, keeps its place in the order.
LEMMA Moved ==
    ASSUME NEW S, NEW a \in Seq(S), NEW b \in Seq(S), NEW c \in Seq(S), NEW f \in S
    PROVE  /\ ((Append(a, f) \o <<>>) \o <<>>) \o c = ((a \o <<>>) \o <<f>>) \o c
           /\ ((a \o Append(b, f)) \o <<>>) \o c = ((a \o b) \o <<f>>) \o c
<1>1. <<f>> \in Seq(S) /\ <<>> \in Seq(S)
  OBVIOUS
<1>2. Append(a, f) \in Seq(S) /\ Append(b, f) \in Seq(S)
  BY AppendProperties
<1>3. (Append(a, f) \o <<>>) \o <<>> = Append(a, f)
  BY <1>2, ConcatEmptySeq
<1>4. (a \o <<>>) \o <<f>> = Append(a, f)
  BY ConcatEmptySeq, AppendIsConcat
<1>5. a \o Append(b, f) \in Seq(S)
  BY <1>2, ConcatProperties
<1>6. (a \o Append(b, f)) \o <<>> = a \o Append(b, f)
  BY <1>5, ConcatEmptySeq
<1>7. a \o Append(b, f) = (a \o b) \o <<f>>
  BY <1>1, AppendIsConcat, ConcatAssociative
<1> QED BY <1>3, <1>4, <1>6, <1>7

\* The next of the frames in the fourth place comes to the third.
LEMMA MovedUp ==
    ASSUME NEW S, NEW a \in Seq(S), NEW c \in Seq(S), c # <<>>
    PROVE  (a \o <<Head(c)>>) \o Tail(c) = (a \o <<>>) \o c
<1>1. Head(c) \in S /\ Tail(c) \in Seq(S) /\ Len(c) \in Nat \ {0}
  BY HeadTailProperties, EmptySeq
<1>2. <<Head(c)>> \in Seq(S)
  BY <1>1
<1>3. <<Head(c)>> \o Tail(c) = c
  <2>1. 1 \in 1 .. Len(c) /\ Len(c) \in 1 .. Len(c)
    BY <1>1
  <2>2. SubSeq(c, 1, Len(c)) = <<c[1]>> \o SubSeq(c, 1 + 1, Len(c))
    BY <2>1, SubSeqRecursiveFirst
  <2>3. SubSeq(c, 1, Len(c)) = c /\ Tail(c) = SubSeq(c, 2, Len(c)) /\ Head(c) = c[1]
    BY SubSeqFull, TailIsSubSeq
  <2> QED BY <2>2, <2>3
<1>4. (a \o <<Head(c)>>) \o Tail(c) = a \o c
  BY <1>1, <1>2, <1>3, ConcatAssociative
<1> QED BY <1>4, ConcatEmptySeq

\* f is the i-th element of s, and t what is left of s without it.
OutOf(s, i, f, t) ==
    /\ i \in 1 .. Len(s) /\ s[i] = f
    /\ SubSeq(s, 1, i - 1) \o SubSeq(s, i + 1, Len(s)) = t

\* What is left when the frame in the third place is taken out.
LEMMA TakenOut ==
    ASSUME NEW S, NEW a \in Seq(S), NEW c \in Seq(S), NEW f \in S
    PROVE  OutOf((a \o <<f>>) \o c, Len(a) + 1, f, a \o c)
<1> DEFINE s == (a \o <<f>>) \o c
           i == Len(a) + 1
<1> SUFFICES /\ i \in 1 .. Len(s) /\ s[i] = f
             /\ SubSeq(s, 1, i - 1) \o SubSeq(s, i + 1, Len(s)) = a \o c
  BY DEF OutOf
<1>0. s = (a \o <<f>>) \o c /\ i = Len(a) + 1
  OBVIOUS
<1> HIDE DEF s, i
<1>1. PICK m \in Nat : m = Len(a)
  BY LenProperties
<1>2. PICK n \in Nat : n = Len(c)
  BY LenProperties
<1>3. <<f>> \in Seq(S) /\ Len(<<f>>) = 1 /\ <<f>>[1] = f
  OBVIOUS
<1>4. /\ a \o <<f>> \in Seq(S) /\ Len(a \o <<f>>) = m + 1
      /\ \A j \in 1 .. m + 1 : (a \o <<f>>)[j] = IF j <= m THEN a[j] ELSE <<f>>[j - m]
  BY <1>1, <1>3, ConcatProperties
<1>5. /\ s \in Seq(S) /\ Len(s) = m + 1 + n
      /\ \A j \in 1 .. m + 1 + n : s[j] = IF j <= m + 1 THEN (a \o <<f>>)[j] ELSE c[j - (m + 1)]
  <2>1. PICK p \in Seq(S) : p = a \o <<f>> /\ Len(p) = m + 1
    BY <1>4
  <2>2. /\ p \o c \in Seq(S) /\ Len(p \o c) = Len(p) + Len(c)
        /\ \A j \in 1 .. Len(p) + Len(c) :
               (p \o c)[j] = IF j <= Len(p) THEN p[j] ELSE c[j - Len(p)]
    BY <2>1, ConcatProperties
  <2> QED BY <1>0, <1>2, <2>1, <2>2
<1>6. \A j \in 1 .. m : s[j] = a[j]
  BY <1>1, <1>2, <1>4, <1>5
<1>7. i \in 1 .. Len(s) /\ s[i] = f
  BY <1>0, <1>1, <1>2, <1>3, <1>4, <1>5
<1>8. \A j \in 1 .. n : s[m + 1 + j] = c[j]
  <2> SUFFICES ASSUME NEW j \in 1 .. n PROVE s[m + 1 + j] = c[j]
    OBVIOUS
  <2>1. PICK k \in 1 .. m + 1 + n : k = m + 1 + j /\ ~(k <= m + 1) /\ k - (m + 1) = j
    <3>1. m \in Nat /\ n \in Nat /\ j \in Nat /\ 1 <= j /\ j <= n
      BY <1>1, <1>2
    <3>2. m + 1 + j \in 1 .. m + 1 + n
      BY <3>1
    <3>3. ~(m + 1 + j <= m + 1) /\ (m + 1 + j) - (m + 1) = j
      BY <3>1
    <3> QED BY <3>2, <3>3
  <2> QED BY <1>5, <2>1
<1>9. SubSeq(s, 1, i - 1) = a
  <2>1. \A j \in 1 .. m : s[j] \in S
    BY <1>1, <1>6, ElementOfSeq
  <2>2. /\ SubSeq(s, 1, m) \in Seq(S)
        /\ Len(SubSeq(s, 1, m)) = IF 1 <= m THEN m - 1 + 1 ELSE 0
        /\ \A j \in 1 .. m - 1 + 1 : SubSeq(s, 1, m)[j] = s[1 + j - 1]
    BY <1>1, <2>1, SubSeqProperties
  <2>3. Len(SubSeq(s, 1, m)) = m /\ \A j \in 1 .. m : SubSeq(s, 1, m)[j] = s[j]
    BY <1>1, <2>2
  <2>4. SubSeq(s, 1, m) = a
    BY <1>1, <1>6, <2>2, <2>3, SeqEqual
  <2> QED BY <1>0, <1>1, <2>4
<1>10. SubSeq(s, i + 1, Len(s)) = c
  <2>1. PICK q : q = SubSeq(s, i + 1, Len(s))
    OBVIOUS
  <2>2. i \in 0 .. Len(s) /\ Len(s) - i = n
    BY <1>0, <1>1, <1>2, <1>5
  <2>3. q \in Seq(S) /\ Len(q) = n /\ \A j \in 1 .. n : q[j] = s[i + j]
    <3>1. /\ q \in Seq(S) /\ Len(q) = Len(s) - i
          /\ \A j \in 1 .. Len(s) - i : q[j] = s[i + j]
      BY <1>5, <2>1, <2>2, Suffix
    <3> QED BY <2>2, <3>1
  <2>4. \A j \in 1 .. n : q[j] = c[j]
    BY <1>0, <1>1, <1>8, <2>3
  <2> QED BY <1>2, <2>1, <2>3, <2>4, SeqEqual
<1> QED BY <1>7, <1>9, <1>10

\* s and a have the first n elements in common; in s, the rest of a and b follow.
SameFront(s, a, n, b) ==
    /\ n \in 1 .. Len(s) /\ \A j \in 1 .. n : s[j] = a[j]
    /\ SubSeq(s, n + 1, Len(s)) = SubSeq(a, n + 1, Len(a)) \o b

\* What is left of two places when the first frames of the first are gone.
LEMMA FrontGone ==
    ASSUME NEW S, NEW a \in Seq(S), NEW b \in Seq(S), NEW n \in 1 .. Len(a)
    PROVE  SameFront(a \o b, a, n, b) /\ SubSeq(a, n + 1, Len(a)) \in Seq(S)
<1> DEFINE s == a \o b
<1> SUFFICES /\ n \in 1 .. Len(s) /\ \A j \in 1 .. n : s[j] = a[j]
             /\ SubSeq(s, n + 1, Len(s)) = SubSeq(a, n + 1, Len(a)) \o b
             /\ SubSeq(a, n + 1, Len(a)) \in Seq(S)
  BY DEF SameFront
<1>0. s = a \o b
  OBVIOUS
<1> HIDE DEF s
<1>1. PICK m \in Nat : m = Len(a)
  BY LenProperties
<1>2. PICK k \in Nat : k = Len(b)
  BY LenProperties
<1>3. n \in Nat /\ n <= m
  BY <1>1
<1>4. /\ s \in Seq(S) /\ Len(s) = m + k
      /\ \A j \in 1 .. m + k : s[j] = IF j <= m THEN a[j] ELSE b[j - m]
  BY <1>0, <1>1, <1>2, ConcatProperties
<1>5. n \in 1 .. Len(s) /\ \A j \in 1 .. n : s[j] = a[j]
  <2>1. n \in 1 .. m + k /\ 1 .. n \subseteq 1 .. m + k /\ \A j \in 1 .. n : j <= m
    BY <1>2, <1>3
  <2> QED BY <1>4, <2>1
<1>6. PICK r : r = SubSeq(a, n + 1, Len(a))
  OBVIOUS
<1>7. n \in 0 .. Len(a) /\ n \in 0 .. Len(s)
  BY <1>1, <1>2, <1>3, <1>4
<1>8. r \in Seq(S) /\ Len(r) = m - n /\ \A j \in 1 .. m - n : r[j] = a[n + j]
  BY <1>1, <1>6, <1>7, Suffix
<1>9. PICK u \in Nat : u = m + k
  BY <1>1, <1>2
<1>10. PICK t : t = SubSeq(s, n + 1, Len(s))
  OBVIOUS
<1>11. t \in Seq(S) /\ Len(t) = u - n /\ \A j \in 1 .. u - n : t[j] = s[n + j]
  BY <1>4, <1>7, <1>9, <1>10, Suffix
<1>12. PICK d \in Nat : d = m - n
  <2>1. m - n \in Nat
    BY <1>1, <1>3
  <2> QED BY <2>1
<1>13. /\ r \o b \in Seq(S) /\ Len(r \o b) = d + k
       /\ \A j \in 1 .. d + k : (r \o b)[j] = IF j <= d THEN r[j] ELSE b[j - d]
  <2>1. /\ r \o b \in Seq(S) /\ Len(r \o b) = Len(r) + Len(b)
        /\ \A j \in 1 .. Len(r) + Len(b) :
               (r \o b)[j] = IF j <= Len(r) THEN r[j] ELSE b[j - Len(r)]
    BY <1>8, ConcatProperties
  <2> QED BY <1>2, <1>8, <1>12, <2>1
<1>14. ASSUME NEW j \in 1 .. u - n PROVE t[j] = (r \o b)[j]
  <2>1. PICK i \in 1 .. u : i = n + j
    BY <1>3, <1>9
  <2>2. t[j] = s[i] /\ s[i] = IF i <= m THEN a[i] ELSE b[i - m]
    BY <1>4, <1>9, <1>11, <2>1
  <2>3. j \in 1 .. d + k
    BY <1>1, <1>2, <1>3, <1>9, <1>12
  <2>4. CASE i <= m
    <3>1. j \in 1 .. m - n /\ j <= d
      BY <1>1, <1>3, <1>12, <2>1, <2>4
    <3> QED BY <1>8, <1>13, <2>1, <2>2, <2>3, <2>4, <3>1
  <2>5. CASE ~(i <= m)
    <3>1. ~(j <= d) /\ j - d = i - m
      BY <1>1, <1>3, <1>12, <2>1, <2>5
    <3> QED BY <1>13, <2>2, <2>3, <2>5, <3>1
  <2> QED BY <2>4, <2>5
<1>15. t = r \o b
  <2>1. Len(t) = Len(r \o b) /\ Len(t) = u - n
    BY <1>1, <1>2, <1>3, <1>9, <1>11, <1>12, <1>13
  <2> QED BY <1>11, <1>13, <1>14, <2>1, SeqEqual
<1> QED BY <1>5, <1>6, <1>8, <1>10, <1>15

\* One step of the queue's is one of the pipe's, or none.
PipeStep == [Pipe!Next]_<<InTransit, out, failed>>

\* A step that leaves the four places and what has come out alone is none.
LEMMA SameTransit ==
    ASSUME UNCHANGED ringVars \/ OnRing' = OnRing,
           UNCHANGED <<overflow_q, resent, overflow_skbs, out, failed>>
    PROVE  PipeStep
<1>1. InTransit' = InTransit
  BY SameRing DEF InTransit
<1> QED BY <1>1 DEF PipeStep

\* The sender's frame is accepted, whether it goes to the ring or overflows, for
\* the places behind the one it goes to are empty; an error of a sender's loses
\* nothing that was accepted.
LEMMA SenderPipe ==
    ASSUME Locked, MaxSegs = 1, LockInv, SingleOK, FreshOK,
           TxOverflow(Sender) \/ TxPut(Sender) \/ TxError(Sender)
    PROVE  PipeStep
<1>1. /\ Sender \in Callers /\ Sender # Reclaimer /\ FlushInv /\ RingFilled
      /\ pc[Sender] \in TxPcs /\ Drained
  BY TxQueueAssumption DEF Callers, LockInv, SingleOK, TxOverflow, TxPut, TxError, TxPcs
<1>2. Frame(Sender) = accepted + 1 /\ Frame(Sender) \in Frames
  BY <1>1, FrameTyped DEF Frame, FlushInv
<1>3. InTransit = OnRing /\ OnRing \in Seq(Frames)
  BY <1>1, AllOnRing, Places
<1>4. CASE TxError(Sender)
  <2>1. UNCHANGED <<overflow_q, overflow_skbs, out, failed>> /\ OnRing' = OnRing
    BY <1>1, <1>4, ErrorOnRing DEF TxError
  <2>2. resent' = resent
    BY <1>1, <1>4 DEF TxError, Return
  <2> QED BY <2>1, <2>2, SameTransit
<1>5. CASE TxOverflow(Sender) \/ TxPut(Sender)
  <2>1. UNCHANGED <<overflow_skbs, resent, out, failed>>
    BY <1>1, <1>5 DEF TxOverflow, TxPut, Accept, Return
  <2>2. InTransit' = Append(InTransit, accepted + 1)
    <3>1. CASE TxPut(Sender)
      <4>1. OnRing' = Append(OnRing, accepted + 1)
        BY <1>1, <1>2, <3>1, PutOnRing
      <4>2. LockInv' /\ overflow_q' = overflow_q
        BY <1>1, <3>1, TxPutLock DEF TxPut
      <4>3. FlushInv' /\ RingFilled'
        BY <4>2 DEF LockInv
      <4>4. Append(OnRing, accepted + 1) \in Seq(Frames)
        BY <1>2, <1>3, AppendProperties
      <4>5. InTransit' = ((OnRing' \o <<>>) \o <<>>) \o <<>>
        BY <1>1, <2>1, <4>2 DEF InTransit, Drained
      <4> QED BY <1>3, <4>1, <4>4, <4>5, ConcatEmptySeq
    <3>2. CASE TxOverflow(Sender)
      <4>1. overflow_q' = <<accepted + 1>> /\ UNCHANGED ringVars
        BY <1>1, <1>2, <3>2 DEF TxOverflow, Drained
      <4>2. InTransit' = ((OnRing \o <<accepted + 1>>) \o <<>>) \o <<>>
        BY <1>1, <2>1, <4>1, SameRing DEF InTransit, Drained
      <4>3. OnRing \o <<accepted + 1>> = Append(OnRing, accepted + 1)
        BY <1>2, <1>3, AppendIsConcat
      <4>4. Append(OnRing, accepted + 1) \in Seq(Frames)
        BY <1>2, <1>3, AppendProperties
      <4> QED BY <1>3, <4>2, <4>3, <4>4, ConcatEmptySeq
    <3> QED BY <1>5, <3>1, <3>2
  <2>3. accepted \in Nat /\ accepted + 1 \notin Taken
    BY <1>1, TxQueueAssumption DEF FlushInv, Types, Taken
  <2>4. accepted + 1 \notin out \cup failed
    BY <2>3 DEF FreshOK
  <2>5. ASSUME NEW i \in DOMAIN InTransit PROVE InTransit[i] # accepted + 1
    <3>1. i \in 1 .. InRing
      BY <1>3 DEF OnRing
    <3>2. InTransit[i] = entries[At(read_ptr, i - 1)] /\ At(read_ptr, i - 1) \in Slots
      BY <1>1, <1>3, <3>1, RingSeq DEF FlushInv
    <3>3. InTransit[i] \in Taken \cup {NoFrame, Gone}
      BY <3>2 DEF FreshOK
    <3> QED BY <2>3, <3>3 DEF NoFrame, Gone
  <2>6. Pipe!Accept(accepted + 1)
    BY <2>1, <2>2, <2>4, <2>5 DEF Pipe!Accept
  <2> QED BY <1>2, <2>6 DEF PipeStep, Pipe!Next
<1> QED BY <1>4, <1>5

\* A frame that reclaim sends again moves up, to the ring or to the end of what has
\* overflowed again; or it is lost, in an error.
LEMMA ResendPipe ==
    ASSUME Locked, LockInv,
           TxOverflow(Reclaimer) \/ TxPut(Reclaimer) \/ TxError(Reclaimer)
    PROVE  PipeStep
<1>1. /\ Reclaimer \in Callers /\ FlushInv /\ RingFilled /\ pc[Reclaimer] \in TxPcs
  BY DEF Callers, LockInv, TxOverflow, TxPut, TxError, TxPcs
<1>2. resent \in Frames /\ resent # NoFrame /\ Sending = <<resent>> /\ Frame(Reclaimer) = resent
  BY <1>1 DEF FlushInv, Types, CallsOK, Sending, Frame
<1>3. /\ InTransit = ((OnRing \o overflow_q) \o <<resent>>) \o overflow_skbs
      /\ OnRing \in Seq(Frames) /\ overflow_q \in Seq(Frames) /\ overflow_skbs \in Seq(Frames)
  BY <1>1, <1>2, Places
<1>4. UNCHANGED <<overflow_skbs, out>> /\ resent' = NoFrame
  BY DEF TxOverflow, TxPut, TxError, Accept, Return
<1>5. InTransit' = ((OnRing' \o overflow_q') \o <<>>) \o overflow_skbs
  BY <1>4 DEF InTransit
<1>6. CASE TxPut(Reclaimer)
  <2>1. OnRing' = Append(OnRing, resent)
    BY <1>1, <1>2, <1>6, PutOnRing
  <2>2. overflow_q' = overflow_q /\ failed' = failed
    BY <1>6 DEF TxPut
  <2>3. overflow_q = <<>>
    <3>1. pc[Reclaimer] = "put" /\ ~NoRoom(Reclaimer)
      BY <1>6 DEF TxPut
    <3>2. room[Reclaimer] = Space(read_ptr, write_ptr)
      BY <1>1, <3>1 DEF LockInv, LockOK, HolderOK, HeldPcs
    <3> QED BY <3>1, <3>2 DEF LockInv, OverflowOK, NoRoom
  <2>4. InTransit' = InTransit
    <3>1. OnRing \in Seq(Frames) /\ overflow_skbs \in Seq(Frames) /\ resent \in Frames
      BY <1>2, <1>3
    <3>2. <<>> \in Seq(Frames)
      OBVIOUS
    <3>3. ((Append(OnRing, resent) \o <<>>) \o <<>>) \o overflow_skbs
              = ((OnRing \o <<>>) \o <<resent>>) \o overflow_skbs
      BY <3>1, <3>2, Moved
    <3> QED BY <1>3, <1>5, <2>1, <2>2, <2>3, <3>3
  <2> QED BY <1>4, <2>2, <2>4 DEF PipeStep
<1>7. CASE TxOverflow(Reclaimer)
  <2>1. overflow_q' = Append(overflow_q, resent) /\ UNCHANGED <<ringVars, failed>>
    BY <1>2, <1>7 DEF TxOverflow
  <2>2. InTransit' = InTransit
    <3>1. OnRing' = OnRing
      BY <2>1, SameRing
    <3>2. ((OnRing \o Append(overflow_q, resent)) \o <<>>) \o overflow_skbs
              = ((OnRing \o overflow_q) \o <<resent>>) \o overflow_skbs
      <4>1. /\ OnRing \in Seq(Frames) /\ overflow_q \in Seq(Frames)
            /\ overflow_skbs \in Seq(Frames) /\ resent \in Frames
        BY <1>2, <1>3
      <4> QED BY <4>1, Moved
    <3> QED BY <1>3, <1>5, <2>1, <3>1, <3>2
  <2> QED BY <1>4, <2>1, <2>2 DEF PipeStep
<1>8. CASE TxError(Reclaimer)
  <2>1. failed' = failed \cup {resent} /\ overflow_q' = overflow_q /\ OnRing' = OnRing
    BY <1>1, <1>8, ErrorOnRing DEF TxError
  <2>2. PICK a \in Seq(Frames) : a = OnRing \o overflow_q
    BY <1>3, ConcatProperties
  <2>3. InTransit' = a \o overflow_skbs
    BY <1>5, <2>1, <2>2, ConcatEmptySeq
  <2>4. PICK i : i = Len(a) + 1
    OBVIOUS
  <2>5. /\ i \in 1 .. Len(InTransit) /\ InTransit[i] = resent
        /\ SubSeq(InTransit, 1, i - 1) \o SubSeq(InTransit, i + 1, Len(InTransit)) = a \o overflow_skbs
    <3>1. OutOf((a \o <<resent>>) \o overflow_skbs, Len(a) + 1, resent, a \o overflow_skbs)
      BY <1>2, <1>3, TakenOut
    <3>2. InTransit = (a \o <<resent>>) \o overflow_skbs
      BY <1>3, <2>2
    <3>3. OutOf(InTransit, i, resent, a \o overflow_skbs)
      BY <2>4, <3>1, <3>2
    <3> QED BY <3>3 DEF OutOf
  <2>6. Pipe!Fail(i)
    BY <1>4, <2>1, <2>3, <2>5 DEF Pipe!Fail
  <2> QED BY <2>5, <2>6 DEF PipeStep, Pipe!Next
<1> QED BY <1>6, <1>7, <1>8

\* The frames that reclaim reports are the first, in their order.
LEMMA ReclaimPipe ==
    ASSUME LockInv, NEW ssn \in Slots, Reclaim(ssn) PROVE PipeStep
<1>1. FlushInv /\ Types /\ RingFilled
  BY DEF LockInv, FlushInv
<1>2. pc[Reclaimer] = "idle" /\ failed' = failed /\ resent' = resent
  BY DEF Reclaim, ReclaimerOnly
<1>3. resent = NoFrame /\ overflow_skbs = <<>>
  BY <1>1, <1>2 DEF FlushInv, CallsOK, TxPcs
<1>4. /\ InTransit = ((OnRing \o overflow_q) \o <<>>) \o <<>>
      /\ OnRing \in Seq(Frames) /\ overflow_q \in Seq(Frames)
  BY <1>1, <1>3, Places DEF Sending
<1>5. InTransit = OnRing \o overflow_q
  BY <1>4, ConcatProperties, ConcatEmptySeq
<1>6. PICK n : n = Ahead(read_ptr, ssn)
  OBVIOUS
<1>7. /\ n \in 1 .. Len(OnRing)
      /\ OnRing' = SubSeq(OnRing, n + 1, Len(OnRing))
      /\ out' = out \cup {OnRing[j] : j \in 1 .. n}
  BY <1>1, <1>6, ReclaimOnRing
<1>8. /\ n \in 1 .. Len(InTransit) /\ \A j \in 1 .. n : InTransit[j] = OnRing[j]
      /\ SubSeq(InTransit, n + 1, Len(InTransit)) = OnRing' \o overflow_q
      /\ OnRing' \in Seq(Frames)
  <2>1. /\ SameFront(OnRing \o overflow_q, OnRing, n, overflow_q)
        /\ SubSeq(OnRing, n + 1, Len(OnRing)) \in Seq(Frames)
    BY <1>4, <1>7, FrontGone
  <2> QED BY <1>5, <1>7, <2>1 DEF SameFront
<1>9. InTransit' = OnRing' \o overflow_q
  <2>1. PICK r \in Seq(Frames) : r = OnRing'
    BY <1>8
  <2>2. InTransit' = ((r \o overflow_q') \o <<>>) \o overflow_skbs'
    BY <1>2, <1>3, <2>1 DEF InTransit
  <2>3. \/ overflow_q' = overflow_q /\ overflow_skbs' = <<>>
        \/ overflow_q' = <<>> /\ overflow_skbs' = overflow_q
    BY <1>3 DEF Reclaim
  <2>4. r \o overflow_q \in Seq(Frames) /\ (r \o overflow_q) \o <<>> = r \o overflow_q
    BY <1>4, ConcatProperties, ConcatEmptySeq
  <2>5. (r \o <<>>) \o <<>> = r
    BY ConcatEmptySeq
  <2>6. CASE overflow_q' = overflow_q /\ overflow_skbs' = <<>>
    BY <2>1, <2>2, <2>4, <2>6
  <2>7. CASE overflow_q' = <<>> /\ overflow_skbs' = overflow_q
    BY <2>1, <2>2, <2>5, <2>7
  <2> QED BY <2>3, <2>6, <2>7
<1>10. {InTransit[j] : j \in 1 .. n} = {OnRing[j] : j \in 1 .. n}
  BY <1>8
<1>11. Pipe!Report(n)
  BY <1>2, <1>7, <1>8, <1>9, <1>10 DEF Pipe!Report
<1> QED BY <1>8, <1>11 DEF PipeStep, Pipe!Next

\* Reclaim takes the next frame to send; it wakes the op mode and ends.
LEMMA ReclaimerPipe ==
    ASSUME LockInv, Resend \/ Settle \/ Wake \/ Unwind PROVE PipeStep
<1>1. UNCHANGED <<ringVars, overflow_q, out, failed>>
  BY DEF Resend, Settle, Wake, Unwind, ReclaimerOnly
<1>2. CASE Resend
  <2>1. /\ pc[Reclaimer] = "resend" /\ overflow_skbs # <<>>
        /\ resent' = Head(overflow_skbs) /\ overflow_skbs' = Tail(overflow_skbs)
    BY <1>2 DEF Resend
  <2>2. FlushInv /\ RingFilled /\ resent = NoFrame
    BY <2>1 DEF LockInv, FlushInv, CallsOK, TxPcs
  <2>3. /\ InTransit = ((OnRing \o overflow_q) \o <<>>) \o overflow_skbs
        /\ OnRing \in Seq(Frames) /\ overflow_q \in Seq(Frames) /\ overflow_skbs \in Seq(Frames)
    BY <2>2, Places DEF Sending
  <2>4. resent' # NoFrame
    <3>1. Head(overflow_skbs) \in Frames
      BY <2>1, <2>3, HeadTailProperties
    <3> QED BY <2>1, <3>1 DEF Frames, NoFrame
  <2>5. InTransit' = ((OnRing \o overflow_q) \o <<Head(overflow_skbs)>>) \o Tail(overflow_skbs)
    BY <1>1, <2>1, <2>4, SameRing DEF InTransit
  <2>6. OnRing \o overflow_q \in Seq(Frames)
    BY <2>3, ConcatProperties
  <2>7. InTransit' = InTransit
    BY <2>1, <2>3, <2>5, <2>6, MovedUp
  <2> QED BY <1>1, <2>7 DEF PipeStep
<1>3. CASE Settle \/ Wake \/ Unwind
  <2>1. UNCHANGED <<resent, overflow_skbs>>
    BY <1>3 DEF Settle, Wake, Unwind, resendVars
  <2> QED BY <1>1, <2>1, SameTransit
<1> QED BY <1>2, <1>3

\* A queue that is disabled has been flushed, and is enabled empty.
LEMMA EnablePipe ==
    ASSUME Locked, LockInv, Disable \/ \E ssn \in Starts : Enable(ssn) PROVE PipeStep
<1>1. /\ LockInv' /\ UNCHANGED <<overflow_skbs, resent, out, failed>>
      /\ read_ptr = write_ptr /\ read_ptr' = write_ptr' /\ overflow_q = <<>> /\ overflow_q' = <<>>
  BY EnableLock DEF Disable, Enable, LockInv, FlushInv, FlushOK, Drained, resendVars, endVars
<1>2. read_ptr \in Slots /\ read_ptr' \in Slots
  BY <1>1 DEF LockInv, FlushInv, Types
<1>3. InRing = 0 /\ InRing' = 0
  BY <1>1, <1>2, Further DEF InRing, Ahead
<1>4. OnRing = <<>> /\ OnRing' = <<>>
  BY <1>3 DEF OnRing
<1>5. InTransit' = InTransit
  BY <1>1, <1>4 DEF InTransit
<1> QED BY <1>1, <1>5 DEF PipeStep

\* Every step is one of the pipe's, or none.
LEMMA NextPipe ==
    ASSUME Locked, MaxSegs = 1, LockInv, SingleOK, FreshOK, [Next]_vars PROVE PipeStep
<1>1. ASSUME NEW n \in 1 .. MaxSegs, Send(n) PROVE PipeStep
  BY <1>1, SameTransit DEF Send, resendVars, endVars
<1>2. ASSUME NEW t \in Callers, TxStep(t) PROVE PipeStep
  <2>1. CASE TxSpace(t) \/ TxStop(t) \/ TxFull(t)
    BY <2>1, SameTransit DEF TxSpace, TxStop, TxFull, resendVars, endVars
  <2>2. CASE TxOverflow(t) \/ TxPut(t) \/ TxError(t)
    BY <2>2, SenderPipe, ResendPipe DEF Callers
  <2> QED BY <1>2, <2>1, <2>2 DEF TxStep
<1>3. CASE ReclaimStep
  BY <1>3, ReclaimPipe, ReclaimerPipe DEF ReclaimStep
<1>4. CASE FlushStart \/ FlushStep \/ UNCHANGED vars
  BY <1>4, SameTransit DEF vars, FlushStart, FlushStep, FlushRead, FlushTest, FlushSample, FlushEnd,
     FlushOnly, resendVars, endVars
<1>5. CASE Disable \/ \E ssn \in Starts : Enable(ssn)
  BY <1>5, EnablePipe
<1> QED BY <1>1, <1>2, <1>3, <1>4, <1>5 DEF Next

\* For a sender of single segments, and with a lock that excludes, the queue is a
\* pipe: frames are reclaimed in the order in which they were accepted, over stops,
\* overflows and resends, and each of them once.
THEOREM QueueIsAPipe == Locked /\ MaxSegs = 1 => (Spec => RefinesTxPipe)
<1> SUFFICES ASSUME Locked, MaxSegs = 1 PROVE Spec => RefinesTxPipe
  OBVIOUS
<1>1. Init => Pipe!Init
  <2> SUFFICES ASSUME Init PROVE Pipe!Init
    OBVIOUS
  <2>1. 0 \in Slots
    BY Ring
  <2>2. InRing = 0
    BY <2>1, Further DEF Init, InRing, Ahead
  <2>3. OnRing = <<>>
    BY <2>2 DEF OnRing
  <2>4. InTransit = <<>>
    BY <2>3 DEF Init, InTransit
  <2> QED BY <2>4 DEF Init, Pipe!Init
<1>2. Init => FreshOK
  <2> SUFFICES ASSUME Init PROVE FreshOK
    OBVIOUS
  <2>1. <<>> \in Seq(Taken)
    OBVIOUS
  <2> QED BY <2>1 DEF Init, FreshOK
<1>3. LockInv /\ FreshOK /\ [Next]_vars => FreshOK'
  BY NextFresh
<1>4. LockInv /\ SingleOK /\ FreshOK /\ [Next]_vars => [Pipe!Next]_<<InTransit, out, failed>>
  BY NextPipe DEF PipeStep
<1>5. Spec => [](LockInv /\ SingleOK)
  BY LockInvHolds, OpModeIsTold, PTL
<1> QED BY <1>1, <1>2, <1>3, <1>4, <1>5, PTL DEF Spec, RefinesTxPipe, Pipe!Spec

=============================================================================

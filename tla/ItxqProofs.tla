---------------------------- MODULE ItxqProofs ----------------------------
(***************************************************************************)
(* No frame is taken to the transport before it has a queue for it, for any *)
(* number of senders, and whatever atomic_fetch_add_unless does; and every  *)
(* frame is in one place, counted there.                                    *)
(***************************************************************************)
EXTENDS Itxq, TLAPS, SequenceTheorems, FiniteSetTheorems

\* Where a caller has seen, or has itself made, the queue allocated.
Past == {"check", "delete", "request", "drain", "tx", "dec", "reread"}

Places == Past \cup {"idle", "wake", "test", "add", "loop"}

PcOK == pc \in [Callers -> Places]

\* The queue once allocated stays so, unless an allocation fails.
AllocatedOK ==
    failures = 0 =>
        /\ stopped => allocated
        /\ \A c \in Callers : pc[c] \in Past => allocated

IInv == failures \in Nat /\ PcOK /\ AllocatedOK /\ NoneDropped

\* A step that moves one caller, and neither the flags nor the failures, keeps
\* the invariant if the caller moves within, or with the queue allocated.
LEMMA MoveKeepsIInv ==
    ASSUME IInv, NEW c \in Callers, NEW place \in Places, At(c, place),
           failures = 0 /\ place \in Past => allocated,
           stopped' => stopped,
           UNCHANGED <<allocated, failures, dropped>>
    PROVE  IInv'
<1>1. PcOK'
  BY DEF IInv, PcOK, At
<1>2. AllocatedOK'
  BY DEF IInv, PcOK, AllocatedOK, At, Places
<1>3. NoneDropped' /\ failures' \in Nat
  BY DEF IInv, NoneDropped
<1> QED BY <1>1, <1>2, <1>3 DEF IInv

\* The callers of iwl_mvm_mac_itxq_xmit are different from each other.
LEMMA CallersAre ==
    /\ \A s \in Senders : s \in Callers /\ s # Worker
    /\ Worker \in Callers /\ Transport \in Callers /\ Transport # Worker
BY ItxqAssumption DEF Callers

\* Those who put frames in.
LEMMA SendIInv ==
    ASSUME IInv, NEW s \in Senders, Enqueue(s) \/ WakeTxQueue(s)
    PROVE  IInv'
<1> USE CallersAre DEF Places, Past
<1>1. CASE Enqueue(s)
  BY <1>1, MoveKeepsIInv DEF Enqueue, historyVars
<1>2. CASE WakeTest(s)
  BY <1>2, MoveKeepsIInv DEF WakeTest, WakeStep, queueVars, historyVars, countVars
<1>3. CASE WakeCheck(s)
  <2>1. failures = 0 => allocated
    BY <1>3 DEF WakeCheck, IInv, AllocatedOK
  <2> QED BY <2>1, <1>3, MoveKeepsIInv
      DEF WakeCheck, WakeStep, queueVars, historyVars, countVars
<1>4. CASE WakeListed(s)
  BY <1>4, MoveKeepsIInv DEF WakeListed, WakeStep, queueVars, historyVars, countVars
<1>5. CASE WakeAdd(s)
  BY <1>5, MoveKeepsIInv DEF WakeAdd, historyVars, countVars
<1> QED BY <1>1, <1>2, <1>3, <1>4, <1>5 DEF WakeTxQueue

\* The work: an allocation that fails is one that is counted.
LEMMA WorkIInv ==
    ASSUME IInv, WorkStart \/ Work
    PROVE  IInv'
<1> USE CallersAre DEF Places, Past
<1>1. CASE WorkStart
  BY <1>1, MoveKeepsIInv DEF WorkStart, historyVars, countVars
<1>2. CASE WorkEnd
  BY <1>2, MoveKeepsIInv DEF WorkEnd, WakeStep, queueVars, historyVars, countVars
<1>3. CASE WorkAlloc
  <2>1. allocated' = TRUE /\ UNCHANGED <<stopped, failures, dropped>>
    BY <1>3 DEF WorkAlloc, historyVars, countVars
  <2>2. PcOK'
    BY <1>3 DEF WorkAlloc, IInv, PcOK, At
  <2> QED BY <2>1, <2>2 DEF IInv, AllocatedOK, NoneDropped
<1>4. CASE WorkAllocFails
  <2>1. failures' = failures + 1 /\ failures' # 0 /\ failures' > 0 /\ failures' \in Nat
    BY <1>4 DEF WorkAllocFails, IInv
  <2>2. PcOK'
    BY <1>4 DEF WorkAllocFails, IInv, PcOK, At
  <2> QED BY <2>1, <2>2 DEF IInv, AllocatedOK, NoneDropped
<1>5. CASE WorkDelete
  <2>1. failures = 0 => allocated
    BY <1>5 DEF WorkDelete, IInv, AllocatedOK
  <2> QED BY <2>1, <1>5, MoveKeepsIInv DEF WorkDelete, historyVars, countVars
<1> QED BY <1>1, <1>2, <1>3, <1>4, <1>5 DEF Work

\* The transport: it stops a queue that there is.
LEMMA TransportIInv ==
    ASSUME IInv, Stop \/ Resume
    PROVE  IInv'
<1>1. CASE Stop
  <2>1. allocated /\ UNCHANGED <<allocated, pc, failures, dropped>>
    BY <1>1 DEF Stop, historyVars
  <2> QED BY <2>1 DEF IInv, PcOK, AllocatedOK, NoneDropped
<1>2. CASE Resume
  <2>1. failures = 0 => allocated
    BY <1>2 DEF Resume, IInv, AllocatedOK
  <2> QED BY <2>1, <1>2, MoveKeepsIInv, CallersAre
      DEF Resume, historyVars, countVars, Places, Past
<1> QED BY <1>1, <1>2

\* Those who take frames out: wherever they are, there is a queue.
LEMMA XmitIInv ==
    ASSUME IInv, NEW c \in Callers, Xmit(c)
    PROVE  IInv'
<1>1. failures = 0 => allocated
  BY DEF IInv, AllocatedOK, Past, Xmit, TxRequest, Dequeue, Tx, Drained, TxDone, TxReread
<1>2. Idle(c) \in Places
  BY DEF Idle, Places
<1> USE DEF Places, Past, historyVars, countVars
<1>3. CASE TxRequest(c)
  BY <1>1, <1>2, <1>3, MoveKeepsIInv DEF TxRequest
<1>4. CASE Dequeue(c)
  BY <1>1, <1>4, MoveKeepsIInv DEF Dequeue
<1>5. CASE Tx(c)
  <2>1. UNCHANGED <<allocated, stopped, failures>> /\ At(c, "drain")
    BY <1>5 DEF Tx, queueVars
  <2>2. PcOK'
    BY <2>1 DEF IInv, PcOK, At
  <2>3. AllocatedOK'
    BY <1>1, <2>1 DEF IInv, AllocatedOK
  <2>4. NoneDropped'
    BY <1>1, <1>5, <2>1 DEF IInv, NoneDropped, Tx
  <2> QED BY <2>1, <2>2, <2>3, <2>4 DEF IInv
<1>6. CASE Drained(c)
  BY <1>1, <1>6, MoveKeepsIInv DEF Drained, queueVars
<1>7. CASE TxDone(c)
  BY <1>1, <1>2, <1>7, MoveKeepsIInv DEF TxDone
<1>8. CASE TxReread(c)
  BY <1>1, <1>2, <1>8, MoveKeepsIInv DEF TxReread, queueVars
<1> QED BY <1>3, <1>4, <1>5, <1>6, <1>7, <1>8 DEF Xmit

\* The parts of the argument hold together, of every behaviour.
THEOREM IInvHolds == Spec => []IInv
<1>1. Init => IInv
  BY DEF Init, IInv, PcOK, AllocatedOK, NoneDropped, Places, Past
<1>2. IInv /\ [Next]_vars => IInv'
  <2> SUFFICES ASSUME IInv, [Next]_vars PROVE IInv'
    OBVIOUS
  <2>1. CASE UNCHANGED vars
    BY <2>1 DEF vars, queueVars, historyVars, countVars, IInv, PcOK, AllocatedOK, NoneDropped
  <2>2. CASE Next
    BY <2>1, <2>2, SendIInv, WorkIInv, TransportIInv, XmitIInv DEF Next, Quiet
  <2> QED BY <2>1, <2>2
<1> QED BY <1>1, <1>2, PTL DEF Spec

\* "should defer the frame": a sender that finds the queue allocated, the work
\* that hands on what was deferred and the resume drop no frame.
THEOREM FramesAreDeferred == Spec => []NoneDropped
<1>1. IInv => NoneDropped
  BY DEF IInv
<1> QED BY <1>1, IInvHolds, PTL

-----------------------------------------------------------------------------
(* Types, and where a frame is                                             *)

\* Everything but the count of the frames.  Who has a frame in hand is about to
\* send it, and the work takes only an entry off the list that it has found there.
TypesOK ==
    /\ txq \in Seq(Frames) /\ sent \in Seq(Frames)
    /\ {allocated, work, stopped} \subseteq BOOLEAN
    /\ listed \in Nat /\ (pc[Worker] = "delete" => listed > 0)
    /\ tx_request \in 0 .. Width - 1
    /\ pc \in [Callers -> Places]
    /\ skb \in [Callers -> Frames \cup {None}]
    /\ \A c \in Callers : pc[c] = "tx" <=> skb[c] # None
    /\ count \in [Callers -> 0 .. Width - 1]
    /\ frames \in 0 .. MaxFrames

\* A frame in the queue or in a hand is nowhere else, and has been sent by someone.
PlacesOK ==
    /\ \A i, j \in 1 .. Len(txq) : txq[i] = txq[j] => i = j
    /\ \A c, d \in Callers : skb[c] = skb[d] /\ skb[c] # None => c = d
    /\ InQueue \cap InHand = {} /\ (InQueue \cup InHand) \cap dropped = {}
    /\ InQueue \cup InHand \cup dropped \subseteq 1 .. frames

AllCounted == Len(txq) + Cardinality(InHand) + Len(sent) + Cardinality(dropped) = frames

TypeInv == TypesOK /\ PlacesOK /\ AllCounted

\* The count of tx_request and the number of the next frame stay within their width.
LEMMA Widths ==
    /\ \A x \in Nat : x % Width \in 0 .. Width - 1
    /\ 0 \in 0 .. Width - 1 /\ Width \in Nat /\ MaxFrames \in Nat
    /\ \A n \in 0 .. MaxFrames : n < MaxFrames => n + 1 \in 0 .. MaxFrames /\ n + 1 \in Frames
BY ItxqAssumption DEF Frames

\* The frames that are about are as many as have been sent at most.
LEMMA FramesFinite ==
    ASSUME TypesOK, PlacesOK
    PROVE  /\ IsFiniteSet(InHand) /\ Cardinality(InHand) \in Nat
           /\ IsFiniteSet(dropped) /\ Cardinality(dropped) \in Nat
           /\ Len(txq) \in Nat /\ Len(sent) \in Nat
<1>1. IsFiniteSet(1 .. frames)
  BY FS_Interval DEF TypesOK
<1>2. InHand \in SUBSET (1 .. frames) /\ dropped \in SUBSET (1 .. frames)
  BY DEF PlacesOK
<1>3. IsFiniteSet(InHand) /\ IsFiniteSet(dropped)
  BY <1>1, <1>2, FS_Subset
<1>4. Len(txq) \in Nat /\ Len(sent) \in Nat
  BY LenProperties DEF TypesOK
<1> QED BY <1>3, <1>4, FS_CardinalityType

\* A step that moves a caller, and no frame.
LEMMA MoveKeepsTypes ==
    ASSUME TypeInv, NEW c \in Callers, NEW place \in Places, At(c, place),
           place # "tx" /\ pc[c] # "tx",
           place = "delete" => c = Worker /\ listed' > 0,
           listed' \in Nat /\ (listed' >= listed \/ pc[Worker] # "delete" \/ c = Worker),
           {allocated', work', stopped'} \subseteq BOOLEAN,
           tx_request' \in 0 .. Width - 1, count' \in [Callers -> 0 .. Width - 1],
           UNCHANGED <<txq, skb, historyVars, frames>>
    PROVE  TypeInv'
<1>1. \A d \in Callers : pc'[d] = IF d = c THEN place ELSE pc[d]
  BY DEF TypeInv, TypesOK, At
<1>2. pc' \in [Callers -> Places]
  BY DEF TypeInv, TypesOK, At
<1>3. listed' \in Nat /\ (pc'[Worker] = "delete" => listed' > 0)
  BY <1>1, CallersAre DEF TypeInv, TypesOK
<1>4. \A d \in Callers : pc'[d] = "tx" <=> skb'[d] # None
  BY <1>1 DEF TypeInv, TypesOK
<1>5. TypesOK'
  BY <1>2, <1>3, <1>4 DEF TypeInv, TypesOK, historyVars
<1>6. InQueue' = InQueue /\ InHand' = InHand /\ UNCHANGED <<txq, skb, sent, dropped, frames>>
  BY DEF InQueue, InHand, historyVars
<1>7. PlacesOK' /\ AllCounted'
  BY <1>6 DEF TypeInv, PlacesOK, AllCounted
<1> QED BY <1>5, <1>7 DEF TypeInv

\* mac80211 queues a frame that nobody has had before.
LEMMA EnqueueTypes ==
    ASSUME TypeInv, NEW s \in Senders, Enqueue(s)
    PROVE  TypeInv'
<1>1. /\ pc[s] = "idle" /\ pc' = [pc EXCEPT ![s] = "wake"] /\ frames' = frames + 1
      /\ frames < MaxFrames /\ txq' = Append(txq, frames + 1)
      /\ UNCHANGED <<allocated, listed, work, stopped, tx_request, skb, count, sent, dropped>>
  BY DEF Enqueue, At, historyVars
<1>2. s \in Callers /\ s # Worker /\ Worker \in Callers
  BY CallersAre
<1>3. frames' \in 0 .. MaxFrames /\ frames + 1 \in Frames /\ frames \in Nat
  BY <1>1, Widths DEF TypeInv, TypesOK
<1>4. PICK f \in Frames : f = frames + 1
  BY <1>3
<1>5. PICK n \in Nat : n = Len(txq)
  BY LenProperties DEF TypeInv, TypesOK
<1>6. /\ txq' \in Seq(Frames) /\ Len(txq') = n + 1 /\ txq'[n + 1] = f
      /\ \A i \in 1 .. n : txq'[i] = txq[i]
  BY <1>1, <1>4, <1>5, AppendProperties DEF TypeInv, TypesOK
<1>7. /\ InQueue = {txq[i] : i \in 1 .. n} /\ InQueue' = {txq'[i] : i \in 1 .. n + 1}
      /\ InHand' = InHand
  BY <1>1, <1>5, <1>6, LenProperties DEF TypeInv, TypesOK, InQueue, InHand
<1>8. InQueue' = InQueue \cup {f}
  BY <1>5, <1>6, <1>7
<1>9. \A e \in InQueue \cup InHand \cup dropped : e # f /\ e \in 1 .. frames'
  BY <1>1, <1>3, <1>4 DEF TypeInv, PlacesOK
<1>10. \A c \in Callers : pc'[c] = IF c = s THEN "wake" ELSE pc[c]
  BY <1>1, <1>2 DEF TypeInv, TypesOK
<1>11. TypesOK'
  <2>1. pc' \in [Callers -> Places] /\ (pc'[Worker] = "delete" => listed' > 0)
    BY <1>1, <1>2, <1>10 DEF TypeInv, TypesOK, Places
  <2>2. \A c \in Callers : pc'[c] = "tx" <=> skb'[c] # None
    BY <1>1, <1>10 DEF TypeInv, TypesOK
  <2> QED BY <1>1, <1>3, <1>6, <2>1, <2>2 DEF TypeInv, TypesOK
<1>12. PlacesOK'
  <2>1. \A i, j \in 1 .. n + 1 : txq'[i] = txq'[j] => i = j
    <3>1. \A i \in 1 .. n : txq'[i] = txq[i] /\ txq[i] # f
      BY <1>6, <1>7, <1>9
    <3>2. \A i, j \in 1 .. n : txq[i] = txq[j] => i = j
      BY <1>5 DEF TypeInv, PlacesOK
    <3> QED BY <1>6, <3>1, <3>2
  <2>2. f \in 1 .. frames'
    BY <1>1, <1>3, <1>4
  <2> QED BY <1>1, <1>6, <1>7, <1>8, <1>9, <2>1, <2>2 DEF TypeInv, PlacesOK
<1>13. AllCounted'
  BY <1>1, <1>3, <1>5, <1>6, <1>7, FramesFinite DEF TypeInv, AllCounted
<1> QED BY <1>11, <1>12, <1>13 DEF TypeInv

\* ieee80211_tx_dequeue: the first frame goes from the queue to the caller's hand.
LEMMA DequeueTypes ==
    ASSUME TypeInv, NEW c \in Callers, Dequeue(c)
    PROVE  TypeInv'
<1>1. /\ pc[c] = "drain" /\ txq # <<>> /\ pc' = [pc EXCEPT ![c] = "tx"]
      /\ skb' = [skb EXCEPT ![c] = Head(txq)] /\ txq' = Tail(txq)
      /\ UNCHANGED <<allocated, listed, work, stopped, tx_request, count, sent, dropped, frames>>
  BY DEF Dequeue, At, historyVars, countVars
<1>2. txq \in Seq(Frames) /\ pc \in [Callers -> Places] /\ skb \in [Callers -> Frames \cup {None}]
  BY DEF TypeInv, TypesOK
<1>3. PICK f \in Frames : f = Head(txq)
  BY <1>1, <1>2, HeadTailProperties
<1>4. PICK n \in Nat : n = Len(txq)
  BY <1>2, LenProperties
<1>5. /\ n >= 1 /\ f = txq[1] /\ txq' \in Seq(Frames) /\ Len(txq') = n - 1
      /\ \A i \in 1 .. n - 1 : txq'[i] = txq[i + 1]
  BY <1>1, <1>2, <1>3, <1>4, HeadTailProperties, EmptySeq
<1>6. f # None /\ skb[c] = None
  BY <1>1, <1>3 DEF Frames, None, TypeInv, TypesOK
<1>7. \A d \in Callers : pc'[d] = (IF d = c THEN "tx" ELSE pc[d])
                         /\ skb'[d] = (IF d = c THEN f ELSE skb[d])
  BY <1>1, <1>2, <1>3
<1>8. InQueue = {txq[i] : i \in 1 .. n} /\ InQueue' = {txq'[i] : i \in 1 .. n - 1}
  BY <1>2, <1>4, <1>5, LenProperties DEF InQueue
<1>9. \A i \in 1 .. n - 1 : i + 1 \in 1 .. n /\ 1 \in 1 .. n /\ i + 1 # 1
  BY <1>4, <1>5
<1>10. \A i, j \in 1 .. n : txq[i] = txq[j] => i = j
  BY <1>4 DEF TypeInv, PlacesOK
<1>11. InQueue' \subseteq InQueue \ {f} /\ f \in InQueue
  BY <1>5, <1>8, <1>9, <1>10
<1>12. InHand' = InHand \cup {f} /\ f \notin InHand
  <2>1. InHand' = InHand \cup {f}
    BY <1>6, <1>7 DEF InHand
  <2> QED BY <2>1, <1>11 DEF TypeInv, PlacesOK
<1>13. TypesOK'
  <2>1. pc' \in [Callers -> Places] /\ skb' \in [Callers -> Frames \cup {None}]
    BY <1>1, <1>2, <1>3 DEF Places, Past
  <2>2. \A d \in Callers : pc'[d] = "tx" <=> skb'[d] # None
    BY <1>6, <1>7 DEF TypeInv, TypesOK
  <2>3. pc'[Worker] = "delete" => listed' > 0
    BY <1>1, <1>7, CallersAre DEF TypeInv, TypesOK
  <2> QED BY <1>1, <1>5, <2>1, <2>2, <2>3 DEF TypeInv, TypesOK
<1>14. PlacesOK'
  <2>1. \A i, j \in 1 .. n - 1 : txq'[i] = txq'[j] => i = j
    BY <1>4, <1>5, <1>9, <1>10
  <2>2. \A d, e \in Callers : skb'[d] = skb'[e] /\ skb'[d] # None => d = e
    <3>1. \A d \in Callers : skb[d] # f
      BY <1>6, <1>12 DEF InHand
    <3> QED BY <1>7, <3>1 DEF TypeInv, PlacesOK
  <2> QED BY <1>1, <1>5, <1>11, <1>12, <2>1, <2>2 DEF TypeInv, PlacesOK
<1>15. AllCounted'
  <2>1. Cardinality(InHand') = Cardinality(InHand) + 1
    BY <1>12, FramesFinite, FS_AddElement DEF TypeInv
  <2>2. n + Cardinality(InHand) + Len(sent) + Cardinality(dropped) = frames
    BY <1>4 DEF TypeInv, AllCounted
  <2>3. (n - 1) + Cardinality(InHand') + Len(sent) + Cardinality(dropped) = frames
    BY <2>1, <2>2, FramesFinite DEF TypeInv
  <2> QED BY <1>1, <1>5, <2>3 DEF AllCounted
<1> QED BY <1>13, <1>14, <1>15 DEF TypeInv

\* iwl_mvm_tx_skb: the frame goes to the transport queue, or is dropped.
LEMMA TxTypes ==
    ASSUME TypeInv, NEW c \in Callers, Tx(c)
    PROVE  TypeInv'
<1>1. /\ pc[c] = "tx" /\ pc' = [pc EXCEPT ![c] = "drain"] /\ skb' = [skb EXCEPT ![c] = None]
      /\ UNCHANGED <<txq, allocated, listed, work, stopped, tx_request, count, frames>>
  BY DEF Tx, At, queueVars, countVars
<1>2. pc \in [Callers -> Places] /\ skb \in [Callers -> Frames \cup {None}]
  BY DEF TypeInv, TypesOK
<1>3. PICK f \in Frames : f = skb[c]
  BY <1>1, <1>2 DEF TypeInv, TypesOK
<1>4. f # None
  BY <1>3 DEF Frames, None
<1>5. \A d \in Callers : pc'[d] = (IF d = c THEN "drain" ELSE pc[d])
                         /\ skb'[d] = (IF d = c THEN None ELSE skb[d])
  BY <1>1, <1>2
<1>6. InQueue' = InQueue
  BY <1>1 DEF InQueue
<1>7. InHand' = InHand \ {f} /\ f \in InHand
  <2>1. \A d \in Callers : skb[d] = f => d = c
    BY <1>3, <1>4 DEF TypeInv, PlacesOK
  <2> QED BY <1>3, <1>4, <1>5, <2>1 DEF InHand
<1>8. Cardinality(InHand') = Cardinality(InHand) - 1
  BY <1>7, FramesFinite, FS_RemoveElement DEF TypeInv
<1>9. f \notin dropped /\ f \notin InQueue /\ f \in 1 .. frames
  BY <1>7 DEF TypeInv, PlacesOK
<1>10. \/ sent' = Append(sent, f) /\ dropped' = dropped
       \/ sent' = sent /\ dropped' = dropped \cup {f}
  BY <1>3 DEF Tx
<1>11. /\ sent' \in Seq(Frames)
       /\ Len(sent') + Cardinality(dropped') = Len(sent) + Cardinality(dropped) + 1
  <2>1. CASE sent' = Append(sent, f) /\ dropped' = dropped
    <3>1. sent' \in Seq(Frames) /\ Len(sent') = Len(sent) + 1
      BY <2>1, AppendProperties DEF TypeInv, TypesOK
    <3> QED BY <2>1, <3>1, FramesFinite DEF TypeInv
  <2>2. CASE sent' = sent /\ dropped' = dropped \cup {f}
    <3>1. Cardinality(dropped') = Cardinality(dropped) + 1
      BY <1>9, <2>2, FramesFinite, FS_AddElement DEF TypeInv
    <3> QED BY <2>2, <3>1, FramesFinite DEF TypeInv, TypesOK
  <2> QED BY <1>10, <2>1, <2>2
<1>12. TypesOK'
  <2>1. pc' \in [Callers -> Places] /\ skb' \in [Callers -> Frames \cup {None}]
    BY <1>1, <1>2 DEF Places, Past
  <2>2. \A d \in Callers : pc'[d] = "tx" <=> skb'[d] # None
    BY <1>5 DEF TypeInv, TypesOK
  <2>3. pc'[Worker] = "delete" => listed' > 0
    BY <1>1, <1>5, CallersAre DEF TypeInv, TypesOK
  <2> QED BY <1>1, <1>11, <2>1, <2>2, <2>3 DEF TypeInv, TypesOK
<1>13. PlacesOK'
  <2>1. \A d, e \in Callers : skb'[d] = skb'[e] /\ skb'[d] # None => d = e
    BY <1>5 DEF TypeInv, PlacesOK
  <2>2. dropped' \subseteq dropped \cup {f}
    BY <1>10
  <2> QED BY <1>1, <1>6, <1>7, <1>9, <2>1, <2>2 DEF TypeInv, PlacesOK
<1>14. AllCounted'
  <2>1. Len(txq) + (Cardinality(InHand) - 1) + (Len(sent') + Cardinality(dropped')) = frames
    BY <1>11, FramesFinite DEF TypeInv, AllCounted
  <2>2. Len(sent') \in Nat /\ Cardinality(dropped') \in Nat
    <3>1. dropped' = dropped \/ dropped' = dropped \cup {f}
      BY <1>10
    <3>2. IsFiniteSet(dropped')
      BY <3>1, FramesFinite, FS_AddElement DEF TypeInv
    <3> QED BY <1>11, <3>2, LenProperties, FS_CardinalityType
  <2> QED BY <1>1, <1>8, <2>1, <2>2, FramesFinite DEF TypeInv, AllCounted
<1> QED BY <1>12, <1>13, <1>14 DEF TypeInv

\* A step of someone who is putting a frame in.
LEMMA WakeTypes ==
    ASSUME TypeInv, NEW s \in Senders, WakeTxQueue(s)
    PROVE  TypeInv'
<1> USE CallersAre DEF Places, Past, historyVars, countVars
<1>1. /\ {allocated, work, stopped} \subseteq BOOLEAN /\ listed \in Nat
      /\ tx_request \in 0 .. Width - 1 /\ count \in [Callers -> 0 .. Width - 1]
  BY DEF TypeInv, TypesOK
<1>2. CASE WakeTest(s) \/ WakeCheck(s) \/ WakeListed(s)
  BY <1>1, <1>2, MoveKeepsTypes DEF WakeTest, WakeCheck, WakeListed, WakeStep, queueVars
<1>3. CASE WakeAdd(s)
  BY <1>1, <1>3, MoveKeepsTypes DEF WakeAdd
<1> QED BY <1>2, <1>3 DEF WakeTxQueue

\* The work, and the transport's stop and resume.
LEMMA WorkTypes ==
    ASSUME TypeInv, WorkStart \/ Work \/ Stop \/ Resume
    PROVE  TypeInv'
<1> USE CallersAre DEF Places, Past, historyVars, countVars
<1>1. /\ {allocated, work, stopped} \subseteq BOOLEAN /\ listed \in Nat
      /\ tx_request \in 0 .. Width - 1 /\ count \in [Callers -> 0 .. Width - 1]
      /\ pc[Worker] = "delete" => listed > 0
  BY DEF TypeInv, TypesOK
<1>2. CASE WorkStart \/ WorkEnd
  BY <1>1, <1>2, MoveKeepsTypes DEF WorkStart, WorkEnd, WakeStep, queueVars
<1>3. CASE WorkAlloc \/ WorkAllocFails
  BY <1>1, <1>3, MoveKeepsTypes DEF WorkAlloc, WorkAllocFails
<1>4. CASE WorkDelete
  <2>1. listed' \in Nat
    BY <1>1, <1>4 DEF WorkDelete
  <2> QED BY <1>1, <1>4, <2>1, MoveKeepsTypes DEF WorkDelete
<1>5. CASE Stop
  <2>1. UNCHANGED <<txq, allocated, listed, work, tx_request, pc, skb, count, sent, dropped, frames>>
        /\ stopped' = TRUE
    BY <1>5 DEF Stop
  <2>2. InQueue' = InQueue /\ InHand' = InHand
    BY <2>1 DEF InQueue, InHand
  <2> QED BY <2>1, <2>2 DEF TypeInv, TypesOK, PlacesOK, AllCounted
<1>6. CASE Resume
  <2>1. /\ pc[Transport] = "idle" /\ At(Transport, "request") /\ stopped' = FALSE
        /\ UNCHANGED <<txq, allocated, listed, work, tx_request, skb, count, historyVars, frames>>
    BY <1>6 DEF Resume
  <2>2. {allocated', work', stopped'} \subseteq BOOLEAN
    BY <1>1, <2>1
  <2> QED BY <1>1, <2>1, <2>2, MoveKeepsTypes
<1> QED BY <1>2, <1>3, <1>4, <1>5, <1>6 DEF Work

\* iwl_mvm_mac_itxq_xmit, whose count wraps in its width.
LEMMA XmitTypes ==
    ASSUME TypeInv, NEW c \in Callers, Xmit(c)
    PROVE  TypeInv'
<1> USE CallersAre DEF Places, Past, historyVars, countVars
<1>1. /\ {allocated, work, stopped} \subseteq BOOLEAN /\ listed \in Nat
      /\ tx_request \in 0 .. Width - 1 /\ count \in [Callers -> 0 .. Width - 1]
      /\ Idle(c) \in Places /\ Idle(c) \notin {"tx", "delete"}
  BY DEF TypeInv, TypesOK, Idle
<1>2. CASE TxRequest(c)
  <2>1. tx_request + 1 \in Nat /\ (tx_request + 1) % Width \in 0 .. Width - 1
    BY <1>1, Widths
  <2>2. tx_request' \in 0 .. Width - 1
    BY <1>1, <1>2, <2>1 DEF TxRequest
  <2> QED BY <1>1, <1>2, <2>2, MoveKeepsTypes DEF TxRequest
<1>3. CASE Drained(c)
  <2>1. count' \in [Callers -> 0 .. Width - 1]
    BY <1>1, <1>3 DEF Drained
  <2> QED BY <1>1, <1>3, <2>1, MoveKeepsTypes DEF Drained, queueVars
<1>4. CASE TxDone(c)
  <2>1. count[c] + Width - 1 \in Nat
    BY <1>1, Widths
  <2>2. Decremented(c) \in 0 .. Width - 1
    BY <2>1, Widths DEF Decremented
  <2>3. tx_request' \in 0 .. Width - 1 /\ count' \in [Callers -> 0 .. Width - 1]
    BY <1>1, <1>4, <2>2, Widths DEF TxDone
  <2> QED BY <1>1, <1>4, <2>3, MoveKeepsTypes DEF TxDone
<1>5. CASE TxReread(c)
  BY <1>1, <1>5, MoveKeepsTypes DEF TxReread, queueVars
<1> QED BY <1>2, <1>3, <1>4, <1>5, DequeueTypes, TxTypes DEF Xmit

\* Every variable has its type, tx_request though it runs below zero, and a frame
\* that has been sent is in the queue, in one caller's hand, with the transport, or
\* dropped: with any number of callers no frame is taken out twice or lost.
THEOREM FramesAreCounted == Spec => []TypeOK
<1>1. Init => TypeInv
  <2> SUFFICES ASSUME Init PROVE TypeInv
    OBVIOUS
  <2>1. txq \in Seq(Frames) /\ sent \in Seq(Frames) /\ Len(txq) = 0 /\ Len(sent) = 0
    BY EmptySeq DEF Init
  <2>2. InQueue = {} /\ InHand = {}
    BY <2>1, LenProperties DEF InQueue, InHand, Init
  <2>3. TypesOK
    <3>1. pc \in [Callers -> Places] /\ \A c \in Callers : pc[c] = "idle"
      BY DEF Init, Places
    <3>2. /\ skb \in [Callers -> Frames \cup {None}] /\ \A c \in Callers : skb[c] = None
          /\ count \in [Callers -> 0 .. Width - 1]
      BY Widths DEF Init
    <3>3. frames \in 0 .. MaxFrames
      BY Widths DEF Init
    <3>4. /\ listed \in Nat /\ tx_request \in 0 .. Width - 1
          /\ {allocated, work, stopped} \subseteq BOOLEAN
      BY Widths DEF Init
    <3> QED BY <2>1, <3>1, <3>2, <3>3, <3>4, CallersAre DEF TypesOK
  <2>4. PlacesOK
    BY <2>1, <2>2 DEF Init, PlacesOK
  <2>5. AllCounted
    BY <2>1, <2>2, FS_EmptySet DEF Init, AllCounted
  <2> QED BY <2>3, <2>4, <2>5 DEF TypeInv
<1>2. TypeInv /\ [Next]_vars => TypeInv'
  <2> SUFFICES ASSUME TypeInv, [Next]_vars PROVE TypeInv'
    OBVIOUS
  <2>1. CASE UNCHANGED vars
    <3>1. UNCHANGED <<txq, allocated, listed, work, stopped, tx_request, pc, skb, count, sent,
                      dropped, frames>>
      BY <2>1 DEF vars, queueVars, historyVars, countVars
    <3>2. InQueue' = InQueue /\ InHand' = InHand
      BY <3>1 DEF InQueue, InHand
    <3> QED BY <3>1, <3>2 DEF TypeInv, TypesOK, PlacesOK, AllCounted
  <2>2. CASE Next
    BY <2>1, <2>2, EnqueueTypes, WakeTypes, WorkTypes, XmitTypes DEF Next, Quiet
  <2> QED BY <2>1, <2>2
<1>3. TypeInv => TypeOK
  <2> SUFFICES ASSUME TypeInv PROVE TypeOK
    OBVIOUS
  <2>1. dropped \subseteq Frames
    BY Widths DEF TypeInv, TypesOK, PlacesOK, Frames
  <2> QED BY <2>1 DEF TypeInv, TypesOK, AllCounted, TypeOK, Places, Past
<1> QED BY <1>1, <1>2, <1>3, PTL DEF Spec

=============================================================================

--------------------------- MODULE HostCmdProofs ---------------------------
(***************************************************************************)
(* What a synchronous command promises, for any number of callers and any   *)
(* size of the command queue: the types, the bit that calls leave clear,    *)
(* whom a response is written to, and that a call which succeeds has been   *)
(* answered.                                                                *)
(***************************************************************************)
EXTENDS HostCmd, TLAPS, SequenceTheorems

\* The number of a call: a thread that is in one has begun it.
CallsOK ==
    /\ calls \in [Threads -> 0 .. MaxCalls]
    /\ \A t \in Threads : InCall(t) => calls[t] >= 1

Typed == TypeOK /\ CallsOK

-----------------------------------------------------------------------------
(* Types                                                                   *)

\* Pointers, deadlines and counts of the command queue stay within their bounds.
LEMMA Numbers ==
    /\ Window \in Nat /\ Window > 0 /\ Wrap \in Nat /\ Wrap > 0 /\ MaxCalls \in Nat
    /\ \A p \in Nat : Slot(p) \in Slots
    /\ \A p \in Nat : p % Wrap \in Pointers
    /\ Slots \subseteq Nat /\ Pointers \subseteq Nat /\ 0 \in Slots /\ 0 \in Pointers
BY HostCmdAssumption DEF Slot, Slots, Pointers

\* The firmware's queue and its answers are sequences of slots.
LEMMA SlotSequences ==
    ASSUME NEW s \in Seq(Slots)
    PROVE  /\ \A i \in Slots : Append(s, i) \in Seq(Slots) /\ Append(s, i) # <<>>
           /\ s # <<>> => /\ Head(s) \in Slots /\ Tail(s) \in Seq(Slots)
                          /\ \A i \in Slots : Head(Append(s, i)) = Head(s)
           /\ <<>> \in Seq(Slots)
<1>1. <<>> \in Seq(Slots)
  BY EmptySeq
<1>2. \A i \in Slots : Append(s, i) \in Seq(Slots) /\ Append(s, i) # <<>>
  BY AppendProperties
<1>3. s # <<>> => Head(s) \in Slots /\ Tail(s) \in Seq(Slots)
  OBVIOUS
<1>4. s # <<>> => \A i \in Slots : Head(Append(s, i)) = Head(s)
  OBVIOUS
<1> QED BY <1>1, <1>2, <1>3, <1>4

\* A caller inside iwl_pcie_send_hcmd_sync is in a call that has a name.
LEMMA CallTypes ==
    ASSUME Typed, NEW t \in Threads
    PROVE  InCall(t) => This(t) \in Calls
BY DEF Typed, TypeOK, CallsOK, This, Calls

\* The types are kept by TestActive (iwl_pcie_send_hcmd_sync).
LEMMA TestActiveTyped ==
    ASSUME Typed, NEW t \in Threads, TestActive(t)
    PROVE  Typed'
<1> USE DEF Typed
<1>1. TypeOK'
  BY Numbers, SlotSequences, CallTypes DEF TypeOK, TestActive, At, InCall, statusVars,
     queueVars, deviceVars, handlerVars, countVars, Kinds
<1>2. CallsOK'
  BY Numbers DEF TypeOK, CallsOK, TestActive, At, InCall, statusVars, queueVars, deviceVars,
     handlerVars, countVars, Kinds
<1> QED BY <1>1, <1>2

\* The types are kept by SetActive (__test_and_set_bit).
LEMMA SetActiveTyped ==
    ASSUME Typed, NEW t \in Threads, SetActive(t)
    PROVE  Typed'
<1>1. CASE saw[t]
  <2>1. /\ pc' = [pc EXCEPT ![t] = "idle"] /\ kind' = [kind EXCEPT ![t] = NoKind]
        /\ idx' = [idx EXCEPT ![t] = 0]
        /\ UNCHANGED <<fw_error, rfkill, queueVars, deviceVars, handlerVars, resp, restart,
                       countVars, answered>>
    BY <1>1 DEF SetActive, Finish, At
  <2>2. active' \in BOOLEAN /\ saw' \in [Threads -> BOOLEAN]
    BY DEF SetActive, Typed, TypeOK
  <2>3. CallsOK'
    BY <2>1 DEF Typed, TypeOK, CallsOK, InCall, countVars
  <2>4. TypeOK'
    BY <2>1, <2>2, Numbers DEF Typed, TypeOK, NoKind, Kinds, queueVars, deviceVars, handlerVars,
         countVars
  <2> QED BY <2>3, <2>4 DEF Typed
<1>2. CASE ~saw[t]
  BY <1>2, Numbers DEF Typed, TypeOK, CallsOK, SetActive, At, InCall,
       queueVars, deviceVars, handlerVars, countVars
<1> QED BY <1>1, <1>2

\* The types are kept by Enqueue (iwl_pcie_enqueue_hcmd).
LEMMA EnqueueTyped ==
    ASSUME Typed, NEW t \in Threads, Enqueue(t)
    PROVE  Typed'
<1> USE DEF Typed
<1>1. TypeOK'
  BY Numbers, SlotSequences, CallTypes DEF TypeOK, Enqueue, At, InCall, Put, statusVars,
     handlerVars, countVars, Kinds
<1>2. CallsOK'
  BY Numbers DEF TypeOK, CallsOK, Enqueue, At, InCall, Put, statusVars, handlerVars, countVars,
     Kinds
<1> QED BY <1>1, <1>2

\* The types are kept by NoSpace (iwl_pcie_send_hcmd_sync).
LEMMA NoSpaceTyped ==
    ASSUME Typed, NEW t \in Threads, NoSpace(t)
    PROVE  Typed'
<1> USE DEF Typed
<1>1. TypeOK'
  BY Numbers, SlotSequences, CallTypes DEF TypeOK, NoSpace, Finish, At, NoKind, InCall,
     queueVars, deviceVars, handlerVars, countVars, Kinds
<1>2. CallsOK'
  BY Numbers DEF TypeOK, CallsOK, NoSpace, Finish, At, NoKind, InCall, queueVars, deviceVars,
     handlerVars, countVars, Kinds
<1> QED BY <1>1, <1>2

\* The types are kept by Sleep (wait_event_timeout).
LEMMA SleepTyped ==
    ASSUME Typed, NEW t \in Threads, Sleep(t)
    PROVE  Typed'
<1> USE DEF Typed
<1>1. TypeOK'
  BY Numbers, SlotSequences, CallTypes DEF TypeOK, Sleep, At, InCall, WaitStep, statusVars,
     queueVars, deviceVars, handlerVars, countVars, Kinds
<1>2. CallsOK'
  BY Numbers DEF TypeOK, CallsOK, Sleep, At, InCall, WaitStep, statusVars, queueVars,
     deviceVars, handlerVars, countVars, Kinds
<1> QED BY <1>1, <1>2

\* The types are kept by TimeUp (wait_event_timeout).
LEMMA TimeUpTyped ==
    ASSUME Typed, NEW t \in Threads, TimeUp(t)
    PROVE  Typed'
<1> USE DEF Typed
<1>1. TypeOK'
  BY Numbers, SlotSequences, CallTypes DEF TypeOK, TimeUp, At, InCall, WaitStep, statusVars,
     queueVars, deviceVars, handlerVars, countVars, Kinds
<1>2. CallsOK'
  BY Numbers DEF TypeOK, CallsOK, TimeUp, At, InCall, WaitStep, statusVars, queueVars,
     deviceVars, handlerVars, countVars, Kinds
<1> QED BY <1>1, <1>2

\* The types are kept by Wakes (iwl_pcie_send_hcmd_sync).
LEMMA WakesTyped ==
    ASSUME Typed, NEW t \in Threads, Wakes(t)
    PROVE  Typed'
<1> USE DEF Typed
<1>1. TypeOK'
  BY Numbers, SlotSequences, CallTypes DEF TypeOK, Wakes, At, InCall, WaitStep, statusVars,
     queueVars, deviceVars, handlerVars, countVars, Kinds
<1>2. CallsOK'
  BY Numbers DEF TypeOK, CallsOK, Wakes, At, InCall, WaitStep, statusVars, queueVars,
     deviceVars, handlerVars, countVars, Kinds
<1> QED BY <1>1, <1>2

\* The types are kept by ClearActive (iwl_pcie_send_hcmd_sync).
LEMMA ClearActiveTyped ==
    ASSUME Typed, NEW t \in Threads, ClearActive(t)
    PROVE  Typed'
<1> USE DEF Typed
<1>1. TypeOK'
  BY Numbers, SlotSequences, CallTypes DEF TypeOK, ClearActive, At, InCall, queueVars,
     deviceVars, handlerVars, countVars, Kinds
<1>2. CallsOK'
  BY Numbers DEF TypeOK, CallsOK, ClearActive, At, InCall, queueVars, deviceVars, handlerVars,
     countVars, Kinds
<1> QED BY <1>1, <1>2

\* The types are kept by Nmi (iwl_trans_pcie_sync_nmi).
LEMMA NmiTyped ==
    ASSUME Typed, NEW t \in Threads, Nmi(t)
    PROVE  Typed'
<1> USE DEF Typed
<1>1. TypeOK'
  BY Numbers, SlotSequences, CallTypes DEF TypeOK, Nmi, At, InCall, queueVars, handlerVars,
     countVars, Kinds
<1>2. CallsOK'
  BY Numbers DEF TypeOK, CallsOK, Nmi, At, InCall, queueVars, handlerVars, countVars, Kinds
<1> QED BY <1>1, <1>2

\* The types are kept by Succeed (iwl_pcie_send_hcmd_sync).
LEMMA SucceedTyped ==
    ASSUME Typed, NEW t \in Threads, Succeed(t)
    PROVE  Typed'
<1> USE DEF Typed
<1>1. TypeOK'
  BY Numbers, SlotSequences, CallTypes DEF TypeOK, Succeed, Finish, At, NoKind, InCall,
     statusVars, queueVars, deviceVars, handlerVars, countVars, Kinds
<1>2. CallsOK'
  BY Numbers DEF TypeOK, CallsOK, Succeed, Finish, At, NoKind, InCall, statusVars, queueVars,
     deviceVars, handlerVars, countVars, Kinds
<1> QED BY <1>1, <1>2

\* The types are kept by Fail (iwl_pcie_send_hcmd_sync).
LEMMA FailTyped ==
    ASSUME Typed, NEW t \in Threads, Fail(t)
    PROVE  Typed'
<1> USE DEF Typed
<1>1. TypeOK'
  BY Numbers, SlotSequences, CallTypes DEF TypeOK, Fail, At, InCall, WaitStep, statusVars,
     queueVars, deviceVars, handlerVars, countVars, Kinds
<1>2. CallsOK'
  BY Numbers DEF TypeOK, CallsOK, Fail, At, InCall, WaitStep, statusVars, queueVars,
     deviceVars, handlerVars, countVars, Kinds
<1> QED BY <1>1, <1>2

\* The types are kept by Cancel (iwl_pcie_send_hcmd_sync).
LEMMA CancelTyped ==
    ASSUME Typed, NEW t \in Threads, Cancel(t)
    PROVE  Typed'
<1>1. meta' \in [Slots -> [call : Calls \cup {NoCall}, skb : BOOLEAN, async : BOOLEAN]]
  <2>1. meta \in [Slots -> [call : Calls \cup {NoCall}, skb : BOOLEAN, async : BOOLEAN]]
    BY DEF Typed, TypeOK
  <2>2. CASE meta' = meta
    BY <2>1, <2>2
  <2>3. CASE meta' = [meta EXCEPT ![idx[t]].skb = FALSE]
    BY <2>1, <2>3
  <2> QED BY <2>2, <2>3 DEF Cancel
<1>2. pc' = [pc EXCEPT ![t] = "idle"] /\ kind' = [kind EXCEPT ![t] = NoKind]
      /\ idx' = [idx EXCEPT ![t] = 0] /\ resp' = [resp EXCEPT ![t] = NoCall]
      /\ UNCHANGED <<statusVars, read_ptr, write_ptr, deviceVars, handlerVars, saw, restart,
                     countVars, answered>>
  BY DEF Cancel, Finish, At
<1> QED
  BY <1>1, <1>2, Numbers DEF Typed, TypeOK, CallsOK, InCall, NoKind, Kinds,
     statusVars, deviceVars, handlerVars, countVars

\* The types are kept by SendAsync (iwl_pcie_send_hcmd_async).
LEMMA SendAsyncTyped ==
    ASSUME Typed, NEW t \in Threads, SendAsync(t)
    PROVE  Typed'
<1> USE DEF Typed
<1>1. TypeOK'
  BY Numbers, SlotSequences, CallTypes DEF TypeOK, SendAsync, InCall, Put, AsyncMay,
     statusVars, handlerVars, callVars, Kinds
<1>2. CallsOK'
  BY Numbers DEF TypeOK, CallsOK, SendAsync, InCall, Put, AsyncMay, statusVars, handlerVars,
     callVars, Kinds
<1> QED BY <1>1, <1>2

\* The types are kept by AsyncNoSpace (iwl_pcie_enqueue_hcmd).
LEMMA AsyncNoSpaceTyped ==
    ASSUME Typed, NEW t \in Threads, AsyncNoSpace(t)
    PROVE  Typed'
<1> USE DEF Typed
<1>1. TypeOK'
  BY Numbers, SlotSequences, CallTypes DEF TypeOK, AsyncNoSpace, InCall, AsyncMay, statusVars,
     queueVars, deviceVars, handlerVars, callVars, Kinds
<1>2. CallsOK'
  BY Numbers DEF TypeOK, CallsOK, AsyncNoSpace, InCall, AsyncMay, statusVars, queueVars,
     deviceVars, handlerVars, callVars, Kinds
<1> QED BY <1>1, <1>2

\* The types are kept by Answer (the firmware answering a host command).
LEMMA AnswerTyped ==
    ASSUME Typed, Answer
    PROVE  Typed'
<1> USE DEF Typed
<1>1. TypeOK'
  BY Numbers, SlotSequences DEF TypeOK, Answer, InCall, statusVars, queueVars, handlerVars,
     callVars, countVars
<1>2. CallsOK'
  BY Numbers DEF TypeOK, CallsOK, Answer, InCall, statusVars, queueVars, handlerVars, callVars,
     countVars
<1> QED BY <1>1, <1>2

\* The types are kept by Crash (the firmware asserting).
LEMMA CrashTyped ==
    ASSUME Typed, Crash
    PROVE  Typed'
<1> USE DEF Typed
<1>1. TypeOK'
  BY Numbers, SlotSequences DEF TypeOK, Crash, InCall, statusVars, queueVars, handlerVars,
     callVars
<1>2. CallsOK'
  BY Numbers DEF TypeOK, CallsOK, Crash, InCall, statusVars, queueVars, handlerVars, callVars
<1> QED BY <1>1, <1>2

\* The types are kept by CompleteLook (iwl_pcie_hcmd_complete).
LEMMA CompleteLookTyped ==
    ASSUME Typed, CompleteLook
    PROVE  Typed'
<1> USE DEF Typed
<1>1. TypeOK'
  BY Numbers, SlotSequences DEF TypeOK, CompleteLook, InCall, statusVars, queueVars,
     deviceVars, callVars, countVars
<1>2. CallsOK'
  BY Numbers DEF TypeOK, CallsOK, CompleteLook, InCall, statusVars, queueVars, deviceVars,
     callVars, countVars
<1> QED BY <1>1, <1>2

\* The types are kept by CompleteStore (iwl_pcie_hcmd_complete).
LEMMA CompleteStoreTyped ==
    ASSUME Typed, CompleteStore
    PROVE  Typed'
<1> USE DEF Typed
<1>1. TypeOK'
  <2>1. /\ hpc' = "wake" /\ steal' = FALSE
        /\ UNCHANGED <<statusVars, write_ptr, meta, deviceVars, pc, kind, idx, saw, restart,
                       countVars>>
    BY DEF CompleteStore
  <2>2. rx # <<>> /\ Head(rx) \in Slots
    BY SlotSequences DEF TypeOK, CompleteStore
  <2>3. meta[Head(rx)].call \in Calls \cup {NoCall}
    BY <2>2 DEF TypeOK
  <2>4. resp' \in [Threads -> Calls \cup {NoCall}]
    BY <2>3 DEF TypeOK, CompleteStore
  <2>5. read_ptr' \in Pointers
    <3>1. read_ptr \in Nat /\ Slot(read_ptr) \in Nat /\ Head(rx) \in Nat
      BY Numbers, <2>2 DEF TypeOK
    <3>2. Reclaimed(Head(rx)) \in Nat
      BY Numbers, <3>1 DEF Reclaimed
    <3>3. (read_ptr + Reclaimed(Head(rx))) % Wrap \in Pointers
      BY Numbers, <3>1, <3>2
    <3> QED BY <3>3 DEF TypeOK, CompleteStore
  <2>6. answered' \subseteq Threads
    BY <2>3 DEF TypeOK, CompleteStore, Calls, NoCall
  <2> QED
    BY <2>1, <2>2, <2>4, <2>5, <2>6 DEF TypeOK, InCall, statusVars, deviceVars, countVars
<1>2. CallsOK'
  BY Numbers DEF TypeOK, CallsOK, CompleteStore, InCall, statusVars, deviceVars, countVars,
     This, NoCall
<1> QED BY <1>1, <1>2

\* The types are kept by CompleteWake (iwl_pcie_hcmd_complete).
LEMMA CompleteWakeTyped ==
    ASSUME Typed, CompleteWake
    PROVE  Typed'
<1> USE DEF Typed
<1>1. TypeOK'
  BY Numbers, SlotSequences DEF TypeOK, CompleteWake, WakeOne, Asleep, NoMeta, InCall,
     countVars, NoCall
<1>2. CallsOK'
  BY Numbers DEF TypeOK, CallsOK, CompleteWake, WakeOne, Asleep, NoMeta, InCall, countVars,
     NoCall
<1> QED BY <1>1, <1>2

\* The types are kept by HandleError (iwl_pcie_irq_handle_error).
LEMMA HandleErrorTyped ==
    ASSUME Typed, HandleError
    PROVE  Typed'
<1> USE DEF Typed
<1>1. TypeOK'
  BY Numbers, SlotSequences DEF TypeOK, HandleError, WakeOne, Asleep, InCall, queueVars,
     deviceVars, handlerVars, countVars
<1>2. CallsOK'
  BY Numbers DEF TypeOK, CallsOK, HandleError, WakeOne, Asleep, InCall, queueVars, deviceVars,
     handlerVars, countVars
<1> QED BY <1>1, <1>2

\* The types are kept by Restart (_iwl_trans_pcie_stop_device).
LEMMA RestartTyped ==
    ASSUME Typed, Restart
    PROVE  Typed'
<1> USE DEF Typed
<1>1. TypeOK'
  BY Numbers, SlotSequences DEF TypeOK, Restart, InCall, Unlocked, handlerVars, callVars,
     countVars
<1>2. CallsOK'
  BY Numbers DEF TypeOK, CallsOK, Restart, InCall, Unlocked, handlerVars, callVars, countVars
<1> QED BY <1>1, <1>2

\* The types are kept by Send (iwl_trans_send_cmd).
LEMMA SendTyped ==
    ASSUME Typed, NEW t \in Threads, NEW k \in Kinds, Send(t, k)
    PROVE  Typed'
<1> USE DEF Typed
<1>1. CallsOK'
  BY Numbers DEF TypeOK, CallsOK, Send, At, InCall
<1>2. TypeOK'
  BY Numbers DEF TypeOK, Send, At, statusVars, queueVars, deviceVars, handlerVars
<1> QED BY <1>1, <1>2

\* The types are kept by RadioOff (iwl_pcie_handle_rfkill_irq).
LEMMA RadioOffTyped ==
    ASSUME Typed, NEW stop \in BOOLEAN, RadioOff(stop)
    PROVE  Typed'
<1> USE DEF Typed
<1>1. TypeOK'
  BY Numbers, SlotSequences DEF TypeOK, RadioOff, WakeOne, Asleep, Emptied, GateOpen, deviceVars,
     handlerVars
<1>2. CallsOK'
  BY Numbers DEF TypeOK, CallsOK, RadioOff, WakeOne, Asleep, InCall
<1> QED BY <1>1, <1>2

\* Every step of the callers, the handlers and the device keeps the types.
LEMMA NextTyped ==
    ASSUME Typed, [Next]_vars
    PROVE  Typed'
<1>1. CASE UNCHANGED vars
  BY <1>1 DEF Typed, TypeOK, CallsOK, InCall, vars, statusVars, queueVars, deviceVars,
     handlerVars, callVars, countVars
<1>2. ASSUME NEW t \in Threads,
             (\E k \in Kinds : Send(t, k)) \/ Moves(t) \/ TimeUp(t) \/ SendAsync(t) \/ AsyncNoSpace(t)
      PROVE  Typed'
  BY <1>2, SendTyped, TestActiveTyped, SetActiveTyped, EnqueueTyped, NoSpaceTyped, SleepTyped,
     TimeUpTyped, WakesTyped, ClearActiveTyped, NmiTyped, SucceedTyped, FailTyped, CancelTyped,
     SendAsyncTyped, AsyncNoSpaceTyped DEF Moves
<1>3. ASSUME Answer \/ Crash \/ (\E stop \in BOOLEAN : RadioOff(stop)) \/ HandlerStep \/ Restart
      PROVE  Typed'
  BY <1>3, AnswerTyped, CrashTyped, RadioOffTyped, CompleteLookTyped, CompleteStoreTyped,
     CompleteWakeTyped, HandleErrorTyped, RestartTyped DEF HandlerStep
<1> QED BY <1>1, <1>2, <1>3 DEF Next, Quiet

\* A command queue as iwl_pcie_tx_init leaves it has the types.
LEMMA InitTyped ==
    ASSUME Init
    PROVE  Typed
<1>1. CallsOK
  BY Numbers DEF Init, CallsOK, InCall
<1>2. todo \in Seq(Slots) /\ rx \in Seq(Slots)
  BY EmptySeq DEF Init
<1>3. meta \in [Slots -> [call : Calls \cup {NoCall}, skb : BOOLEAN, async : BOOLEAN]]
  BY DEF Init, NoMeta
<1>4. kind \in [Threads -> Kinds] /\ resp \in [Threads -> Calls \cup {NoCall}]
  BY DEF Init, Kinds
<1>5. TypeOK
  BY <1>2, <1>3, <1>4, Numbers DEF Init, TypeOK
<1> QED BY <1>1, <1>5 DEF Typed

\* Every variable has its type, in every behaviour.
THEOREM TypeCorrect == Spec => []TypeOK
<1>1. Init => Typed
  BY InitTyped
<1>2. Typed => TypeOK
  BY DEF Typed
<1> QED BY <1>1, <1>2, NextTyped, PTL DEF Spec

-----------------------------------------------------------------------------
(* The bit of the active command                                           *)

Places == {"idle", "test", "set", "enqueue", "sleep", "asleep", "woken", "late", "check", "clear",
           "nmi", "cancel"}

\* Where a caller has the bit for its own.
Holding == {"enqueue", "sleep", "asleep", "late", "clear"}

\* One call at a time, and the bit is set only for it.
BusyOK ==
    /\ \A t, u \in Threads : InCall(t) /\ InCall(u) => t = u
    /\ active => \E t \in Threads : pc[t] \in Holding
    /\ NeverBusy

\* A step in which no call begins and nobody loses the bit but by clearing it.
LEMMA NobodyBegins ==
    ASSUME Typed, BusyOK, UNCHANGED saw,
           \A u \in Threads : ~InCall(u) => pc'[u] = "idle",
           active' => active /\ \A u \in Threads : pc[u] \in Holding => pc'[u] \in Holding
    PROVE  BusyOK'
<1>1. (\A t, u \in Threads : InCall(t) /\ InCall(u) => t = u)'
  BY DEF BusyOK, InCall
<1>2. (active => \E t \in Threads : pc[t] \in Holding)'
  BY DEF BusyOK
<1>3. NeverBusy'
  BY DEF BusyOK, NeverBusy
<1> QED BY <1>1, <1>2, <1>3 DEF BusyOK

\* The steps of a caller in its call.
LEMMA MovesBusyOK ==
    ASSUME Typed, BusyOK, NEW t \in Threads, Moves(t) \/ TimeUp(t)
    PROVE  BusyOK'
<1> USE DEF Typed, At
<1>0. /\ pc \in [Threads -> Places] /\ saw \in [Threads -> BOOLEAN]
      /\ ~saw[t] /\ InCall(t)
      /\ \A u \in Threads : u # t => pc[u] = "idle"
      /\ pc[t] \notin Holding => ~active
  <2>1. pc \in [Threads -> Places] /\ saw \in [Threads -> BOOLEAN] /\ ~saw[t]
    BY DEF TypeOK, BusyOK, NeverBusy, Places
  <2>2. InCall(t)
    BY DEF InCall, Moves, TestActive, SetActive, Enqueue, NoSpace, Sleep, TimeUp, Wakes,
           ClearActive, Nmi, Succeed, Fail, Cancel
  <2>3. \A u \in Threads : u # t => pc[u] = "idle"
    BY <2>2 DEF BusyOK, InCall
  <2>4. pc[t] \notin Holding => ~active
    BY <2>3 DEF BusyOK, Holding
  <2> QED BY <2>1, <2>2, <2>3, <2>4
<1>1. CASE TestActive(t)
  <2>1. ~active /\ ~active' /\ saw' = [saw EXCEPT ![t] = active]
        /\ pc' = [pc EXCEPT ![t] = "set"]
    BY <1>0, <1>1 DEF TestActive, Holding, statusVars
  <2>2. NeverBusy'
    BY <2>1, <1>0 DEF BusyOK, NeverBusy
  <2> QED BY <2>1, <2>2, <1>0 DEF BusyOK, InCall
<1>2. CASE SetActive(t)
  <2>1. saw' = [saw EXCEPT ![t] = FALSE] /\ pc' = [pc EXCEPT ![t] = "enqueue"]
    BY <1>0, <1>2 DEF SetActive
  <2>2. NeverBusy'
    BY <2>1, <1>0 DEF BusyOK, NeverBusy
  <2> QED BY <2>1, <2>2, <1>0 DEF BusyOK, InCall, Holding
<1>3. CASE Enqueue(t) \/ Sleep(t) \/ TimeUp(t)
  BY <1>0, <1>3, NobodyBegins
     DEF Enqueue, Sleep, TimeUp, WaitStep, statusVars, Holding, InCall
<1>4. CASE NoSpace(t) \/ ClearActive(t)
  BY <1>0, <1>4, NobodyBegins DEF NoSpace, ClearActive, Finish, InCall
<1>5. CASE Wakes(t) /\ pc[t] = "late"
  BY <1>0, <1>5, NobodyBegins DEF Wakes, WaitStep, statusVars, Holding, InCall
<1>6. CASE Wakes(t) /\ pc[t] = "woken"
  BY <1>0, <1>6, NobodyBegins DEF Wakes, WaitStep, statusVars, Holding, InCall
<1>7. CASE Nmi(t) \/ Succeed(t) \/ Fail(t) \/ Cancel(t)
  BY <1>0, <1>7, NobodyBegins
     DEF Nmi, Succeed, Fail, Cancel, Finish, WaitStep, statusVars, Holding, InCall
<1> QED BY <1>1, <1>2, <1>3, <1>4, <1>5, <1>6, <1>7 DEF Moves, Wakes

\* A call begins when no other is under way, and the bit is clear.
LEMMA SendBusyOK ==
    ASSUME Typed, BusyOK, Serialized, NEW t \in Threads, NEW k \in Kinds, Send(t, k)
    PROVE  BusyOK'
<1>1. \A u \in Threads : pc[u] = "idle"
  BY DEF Send, InCall
<1>2. ~active
  BY <1>1 DEF BusyOK, Holding
<1>3. UNCHANGED <<active, saw>> /\ pc' = [pc EXCEPT ![t] = "test"]
  BY DEF Send, At, statusVars
<1> QED BY <1>1, <1>2, <1>3 DEF BusyOK, NeverBusy, InCall, Typed, TypeOK

\* What others do: whoever is woken up finds the bit clear.
LEMMA OthersBusyOK ==
    ASSUME Typed, BusyOK,
           \/ \E t \in Threads : SendAsync(t) \/ AsyncNoSpace(t)
           \/ Answer \/ Crash \/ (\E stop \in BOOLEAN : RadioOff(stop))
           \/ HandlerStep \/ Restart \/ UNCHANGED vars
    PROVE  BusyOK'
<1> USE DEF statusVars, callVars, vars
<1>0. pc \in [Threads -> Places]
  BY DEF Typed, TypeOK, Places
<1>1. CASE UNCHANGED <<active, pc, saw>>
  BY <1>0, <1>1, NobodyBegins DEF InCall
<1>2. CASE ~active' /\ WakeOne /\ UNCHANGED saw
  BY <1>0, <1>2, NobodyBegins DEF WakeOne, Asleep, InCall
<1>3. CASE ~active' /\ UNCHANGED <<pc, saw>>
  BY <1>0, <1>3, NobodyBegins DEF InCall
<1> QED
  BY <1>1, <1>2, <1>3 DEF SendAsync, AsyncNoSpace, AsyncMay, Answer, Crash, RadioOff, HandlerStep,
     CompleteLook, CompleteStore, CompleteWake, HandleError, Restart

\* Every step leaves one call at a time, and the bit to it.
LEMMA NextBusyOK ==
    ASSUME Serialized, Typed, BusyOK, [Next]_vars
    PROVE  BusyOK'
BY MovesBusyOK, SendBusyOK, OthersBusyOK DEF Next, Quiet

\* At the start nobody calls.
LEMMA InitBusyOK == Init => BusyOK
BY DEF Init, BusyOK, NeverBusy, InCall

\* If something keeps synchronous calls apart, none finds "a command is already
\* active", whichever way the one before it has ended.
THEOREM BitNotLeftBehind == Serialized => (Spec => []NeverBusy)
<1>1. Init => Typed /\ BusyOK
  BY InitTyped, InitBusyOK
<1>2. Serialized /\ Typed /\ BusyOK /\ [Next]_vars => Typed' /\ BusyOK'
  BY NextTyped, NextBusyOK
<1>3. Typed /\ BusyOK => NeverBusy
  BY DEF BusyOK
<1>4. CASE Serialized
  BY <1>1, <1>2, <1>3, <1>4, PTL DEF Spec
<1> QED BY <1>4

-----------------------------------------------------------------------------
(* Whose entry it is                                                       *)

Waiting == {"sleep", "asleep", "woken", "late", "check", "clear", "nmi", "cancel"}

\* An entry names a call that has begun; that of a call under way is the one
\* its caller has noted.
EntryOK ==
    \A i \in Slots :
        /\ meta[i].call # NoCall => meta[i].call[2] <= calls[meta[i].call[1]]
        /\ \A t \in Threads :
              meta[i].call = This(t) /\ InCall(t) => pc[t] \in Waiting /\ i = idx[t]

\* There is no response before there is a command.
RespOK == \A t \in Threads : pc[t] \in {"test", "set", "enqueue"} => resp[t] = NoCall

\* A flag for a caller under the gate is there only for its call, until the
\* response has been stored.
FlagOK ==
    \A t \in Gated, i \in Slots :
        meta[i].skb /\ meta[i].call[1] = t =>
            /\ meta[i].call = This(t) /\ InCall(t) /\ kind[t].skb
            /\ resp[t] = NoCall \/ (hpc = "wake" /\ i = Head(rx))

\* The handler has the gate ...
HandlerOK == hpc # "idle" => \A t \in Gated : pc[t] \in Outside

\* ... and the flag, as it read it, is that of a call under way.
StoreOK ==
    hpc = "store" /\ steal =>
        \A t \in Gated :
            meta[Head(rx)].call[1] = t => meta[Head(rx)].call = This(t) /\ InCall(t)

OwnOK == EntryOK /\ RespOK /\ FlagOK /\ HandlerOK /\ StoreOK

\* The types, as the lemmas about ownership use them.
LEMMA Own ==
    ASSUME Typed
    PROVE  /\ pc \in [Threads -> Places] /\ Gated \subseteq Threads
           /\ calls \in [Threads -> Nat] /\ idx \in [Threads -> Slots]
           /\ resp \in [Threads -> Calls \cup {NoCall}] /\ kind \in [Threads -> Kinds]
           /\ meta \in [Slots -> [call : Calls \cup {NoCall}, skb : BOOLEAN, async : BOOLEAN]]
           /\ rx \in Seq(Slots)
           /\ hpc # "idle" => rx # <<>> /\ Head(rx) \in Slots
           /\ hpc \in {"idle", "store", "wake"}
BY HostCmdAssumption, SlotSequences DEF Typed, TypeOK, CallsOK, Places

\* wake_up moves one sleeper, and nothing else, to where it goes on.
LEMMA WokenUp ==
    ASSUME Typed, WakeOne
    PROVE  \A u \in Threads : pc'[u] # pc[u] => pc[u] = "asleep" /\ pc'[u] = "woken"
<1>1. CASE UNCHANGED pc
  BY <1>1
<1>2. ASSUME NEW t \in Asleep, pc' = [pc EXCEPT ![t] = "woken"]
      PROVE  \A u \in Threads : pc'[u] # pc[u] => pc[u] = "asleep" /\ pc'[u] = "woken"
  BY <1>2, Own DEF Asleep
<1> QED BY <1>1, <1>2 DEF WakeOne

\* A call is named by its caller and its number; two callers have no name in common.
LEMMA CallNames ==
    ASSUME NEW c \in Calls
    PROVE  c = <<c[1], c[2]>> /\ c # NoCall /\ c[1] \in Threads /\ c[2] \in Nat
<1>1. PICK t \in Threads, n \in 1 .. MaxCalls : c = <<t, n>>
  BY DEF Calls
<1>2. c # NoCall
  <2>1. Len(c) = 2 /\ Len(NoCall) = 0
    BY <1>1 DEF NoCall
  <2> QED BY <2>1
<1> QED BY <1>1, <1>2, Numbers

\* A step that neither begins nor ends a call, nor touches an entry.
LEMMA CallsGoOn ==
    ASSUME Typed, OwnOK, Typed',
           UNCHANGED <<meta, calls, kind, idx, resp, hpc, steal>>,
           hpc # "idle" => Head(rx') = Head(rx),
           \A u \in Threads : /\ InCall(u)' <=> InCall(u)
                              /\ pc[u] \in Waiting => pc'[u] \in Waiting
                              /\ pc'[u] \in {"test", "set", "enqueue"}
                                    => pc[u] \in {"test", "set", "enqueue"},
           \A u \in Gated : hpc # "idle" /\ pc[u] \in Outside => pc'[u] \in Outside
    PROVE  OwnOK'
<1> USE Own DEF OwnOK, This
<1>1. EntryOK'
  BY DEF EntryOK
<1>2. RespOK'
  BY DEF RespOK
<1>3. FlagOK'
  BY DEF FlagOK
<1>4. HandlerOK'
  BY DEF HandlerOK
<1>5. StoreOK'
  BY DEF StoreOK
<1> QED BY <1>1, <1>2, <1>3, <1>4, <1>5

\* A call ends: a caller under the gate has left no flag behind.
LEMMA CallEnds ==
    ASSUME Typed, OwnOK, NEW t \in Threads, Finish(t),
           UNCHANGED <<calls, hpc, steal, rx>>,
           \A u \in Threads : u # t => resp'[u] = resp[u],
           \A i \in Slots : meta'[i].call = meta[i].call /\ (meta'[i].skb => meta[i].skb),
           t \in Gated => /\ hpc = "idle"
                          /\ \A i \in Slots : ~(meta'[i].skb /\ meta[i].call[1] = t)
    PROVE  OwnOK'
<1> USE Own DEF OwnOK, This
<1>0. /\ pc'[t] = "idle"
      /\ \A u \in Threads : u # t => pc'[u] = pc[u] /\ kind'[u] = kind[u] /\ idx'[u] = idx[u]
  BY DEF Finish, At
<1>1. EntryOK'
  <2>1. ASSUME NEW i \in Slots, meta'[i].call # NoCall
        PROVE  meta'[i].call[2] <= calls'[meta'[i].call[1]]
    BY <2>1 DEF EntryOK
  <2>2. ASSUME NEW i \in Slots, NEW u \in Threads, meta'[i].call = This(u)', InCall(u)'
        PROVE  pc'[u] \in Waiting /\ i = idx'[u]
    <3>1. u # t
      BY <1>0, <2>2 DEF InCall
    <3>2. meta[i].call = This(u) /\ InCall(u)
      BY <1>0, <2>2, <3>1 DEF InCall
    <3>3. pc[u] \in Waiting /\ i = idx[u]
      BY <3>2 DEF EntryOK
    <3> QED BY <1>0, <3>1, <3>3
  <2> QED BY <2>1, <2>2 DEF EntryOK
<1>2. RespOK'
  BY <1>0 DEF RespOK
<1>3. FlagOK'
  BY <1>0 DEF FlagOK, InCall
<1>4. HandlerOK'
  BY <1>0 DEF HandlerOK
<1>5. StoreOK'
  BY <1>0 DEF StoreOK, InCall
<1> QED BY <1>1, <1>2, <1>3, <1>4, <1>5

\* A caller under the gate is on its way only while no handler is.
LEMMA OnItsWay ==
    ASSUME Typed, OwnOK, NEW t \in Gated, pc[t] \notin Outside
    PROVE  hpc = "idle"
BY DEF OwnOK, HandlerOK

\* A caller that goes on within its call disturbs nobody's ownership.
LEMMA GoesOnOwnOK ==
    ASSUME Typed, OwnOK, NEW t \in Threads, Typed',
           \/ TestActive(t) \/ (SetActive(t) /\ ~saw[t]) \/ Sleep(t) \/ TimeUp(t) \/ Wakes(t)
           \/ ClearActive(t) \/ Nmi(t) \/ Fail(t)
    PROVE  OwnOK'
<1>1. PICK place \in Places : pc' = [pc EXCEPT ![t] = place] /\ pc[t] # "idle" /\ place # "idle"
        /\ (pc[t] \in Waiting => place \in Waiting)
        /\ (place \in {"test", "set", "enqueue"} => pc[t] \in {"test", "set", "enqueue"})
        /\ (t \in Gated /\ hpc # "idle" /\ pc[t] \in Outside => place \in Outside)
  <2> USE DEF At, Places, Waiting, Outside
  <2>1. CASE TestActive(t)
    BY <2>1 DEF TestActive
  <2>2. CASE SetActive(t) /\ ~saw[t]
    BY <2>2 DEF SetActive
  <2>3. CASE Sleep(t)
    BY <2>3 DEF Sleep
  <2>4. CASE TimeUp(t)
    BY <2>4 DEF TimeUp
  <2>5. CASE Wakes(t)
    BY <2>5 DEF Wakes, GateOpen
  <2>6. CASE ClearActive(t)
    BY <2>6 DEF ClearActive
  <2>7. CASE Nmi(t)
    BY <2>7 DEF Nmi
  <2>8. CASE Fail(t)
    BY <2>8 DEF Fail
  <2> QED BY <2>1, <2>2, <2>3, <2>4, <2>5, <2>6, <2>7, <2>8
<1>2. UNCHANGED <<meta, calls, kind, idx, resp, hpc, steal, rx>>
  BY DEF TestActive, SetActive, Sleep, TimeUp, Wakes, ClearActive, Nmi, Fail, WaitStep,
         queueVars, deviceVars, handlerVars, countVars
<1> QED BY <1>1, <1>2, Own, CallsGoOn DEF InCall

\* A caller that returns from iwl_pcie_send_hcmd_sync leaves no flag for its call.
LEMMA EndsOwnOK ==
    ASSUME Typed, OwnOK, NEW t \in Threads,
           (SetActive(t) /\ saw[t]) \/ NoSpace(t) \/ Succeed(t) \/ Cancel(t)
    PROVE  OwnOK'
<1> USE Own
<1>1. Finish(t) /\ UNCHANGED <<calls, hpc, steal, rx>>
  BY DEF SetActive, NoSpace, Succeed, Cancel, queueVars, deviceVars, handlerVars, countVars
<1>2. \A u \in Threads : u # t => resp'[u] = resp[u]
  BY DEF SetActive, NoSpace, Succeed, Cancel
<1>3. \A i \in Slots : meta'[i].call = meta[i].call /\ (meta'[i].skb => meta[i].skb)
  <2>1. CASE UNCHANGED meta
    BY <2>1
  <2>2. CASE meta' = [meta EXCEPT ![idx[t]].skb = FALSE]
    BY <2>2
  <2> QED BY <2>1, <2>2 DEF SetActive, NoSpace, Succeed, Cancel, queueVars
<1>4. ASSUME t \in Gated PROVE hpc = "idle"
  BY <1>4, OnItsWay DEF SetActive, NoSpace, Succeed, Cancel, Outside
<1>5. ASSUME t \in Gated, NEW i \in Slots, meta'[i].skb, meta[i].call[1] = t PROVE FALSE
  <2>1. /\ meta[i].skb /\ kind[t].skb /\ resp[t] = NoCall
        /\ pc[t] \in Waiting /\ i = idx[t]
    BY <1>3, <1>4, <1>5 DEF OwnOK, FlagOK, EntryOK
  <2>2. CASE SetActive(t) \/ NoSpace(t)
    BY <2>1, <2>2 DEF SetActive, NoSpace, Waiting
  <2>3. CASE Succeed(t)
    BY <2>1, <2>3 DEF Succeed, Failed
  <2>4. CASE Cancel(t)
    BY <2>1, <2>4, <1>5 DEF Cancel
  <2> QED BY <2>2, <2>3, <2>4
<1> QED BY <1>1, <1>2, <1>3, <1>4, <1>5, CallEnds

\* A new call (iwl_trans_send_cmd) has a name that nothing in the queue has.
LEMMA SendOwnOK ==
    ASSUME Typed, OwnOK, NEW t \in Threads, NEW k \in Kinds, Send(t, k)
    PROVE  OwnOK'
<1> USE Own DEF OwnOK
<1>0. /\ pc[t] = "idle" /\ pc'[t] = "test" /\ resp'[t] = NoCall
      /\ calls'[t] = calls[t] + 1 /\ (t \in Gated => hpc = "idle")
      /\ \A u \in Threads : u # t => /\ pc'[u] = pc[u] /\ kind'[u] = kind[u]
                                     /\ resp'[u] = resp[u] /\ calls'[u] = calls[u]
      /\ UNCHANGED <<meta, idx, hpc, steal, rx>>
  BY DEF Send, At, GateOpen, queueVars, deviceVars, handlerVars
<1>1. EntryOK'
  <2> SUFFICES ASSUME NEW i \in Slots
               PROVE  /\ meta[i].call # NoCall => meta[i].call[2] <= calls'[meta[i].call[1]]
                      /\ \A u \in Threads : meta[i].call = <<u, calls'[u]>> /\ pc'[u] # "idle"
                                              => pc'[u] \in Waiting /\ i = idx[u]
    BY <1>0 DEF EntryOK, InCall, This
  <2>1. meta[i].call # NoCall => /\ meta[i].call[1] \in Threads /\ meta[i].call[2] \in Nat
                                 /\ meta[i].call[2] <= calls[meta[i].call[1]]
    BY CallNames DEF EntryOK
  <2>2. meta[i].call # NoCall => meta[i].call[2] <= calls'[meta[i].call[1]]
    <3>1. \A u \in Threads : calls[u] \in Nat /\ calls[u] <= calls'[u] /\ calls'[u] \in Nat
      <4>1. \A u \in Threads : calls[u] \in Nat
        OBVIOUS
      <4>2. calls'[t] = calls[t] + 1 /\ \A u \in Threads : u # t => calls'[u] = calls[u]
        BY <1>0
      <4>3. calls[t] <= calls[t] + 1 /\ calls[t] + 1 \in Nat
        BY <4>1
      <4>4. \A n \in Nat : n <= n
        OBVIOUS
      <4> QED BY <4>1, <4>2, <4>3, <4>4, Zenon
    <3>2. \A a, b, c \in Nat : a <= b /\ b <= c => a <= c
      OBVIOUS
    <3> QED BY <2>1, <3>1, <3>2
  <2>3. meta[i].call # <<t, calls'[t]>>
    <3>1. CASE meta[i].call = NoCall
      <4>1. <<t, calls'[t]>> \in Threads \X Nat
        BY <1>0
      <4>2. Len(<<t, calls'[t]>>) = 2 /\ Len(NoCall) = 0
        BY DEF NoCall
      <4> QED BY <3>1, <4>2
    <3>2. CASE meta[i].call # NoCall
      BY <3>2, <2>1, <1>0
    <3> QED BY <3>1, <3>2
  <2>4. ASSUME NEW u \in Threads, meta[i].call = <<u, calls'[u]>>, pc'[u] # "idle"
        PROVE  pc'[u] \in Waiting /\ i = idx[u]
    BY <2>3, <2>4, <1>0 DEF EntryOK, InCall, This
  <2> QED BY <2>2, <2>4
<1>2. RespOK'
  BY <1>0 DEF RespOK
<1>3. FlagOK'
  BY <1>0 DEF FlagOK, InCall, This
<1>4. HandlerOK'
  BY <1>0 DEF HandlerOK
<1>5. StoreOK'
  BY <1>0 DEF StoreOK, InCall, This
<1> QED BY <1>1, <1>2, <1>3, <1>4, <1>5

\* The entry that is filled is no other call's of the same caller.
LEMMA EnqueueOwnOK ==
    ASSUME Typed, OwnOK, NEW t \in Threads, Enqueue(t)
    PROVE  OwnOK'
<1> DEFINE slot == Slot(write_ptr)
<1> USE Own DEF OwnOK
<1>0. /\ slot \in Slots /\ hpc = "idle" /\ pc[t] = "enqueue"
      /\ pc' = [pc EXCEPT ![t] = "sleep"] /\ idx' = [idx EXCEPT ![t] = slot]
      /\ meta' = [meta EXCEPT ![slot] = [call |-> This(t), skb |-> kind[t].skb, async |-> FALSE]]
      /\ UNCHANGED <<calls, kind, resp, hpc, steal, rx>>
  BY Numbers DEF Enqueue, Put, At, Unlocked, Typed, TypeOK, handlerVars, countVars
<1>1. \A i \in Slots : meta[i].call # This(t)
  BY <1>0 DEF EntryOK, InCall, Waiting
<1>2. EntryOK'
  <2> SUFFICES ASSUME NEW i \in Slots
               PROVE  /\ meta'[i].call # NoCall => meta'[i].call[2] <= calls[meta'[i].call[1]]
                      /\ \A u \in Threads : meta'[i].call = This(u) /\ InCall(u)'
                                              => pc'[u] \in Waiting /\ i = idx'[u]
    BY <1>0 DEF EntryOK, This
  <2>1. CASE i = slot
    <3>1. meta'[i].call = <<t, calls[t]>>
      BY <2>1, <1>0 DEF This
    <3>2. calls[t] <= calls[t]
      OBVIOUS
    <3>3. \A u \in Threads : meta'[i].call = This(u) => u = t
      BY <3>1 DEF This
    <3>4. pc'[t] \in Waiting /\ i = idx'[t]
      BY <2>1, <1>0 DEF Waiting
    <3> QED BY <3>1, <3>2, <3>3, <3>4
  <2>2. CASE i # slot
    <3>1. meta'[i] = meta[i]
      BY <2>2, <1>0
    <3>2. \A u \in Threads : u # t => pc'[u] = pc[u] /\ idx'[u] = idx[u]
      BY <1>0
    <3> QED BY <3>1, <3>2, <1>1 DEF EntryOK, InCall
  <2> QED BY <2>1, <2>2
<1>3. RespOK'
  BY <1>0 DEF RespOK
<1>4. FlagOK'
  <2> SUFFICES ASSUME NEW u \in Gated, NEW i \in Slots, meta'[i].skb, meta'[i].call[1] = u
               PROVE  /\ meta'[i].call = This(u) /\ InCall(u)' /\ kind[u].skb
                      /\ resp[u] = NoCall
    BY <1>0 DEF FlagOK, This
  <2>1. CASE i = slot
    BY <2>1, <1>0 DEF This, InCall, RespOK
  <2>2. CASE i # slot
    BY <2>2, <1>0, <1>1 DEF FlagOK, InCall
  <2> QED BY <2>1, <2>2
<1>5. HandlerOK' /\ StoreOK'
  BY <1>0 DEF HandlerOK, StoreOK
<1> QED BY <1>2, <1>3, <1>4, <1>5

\* An asynchronous command (iwl_pcie_send_hcmd_async) belongs to no call.
LEMMA SendAsyncOwnOK ==
    ASSUME Typed, OwnOK, NEW t \in Threads, SendAsync(t)
    PROVE  OwnOK'
<1> DEFINE slot == Slot(write_ptr)
<1> USE Own DEF OwnOK
<1>0. /\ slot \in Slots /\ hpc = "idle"
      /\ meta' = [meta EXCEPT ![slot] = [call |-> NoCall, skb |-> FALSE, async |-> TRUE]]
      /\ UNCHANGED <<pc, idx, calls, kind, resp, hpc, steal, rx>>
  BY Numbers DEF SendAsync, AsyncMay, Put, Unlocked, Typed, TypeOK, handlerVars, callVars
<1>1. EntryOK'
  <2>1. \A u \in Threads : NoCall # This(u)
    BY CallNames, HostCmdAssumption DEF This, NoCall
  <2> QED BY <2>1, <1>0 DEF EntryOK, InCall, This
<1>2. RespOK' /\ FlagOK'
  BY <1>0 DEF RespOK, FlagOK, InCall, This
<1>3. HandlerOK' /\ StoreOK'
  BY <1>0 DEF HandlerOK, StoreOK
<1> QED BY <1>1, <1>2, <1>3

-----------------------------------------------------------------------------
(* The handler                                                             *)

\* iwl_pcie_hcmd_complete looks at the entry of the response's own command.
LEMMA CompleteLookOwnOK ==
    ASSUME Typed, OwnOK, CompleteLook
    PROVE  OwnOK'
<1> USE Own DEF OwnOK
<1>0. /\ hpc = "idle" /\ hpc' = "store" /\ Head(rx) \in Slots /\ steal' = meta[Head(rx)].skb
      /\ \A t \in Gated : pc[t] \in Outside
      /\ UNCHANGED <<meta, pc, idx, calls, kind, resp, rx>>
  BY SlotSequences DEF CompleteLook, GateOpen, queueVars, deviceVars, callVars, countVars
<1>1. EntryOK' /\ RespOK'
  BY <1>0 DEF EntryOK, RespOK, InCall, This
<1>2. FlagOK'
  BY <1>0 DEF FlagOK, InCall, This
<1>3. HandlerOK'
  BY <1>0 DEF HandlerOK
<1>4. StoreOK'
  BY <1>0 DEF StoreOK, FlagOK, InCall, This
<1> QED BY <1>1, <1>2, <1>3, <1>4

\* iwl_pcie_hcmd_complete writes the response to the call it looked at.
LEMMA CompleteStoreOwnOK ==
    ASSUME Typed, OwnOK, CompleteStore
    PROVE  OwnOK'
<1> DEFINE owner == meta[Head(rx)].call
<1> USE Own DEF OwnOK
<1>0. /\ hpc = "store" /\ hpc' = "wake" /\ Head(rx) \in Slots
      /\ UNCHANGED <<meta, pc, idx, calls, kind, rx>>
      /\ steal' = FALSE
  BY DEF CompleteStore, deviceVars, countVars
<1>1. \A u \in Threads : resp'[u] = resp[u] \/ owner = This(u)
  BY DEF CompleteStore
<1>2. EntryOK'
  BY <1>0 DEF EntryOK, InCall, This
<1>3. RespOK'
  BY <1>0, <1>1 DEF RespOK, EntryOK, InCall, Waiting
<1>4. FlagOK'
  <2> SUFFICES ASSUME NEW u \in Gated, NEW i \in Slots, meta[i].skb, meta[i].call[1] = u
               PROVE  /\ meta[i].call = This(u) /\ InCall(u) /\ kind[u].skb
                      /\ resp'[u] = NoCall \/ i = Head(rx)
    BY <1>0 DEF FlagOK, InCall, This
  <2>1. meta[i].call = This(u) /\ InCall(u) /\ kind[u].skb /\ resp[u] = NoCall
    BY <1>0 DEF FlagOK
  <2>2. owner = This(u) => i = Head(rx)
    BY <2>1, <1>0 DEF EntryOK
  <2> QED BY <2>1, <2>2, <1>1
<1>5. HandlerOK' /\ StoreOK'
  BY <1>0 DEF HandlerOK, StoreOK
<1> QED BY <1>2, <1>3, <1>4, <1>5

\* The end of iwl_pcie_hcmd_complete clears the bit and wakes one sleeper.
LEMMA CompleteWakeOwnOK ==
    ASSUME Typed, OwnOK, CompleteWake
    PROVE  OwnOK'
<1> USE Own DEF OwnOK
<1>0. /\ hpc = "wake" /\ hpc' = "idle" /\ Head(rx) \in Slots
      /\ meta' = [meta EXCEPT ![Head(rx)] = NoMeta]
      /\ UNCHANGED <<idx, calls, kind, resp, steal>>
  BY DEF CompleteWake, countVars
<1>1. \A u \in Threads : pc'[u] # pc[u] => pc[u] = "asleep" /\ pc'[u] = "woken"
  <2>1. UNCHANGED pc \/ WakeOne
    BY DEF CompleteWake
  <2> QED BY <2>1, WokenUp
<1>2. EntryOK'
  <2>1. \A u \in Threads : NoCall # This(u)
    BY DEF This, NoCall
  <2>2. \A u \in Threads : InCall(u)' <=> InCall(u)
    BY <1>1 DEF InCall
  <2>3. \A u \in Threads : pc[u] \in Waiting => pc'[u] \in Waiting
    BY <1>1 DEF Waiting
  <2> QED BY <1>0, <2>1, <2>2, <2>3 DEF EntryOK, NoMeta, This
<1>3. RespOK'
  BY <1>0, <1>1 DEF RespOK
<1>4. FlagOK'
  <2>1. \A u \in Threads : InCall(u)' <=> InCall(u)
    BY <1>1 DEF InCall
  <2> QED BY <2>1, <1>0 DEF FlagOK, NoMeta, This
<1>5. HandlerOK' /\ StoreOK'
  BY <1>0 DEF HandlerOK, StoreOK
<1> QED BY <1>2, <1>3, <1>4, <1>5

\* The rest wakes callers up, or drops what the firmware has sent, with the gate
\* closed to the handler.
LEMMA OthersOwnOK ==
    ASSUME Typed, OwnOK, Typed',
           \/ \E t \in Threads : AsyncNoSpace(t)
           \/ Answer \/ Crash \/ (\E stop \in BOOLEAN : RadioOff(stop))
           \/ HandleError \/ Restart \/ UNCHANGED vars
    PROVE  OwnOK'
<1> USE Own
<1>1. UNCHANGED <<meta, calls, kind, idx, resp, hpc, steal>>
  BY DEF AsyncNoSpace, AsyncMay, Answer, Crash, RadioOff, HandleError, Restart, vars,
         queueVars, deviceVars, handlerVars, callVars, countVars
<1>2. UNCHANGED pc \/ WakeOne
  BY DEF AsyncNoSpace, AsyncMay, Answer, Crash, RadioOff, HandleError, Restart, vars, callVars
<1>3. \A u \in Threads : pc'[u] # pc[u] => pc[u] = "asleep" /\ pc'[u] = "woken"
  BY <1>2, WokenUp
<1>4. hpc # "idle" => Head(rx') = Head(rx)
  <2>1. CASE hpc = "idle" \/ UNCHANGED rx
    BY <2>1
  <2>2. CASE Answer /\ hpc # "idle"
    <3>1. rx' = Append(rx, Head(todo)) /\ Head(todo) \in Slots /\ rx # <<>>
      BY <2>2, SlotSequences DEF Answer, Typed, TypeOK
    <3> QED BY <3>1, SlotSequences
  <2> QED BY <2>1, <2>2 DEF AsyncNoSpace, AsyncMay, Crash, RadioOff, HandleError, Restart, vars,
        Unlocked, GateOpen, deviceVars
<1>5. \A u \in Threads : /\ InCall(u)' <=> InCall(u)
                         /\ pc[u] \in Waiting => pc'[u] \in Waiting
                         /\ pc'[u] \in {"test", "set", "enqueue"}
                               => pc[u] \in {"test", "set", "enqueue"}
                         /\ pc[u] \in Outside => pc'[u] \in Outside
  BY <1>3 DEF InCall, Waiting, Outside
<1> QED BY <1>1, <1>4, <1>5, CallsGoOn

\* Every step keeps each entry and each response whose they are.
LEMMA NextOwnOK ==
    ASSUME Typed, OwnOK, [Next]_vars
    PROVE  OwnOK'
<1>1. Typed'
  BY NextTyped
<1>2. ASSUME NEW t \in Threads,
             \/ \E k \in Kinds : Send(t, k)
             \/ Moves(t) \/ TimeUp(t) \/ SendAsync(t) \/ AsyncNoSpace(t)
      PROVE  OwnOK'
  <2>1. CASE SetActive(t)
    BY <1>1, <2>1, GoesOnOwnOK, EndsOwnOK
  <2>2. CASE TestActive(t) \/ Sleep(t) \/ TimeUp(t) \/ Wakes(t) \/ ClearActive(t) \/ Nmi(t) \/ Fail(t)
    BY <1>1, <2>2, GoesOnOwnOK
  <2>3. CASE NoSpace(t) \/ Succeed(t) \/ Cancel(t)
    BY <2>3, EndsOwnOK
  <2>4. CASE Enqueue(t) \/ SendAsync(t) \/ \E k \in Kinds : Send(t, k)
    BY <2>4, EnqueueOwnOK, SendAsyncOwnOK, SendOwnOK
  <2>5. CASE AsyncNoSpace(t)
    BY <1>1, <2>5, OthersOwnOK
  <2> QED BY <1>2, <2>1, <2>2, <2>3, <2>4, <2>5 DEF Moves
<1>3. CASE HandlerStep
  BY <1>1, <1>3, CompleteLookOwnOK, CompleteStoreOwnOK, CompleteWakeOwnOK, OthersOwnOK
     DEF HandlerStep
<1> QED BY <1>1, <1>2, <1>3, OthersOwnOK DEF Next, Quiet

\* At the start nothing is anybody's.
LEMMA InitOwnOK == Init => OwnOK
<1> SUFFICES ASSUME Init PROVE OwnOK
  OBVIOUS
<1>1. EntryOK
  BY Own, InitTyped DEF Init, EntryOK, NoMeta, InCall
<1>2. RespOK /\ FlagOK /\ HandlerOK /\ StoreOK
  BY InitTyped, Own DEF Init, RespOK, FlagOK, HandlerOK, StoreOK, NoMeta
<1> QED BY <1>1, <1>2 DEF OwnOK

\* No response is written to a call under the gate that has returned, whoever
\* else calls, and whatever is lost.
THEOREM ResponsesToLiveCalls == Spec => []GatedResponseToLiveCall
<1>1. Init => Typed /\ OwnOK
  BY InitTyped, InitOwnOK
<1>2. Typed /\ OwnOK /\ [Next]_vars => Typed' /\ OwnOK'
  BY NextTyped, NextOwnOK
<1>3. Typed /\ OwnOK => GatedResponseToLiveCall
  <2> SUFFICES ASSUME Typed, OwnOK, NEW t \in Gated, Delivers(t) PROVE Live(t)
    BY DEF GatedResponseToLiveCall
  <2> QED BY DEF OwnOK, StoreOK, Delivers, Live
<1> QED BY <1>1, <1>2, <1>3, PTL DEF Spec

-----------------------------------------------------------------------------
(* The slots of the commands that are under way                            *)

\* So many entries behind a pointer of the ring.
Back(p, d) == (p + Wrap - d) % Wrap

\* What the firmware has got, and has not yet been handled to the end.
Pending == rx \o todo

\* The slots of what is pending lie next to each other, up to the write pointer; they
\* are the queue's until they are reclaimed, or the queue is full, and stays so.
RingOK ==
    /\ Len(Pending) <= Window
    /\ \A k \in 1 .. Len(Pending) :
           Pending[k] = Slot(Back(write_ptr, Len(Pending) + 1 - k))
    /\ device = "stopped" => Pending = <<>>
    /\ device # "stopped" =>
           Used = Window \/ Used = Len(Pending) - (IF hpc = "wake" THEN 1 ELSE 0)

\* The remainder of what is less than two turns of the ring.
LEMMA Turns ==
    \A x \in Nat : x < 2 * Wrap => x % Wrap = IF x < Wrap THEN x ELSE x - Wrap
<1> SUFFICES ASSUME NEW x \in Nat, x < 2 * Wrap
             PROVE  x % Wrap = IF x < Wrap THEN x ELSE x - Wrap
  OBVIOUS
<1>1. PICK d \in Int : d = x \div Wrap
  BY Numbers
<1>2. PICK r \in 0 .. Wrap - 1 : r = x % Wrap
  BY Numbers
<1>3. x = Wrap * d + r
  BY <1>1, <1>2, Numbers
<1>4. CASE d >= 2
  <2>1. Wrap * d = 2 * Wrap + Wrap * (d - 2) /\ Wrap * (d - 2) >= 0
    BY <1>4, Numbers
  <2> QED BY <1>2, <1>3, <2>1, Numbers
<1>5. CASE d < 0
  <2>1. Wrap * d = -Wrap - Wrap * (-1 - d) /\ Wrap * (-1 - d) >= 0
    BY <1>5, Numbers
  <2> QED BY <1>2, <1>3, <2>1, Numbers
<1>6. CASE d = 1
  BY <1>2, <1>3, <1>6, Numbers
<1>7. CASE d = 0
  BY <1>2, <1>3, <1>7, Numbers
<1> QED BY <1>4, <1>5, <1>6, <1>7

\* No multiple of the window lies within it.
LEMMA NoMultiple ==
    ASSUME NEW c \in Int PROVE ~(0 < Window * c /\ Window * c < Window)
<1>1. CASE c <= 0
  <2>1. Window * c = 0 - Window * (0 - c) /\ Window * (0 - c) >= 0
    BY <1>1, Numbers
  <2> QED BY <2>1, Numbers
<1>2. CASE c >= 1
  <2>1. Window * c = Window + Window * (c - 1) /\ Window * (c - 1) >= 0
    BY <1>2, Numbers
  <2> QED BY <2>1, Numbers
<1> QED BY <1>1, <1>2

\* Two pointers have the same slot if they are multiples of the window apart.
LEMMA SlotsEqual ==
    ASSUME NEW p \in Nat, NEW q \in Nat
    PROVE  Slot(p) = Slot(q) <=> \E c \in Int : p - q = Window * c
<1>1. PICK a \in Int, r \in 0 .. Window - 1 : a = p \div Window /\ r = p % Window
  BY Numbers
<1>2. PICK b \in Int, s \in 0 .. Window - 1 : b = q \div Window /\ s = q % Window
  BY Numbers
<1>3. p = Window * a + r /\ q = Window * b + s
  BY <1>1, <1>2, Numbers
<1>4. ASSUME r = s PROVE \E c \in Int : p - q = Window * c
  <2>1. p - q = Window * (a - b) /\ a - b \in Int
    BY <1>3, <1>4, Numbers
  <2> QED BY <2>1
<1>5. ASSUME NEW c \in Int, p - q = Window * c PROVE r = s
  <2>1. PICK e \in Int : e = c - a + b
    OBVIOUS
  <2>2. r - s = Window * e
    BY <1>3, <1>5, <2>1, Numbers
  <2>3. s - r = Window * (0 - e)
    BY <2>2, Numbers
  <2>4. ~(0 < r - s /\ r - s < Window) /\ ~(0 < s - r /\ s - r < Window)
    BY <2>1, <2>2, <2>3, NoMultiple
  <2> QED BY <1>1, <1>2, <2>4, Numbers
<1> QED BY <1>1, <1>2, <1>4, <1>5 DEF Slot

\* The pointers that lie behind another, and those that follow.
LEMMA Pointing ==
    ASSUME NEW p \in Pointers
    PROVE  /\ \A d \in 0 .. Wrap - 1 :
                  /\ Back(p, d) = (IF d <= p THEN p - d ELSE p + Wrap - d)
                  /\ Back(p, d) \in Pointers /\ Back(p, Back(p, d)) = d
           /\ (p + 1) % Wrap = (IF p = Wrap - 1 THEN 0 ELSE p + 1) /\ (p + 1) % Wrap \in Pointers
<1>1. /\ Wrap \in Nat /\ Wrap > 1 /\ Pointers = 0 .. Wrap - 1
  BY HostCmdAssumption DEF Pointers
<1>2. ASSUME NEW d \in 0 .. Wrap - 1
      PROVE  Back(p, d) = (IF d <= p THEN p - d ELSE p + Wrap - d) /\ Back(p, d) \in Pointers
  <2>1. PICK x \in Nat : x = p + Wrap - d
    BY <1>1
  <2>2. x < 2 * Wrap
    BY <1>1, <2>1
  <2>3. x % Wrap = IF x < Wrap THEN x ELSE x - Wrap
    BY <2>2, Turns
  <2> QED BY <1>1, <2>1, <2>3 DEF Back
<1>3. ASSUME NEW d \in 0 .. Wrap - 1 PROVE Back(p, Back(p, d)) = d
  <2>1. PICK q \in Pointers : q = Back(p, d)
    BY <1>2
  <2>2. Back(p, q) = IF q <= p THEN p - q ELSE p + Wrap - q
    BY <1>1, <1>2
  <2>3. q = IF d <= p THEN p - d ELSE p + Wrap - d
    BY <1>2, <2>1
  <2>4. p \in Nat /\ p < Wrap /\ d \in Nat /\ d < Wrap /\ Wrap \in Nat
    BY <1>1
  <2>5. (IF q <= p THEN p - q ELSE p + Wrap - q) = d
    BY <2>3, <2>4
  <2> QED BY <2>1, <2>2, <2>5
<1>4. (p + 1) % Wrap = (IF p = Wrap - 1 THEN 0 ELSE p + 1) /\ (p + 1) % Wrap \in Pointers
  <2>1. PICK x \in Nat : x = p + 1
    BY <1>1
  <2>2. x < 2 * Wrap
    BY <1>1, <2>1
  <2>3. x % Wrap = IF x < Wrap THEN x ELSE x - Wrap
    BY <2>2, Turns
  <2> QED BY <1>1, <2>1, <2>3
<1> QED BY <1>2, <1>3, <1>4

\* Pointers less than a window apart have different slots, and those that are a
\* window apart the same one.
LEMMA WindowSlots ==
    ASSUME NEW p \in Pointers
    PROVE  /\ \A d \in 1 .. Window - 1 : Slot(Back(p, d)) # Slot(p)
           /\ Slot(Back(p, Window)) = Slot(p)
<1>1. /\ Wrap \in Nat /\ Window \in Nat /\ Window < Wrap /\ Window >= 1
      /\ Pointers = 0 .. Wrap - 1 /\ Wrap % Window = 0
  BY HostCmdAssumption DEF Pointers
<1>2. PICK w \in Int : Wrap = Window * w
  <2>1. PICK w \in Int : w = Wrap \div Window
    BY <1>1
  <2>2. Wrap = Window * w + (Wrap % Window)
    BY <1>1, <2>1
  <2>3. Window * w \in Int
    BY <1>1
  <2>4. Wrap = Window * w
    BY <1>1, <2>2, <2>3
  <2> QED BY <2>4
<1>3. ASSUME NEW d \in 1 .. Window - 1 PROVE Slot(Back(p, d)) # Slot(p)
  <2>1. d \in 0 .. Wrap - 1 /\ p \in Nat
    BY <1>1
  <2>2. PICK q \in Nat : q = Back(p, d)
    BY <1>1, <2>1, Pointing
  <2>3. q = IF d <= p THEN p - d ELSE p + Wrap - d
    BY <2>1, <2>2, Pointing
  <2>4. ASSUME NEW c \in Int, q - p = Window * c PROVE FALSE
    <3>1. CASE d <= p
      <4>1. d = Window * (0 - c)
        BY <1>1, <2>1, <2>3, <2>4, <3>1
      <4> QED BY <1>1, <4>1, NoMultiple
    <3>2. CASE d > p
      <4>1. q - p = Wrap - d
        BY <1>1, <2>1, <2>3, <3>2
      <4>2. d = Window * (w - c)
        BY <1>1, <1>2, <2>1, <2>4, <4>1
      <4>3. w - c \in Int
        OBVIOUS
      <4> QED BY <1>1, <4>2, <4>3, NoMultiple
    <3> QED BY <1>1, <2>1, <3>1, <3>2
  <2> QED BY <2>1, <2>2, <2>4, SlotsEqual
<1>4. Slot(Back(p, Window)) = Slot(p)
  <2>1. Window \in 0 .. Wrap - 1 /\ p \in Nat
    BY <1>1
  <2>2. PICK q \in Nat : q = Back(p, Window)
    BY <1>1, <2>1, Pointing
  <2>3. q = IF Window <= p THEN p - Window ELSE p + Wrap - Window
    BY <2>1, <2>2, Pointing
  <2>4. PICK c \in Int : c = IF Window <= p THEN -1 ELSE w - 1
    OBVIOUS
  <2>5. q - p = Window * c
    <3>1. CASE Window <= p
      BY <1>1, <2>1, <2>3, <2>4, <3>1
    <3>2. CASE ~(Window <= p)
      <4>1. q - p = Wrap - Window
        BY <1>1, <2>1, <2>3, <3>2
      <4>2. Window * (w - 1) = Window * w - Window
        BY <1>1
      <4> QED BY <1>2, <2>4, <3>2, <4>1, <4>2
    <3> QED BY <3>1, <3>2
  <2> QED BY <2>1, <2>2, <2>5, SlotsEqual
<1> QED BY <1>3, <1>4

\* A sequence is its head and its tail.
LEMMA HeadFirst ==
    ASSUME NEW s \in Seq(Slots), NEW h \in Slots
    PROVE  /\ <<h>> \in Seq(Slots) /\ Append(s, h) = s \o <<h>>
           /\ Tail(<<h>> \o s) = s /\ Len(<<h>> \o s) >= 1 /\ (<<h>> \o s)[1] = h
           /\ s # <<>> => s = <<Head(s)>> \o Tail(s)
<1>1. <<h>> \in Seq(Slots) /\ Len(<<h>>) = 1 /\ <<h>>[1] = h
  OBVIOUS
<1>2. Append(s, h) = s \o <<h>>
  BY AppendIsConcat
<1>3. PICK n \in Nat : n = Len(s)
  BY LenProperties
<1>4. PICK l \in Seq(Slots) : l = <<h>> \o s
  BY <1>1, ConcatProperties
<1>5. Len(l) = Len(<<h>>) + Len(s)
      /\ \A k \in 1 .. Len(<<h>>) + Len(s) :
             l[k] = IF k <= Len(<<h>>) THEN <<h>>[k] ELSE s[k - Len(<<h>>)]
  BY <1>1, <1>4, ConcatProperties
<1>6. Len(l) = n + 1 /\ l[1] = h /\ \A k \in 2 .. n + 1 : l[k] = s[k - 1]
  BY <1>1, <1>3, <1>5
<1>7. Tail(l) = s
  <2>1. l # <<>>
    BY <1>3, <1>6, EmptySeq
  <2>2. PICK t \in Seq(Slots) : t = Tail(l)
    BY <2>1, HeadTailProperties
  <2>3. Len(t) = n /\ \A k \in 1 .. n : t[k] = l[k + 1]
    BY <1>3, <1>6, <2>1, <2>2, HeadTailProperties
  <2>4. \A k \in 1 .. Len(t) : t[k] = s[k]
    <3> SUFFICES ASSUME NEW k \in 1 .. n PROVE t[k] = s[k]
      BY <2>3
    <3>1. k + 1 \in 2 .. n + 1 /\ (k + 1) - 1 = k
      BY <1>3
    <3> QED BY <1>6, <2>3, <3>1
  <2>5. t = s
    BY <1>3, <2>3, <2>4, SeqEqual
  <2> QED BY <2>2, <2>5
<1>8. ASSUME s # <<>> PROVE s = <<Head(s)>> \o Tail(s)
  <2>1. n >= 1 /\ Head(s) = s[1]
    BY <1>3, <1>8, EmptySeq
  <2>2. SubSeq(s, 1, n) = s /\ SubSeq(s, 2, n) = Tail(s)
    BY <1>3, <1>8, SubSeqFull, TailIsSubSeq
  <2>3. SubSeq(s, 1, n) = <<s[1]>> \o SubSeq(s, 1 + 1, n)
    BY <1>3, <2>1, SubSeqRecursiveFirst
  <2>4. 1 + 1 = 2
    OBVIOUS
  <2> QED BY <2>1, <2>2, <2>3, <2>4
<1>9. Len(l) >= 1
  BY <1>3, <1>6
<1> QED BY <1>1, <1>2, <1>4, <1>6, <1>7, <1>8, <1>9

\* What is pending: a command that is put, answered, or handled to its end.
LEMMA PendingQueue ==
    ASSUME Typed
    PROVE  /\ Pending \in Seq(Slots) /\ Len(Pending) \in Nat
           /\ \A i \in Slots : rx \o Append(todo, i) = Append(Pending, i)
           /\ todo # <<>> => Append(rx, Head(todo)) \o Tail(todo) = Pending
           /\ rx # <<>> => /\ Len(Pending) >= 1 /\ Pending[1] = Head(rx)
                           /\ Tail(rx) \o todo = Tail(Pending)
<1>1. rx \in Seq(Slots) /\ todo \in Seq(Slots)
  BY DEF Typed, TypeOK
<1>2. Pending \in Seq(Slots) /\ Len(Pending) \in Nat
  BY <1>1, ConcatProperties, LenProperties DEF Pending
<1>3. ASSUME NEW i \in Slots PROVE rx \o Append(todo, i) = Append(Pending, i)
  <2>1. <<i>> \in Seq(Slots) /\ Append(todo, i) = todo \o <<i>>
        /\ Append(Pending, i) = Pending \o <<i>>
    BY <1>1, <1>2, HeadFirst
  <2>2. (rx \o todo) \o <<i>> = rx \o (todo \o <<i>>)
    BY <1>1, <2>1, ConcatAssociative
  <2> QED BY <2>1, <2>2 DEF Pending
<1>4. ASSUME todo # <<>> PROVE Append(rx, Head(todo)) \o Tail(todo) = Pending
  <2>1. PICK h \in Slots, t \in Seq(Slots) : h = Head(todo) /\ t = Tail(todo)
    BY <1>1, <1>4, HeadTailProperties
  <2>2. <<h>> \in Seq(Slots) /\ Append(rx, h) = rx \o <<h>> /\ todo = <<h>> \o t
    BY <1>1, <1>4, <2>1, HeadFirst
  <2>3. (rx \o <<h>>) \o t = rx \o (<<h>> \o t)
    BY <1>1, <2>1, <2>2, ConcatAssociative
  <2> QED BY <2>1, <2>2, <2>3 DEF Pending
<1>5. ASSUME rx # <<>>
      PROVE  /\ Len(Pending) >= 1 /\ Pending[1] = Head(rx) /\ Tail(rx) \o todo = Tail(Pending)
  <2>1. PICK h \in Slots, t \in Seq(Slots) : h = Head(rx) /\ t = Tail(rx)
    BY <1>1, <1>5, HeadTailProperties
  <2>2. <<h>> \in Seq(Slots) /\ rx = <<h>> \o t /\ t \o todo \in Seq(Slots)
    BY <1>1, <1>5, <2>1, HeadFirst, ConcatProperties
  <2>3. (<<h>> \o t) \o todo = <<h>> \o (t \o todo)
    BY <1>1, <2>1, <2>2, ConcatAssociative
  <2>4. Pending = <<h>> \o (t \o todo)
    BY <2>2, <2>3 DEF Pending
  <2> QED BY <2>1, <2>2, <2>4, HeadFirst
<1> QED BY <1>2, <1>3, <1>4, <1>5

\* What is pending lies as far behind the write pointer when it has moved on.
LEMMA PointerMoves ==
    ASSUME NEW p \in Pointers, NEW d \in 0 .. Wrap - 2
    PROVE  Back((p + 1) % Wrap, d + 1) = Back(p, d)
<1>1. Wrap \in Nat /\ Wrap > 1 /\ Pointers = 0 .. Wrap - 1
  BY HostCmdAssumption DEF Pointers
<1>2. PICK q \in Pointers : q = (p + 1) % Wrap
  BY Pointing
<1>3. q = IF p = Wrap - 1 THEN 0 ELSE p + 1
  BY <1>2, Pointing
<1>4. PICK e \in 0 .. Wrap - 1 : e = d + 1
  BY <1>1
<1>5. Back(q, e) = IF e <= q THEN q - e ELSE q + Wrap - e
  BY Pointing
<1>6. d \in 0 .. Wrap - 1
  BY <1>1
<1>7. Back(p, d) = IF d <= p THEN p - d ELSE p + Wrap - d
  BY <1>6, Pointing
<1> QED BY <1>1, <1>2, <1>3, <1>4, <1>5, <1>7

\* A step that moves no pointer, and neither adds nor handles a command.
LEMMA RingKept ==
    ASSUME RingOK, Pending' = Pending, UNCHANGED <<read_ptr, write_ptr>>,
           hpc' = "wake" <=> hpc = "wake", device' = "stopped" <=> device = "stopped"
    PROVE  RingOK'
BY DEF RingOK, Used

\* A command is put where none is pending.
LEMMA RingPut ==
    ASSUME Typed, RingOK, NEW m, Put(m), Space >= 1, hpc = "idle", hpc' = hpc
    PROVE  /\ RingOK' /\ Slot(write_ptr) \in Slots
           /\ \A k \in 1 .. Len(Pending) : Pending[k] # Slot(write_ptr)
           /\ \/ Pending' = Pending
              \/ Pending' = Append(Pending, Slot(write_ptr))
<1>1. /\ Wrap \in Nat /\ Window \in Nat /\ Window < Wrap /\ Window >= 1
      /\ Pointers = 0 .. Wrap - 1
  BY HostCmdAssumption DEF Pointers
<1>2. write_ptr \in Pointers /\ read_ptr \in Pointers /\ todo \in Seq(Slots)
  BY DEF Typed, TypeOK
<1>3. PICK n \in Nat : n = Len(Pending)
  BY PendingQueue
<1>4. PICK u \in 0 .. Wrap - 1 : u = Used
  BY <1>1, <1>2, Pointing DEF Used, Back
<1>5. u < Window
  BY <1>1, <1>4 DEF Space
<1>6. n < Window /\ (device # "stopped" => u = n) /\ (device = "stopped" => n = 0)
  BY <1>1, <1>3, <1>4, <1>5, EmptySeq DEF RingOK
<1>7. PICK i \in Slots : i = Slot(write_ptr)
  BY <1>1, <1>2, Numbers
<1>8. \A k \in 1 .. n : Pending[k] # i
  <2> SUFFICES ASSUME NEW k \in 1 .. n PROVE Pending[k] # i
    OBVIOUS
  <2>1. PICK d \in 1 .. Window - 1 : d = n + 1 - k
    BY <1>1, <1>6
  <2>2. Pending[k] = Slot(Back(write_ptr, d))
    BY <1>3, <2>1 DEF RingOK
  <2> QED BY <1>2, <1>7, <2>2, WindowSlots
<1>9. PICK w \in Pointers : w = (write_ptr + 1) % Wrap
  BY <1>2, Pointing
<1>10. write_ptr' = w /\ read_ptr' = read_ptr /\ device' = device /\ rx' = rx
  BY <1>9 DEF Put
<1>11. CASE device = "stopped"
  <2>1. Pending' = Pending
    BY <1>10, <1>11 DEF Put, Pending
  <2>2. RingOK'
    BY <1>1, <1>3, <1>6, <1>10, <1>11, <2>1 DEF RingOK
  <2> QED BY <1>3, <1>7, <1>8, <2>1, <2>2
<1>12. CASE device # "stopped"
  <2>1. Pending' = Append(Pending, i)
    BY <1>7, <1>10, <1>12, PendingQueue DEF Put, Pending
  <2>2. PICK q \in Seq(Slots) : q = Append(Pending, i)
    BY PendingQueue, AppendProperties
  <2>3. Len(q) = n + 1 /\ q[n + 1] = i /\ \A k \in 1 .. n : q[k] = Pending[k]
    BY <1>3, <2>2, PendingQueue, AppendProperties
  <2>4. \A k \in 1 .. n + 1 : q[k] = Slot(Back(w, n + 2 - k))
    <3> SUFFICES ASSUME NEW k \in 1 .. n + 1 PROVE q[k] = Slot(Back(w, n + 2 - k))
      OBVIOUS
    <3>1. PICK d \in 0 .. Wrap - 2 : d = n + 1 - k
      BY <1>1, <1>6
    <3>2. Back(w, d + 1) = Back(write_ptr, d) /\ d + 1 = n + 2 - k
      BY <1>2, <1>9, <3>1, PointerMoves
    <3>3. CASE k <= n
      BY <1>3, <2>3, <3>1, <3>2, <3>3 DEF RingOK
    <3>4. CASE k = n + 1
      <4>1. d = 0 /\ Back(write_ptr, d) = write_ptr
        BY <1>1, <1>2, <3>1, <3>4, Pointing
      <4> QED BY <1>7, <2>3, <3>2, <3>4, <4>1
    <3> QED BY <3>3, <3>4
  <2>5. Used' = n + 1
    <3>1. read_ptr = Back(write_ptr, u)
      BY <1>1, <1>2, <1>4, Pointing DEF Used, Back
    <3>2. u \in 0 .. Wrap - 2 /\ u + 1 \in 0 .. Wrap - 1
      BY <1>1, <1>5
    <3>3. Back(w, u + 1) = read_ptr
      BY <1>2, <1>9, <3>1, <3>2, PointerMoves
    <3>4. Back(w, read_ptr) = u + 1
      BY <3>2, <3>3, Pointing
    <3> QED BY <1>6, <1>10, <1>12, <3>4 DEF Used, Back
  <2>6. RingOK'
    <3>1. Len(Pending') = n + 1 /\ n + 1 <= Window
      BY <1>1, <1>6, <2>1, <2>2, <2>3
    <3>2. \A k \in 1 .. Len(Pending') : Pending'[k] = Slot(Back(write_ptr', Len(Pending') + 1 - k))
      <4>1. \A k \in 1 .. n + 1 : (n + 1) + 1 - k = n + 2 - k
        OBVIOUS
      <4> QED BY <1>10, <2>1, <2>2, <2>4, <3>1, <4>1
    <3>3. hpc' # "wake" /\ device' # "stopped"
      BY <1>10, <1>12
    <3> QED BY <2>5, <3>1, <3>2, <3>3 DEF RingOK, Slot, Back
  <2> QED BY <1>3, <1>7, <1>8, <2>1, <2>6
<1> QED BY <1>11, <1>12

\* iwl_pcie_cmdq_reclaim takes the first pending entry off the queue, or nothing off
\* a queue whose window is full, for then its pointers have the same slot.
LEMMA RingReclaim ==
    ASSUME Typed, RingOK, CompleteStore
    PROVE  RingOK'
<1>1. /\ Wrap \in Nat /\ Window \in Nat /\ Window < Wrap /\ Window >= 1
      /\ Pointers = 0 .. Wrap - 1 /\ Slots = 0 .. Window - 1
  BY HostCmdAssumption DEF Pointers, Slots
<1>2. /\ write_ptr \in Pointers /\ read_ptr \in Pointers /\ rx # <<>> /\ hpc = "store"
      /\ hpc' = "wake" /\ UNCHANGED <<write_ptr, device, todo, rx>>
      /\ read_ptr' = IF InUse(Head(rx)) THEN (read_ptr + Reclaimed(Head(rx))) % Wrap ELSE read_ptr
  BY DEF CompleteStore, Typed, TypeOK, deviceVars
<1>3. PICK n \in Nat : n = Len(Pending)
  BY PendingQueue
<1>4. PICK u \in 0 .. Wrap - 1 : u = Used
  BY <1>1, <1>2, Pointing DEF Used, Back
<1>5. n >= 1 /\ n <= Window /\ Pending[1] = Head(rx) /\ device # "stopped"
  BY <1>2, <1>3, PendingQueue, EmptySeq DEF RingOK
<1>6. u = Window \/ u = n
  BY <1>2, <1>3, <1>4, <1>5 DEF RingOK
<1>7. read_ptr = Back(write_ptr, u)
  BY <1>1, <1>2, <1>4, Pointing DEF Used, Back
<1>8. PICK r \in Slots : r = Slot(read_ptr)
  BY <1>1, <1>2, Numbers
<1>9. PICK w \in Slots : w = Slot(write_ptr)
  BY <1>1, <1>2, Numbers
<1>10. PICK i \in Slots : i = Head(rx)
  BY <1>2, SlotSequences DEF Typed, TypeOK
<1>11. InUse(i) <=> IF w >= r THEN i >= r /\ i < w ELSE ~(i < r /\ i >= w)
  BY <1>8, <1>9 DEF InUse
<1>12. Pending' = Pending
  BY <1>2 DEF Pending
<1>13. CASE u = Window
  <2>1. w = r
    BY <1>2, <1>7, <1>8, <1>9, <1>13, WindowSlots
  <2>2. ~InUse(i)
    BY <1>1, <1>11, <2>1
  <2>3. read_ptr' = read_ptr
    BY <1>2, <1>10, <2>2
  <2>4. Used' = Window
    BY <1>2, <1>4, <1>13, <2>3 DEF Used
  <2> QED BY <1>2, <1>3, <1>5, <1>12, <2>4 DEF RingOK
<1>14. CASE u # Window
  <2>1. u = n /\ n \in 1 .. Window - 1
    BY <1>1, <1>5, <1>6, <1>14
  <2>2. w # r
    BY <1>2, <1>7, <1>8, <1>9, <2>1, WindowSlots
  <2>3. i = r
    <3>1. Pending[1] = Slot(Back(write_ptr, Len(Pending) + 1 - 1))
      BY <1>3, <1>5 DEF RingOK
    <3>2. Len(Pending) + 1 - 1 = u
      BY <1>3, <2>1
    <3> QED BY <1>5, <1>7, <1>8, <1>10, <3>1, <3>2
  <2>4. InUse(i)
    BY <1>1, <1>11, <2>2, <2>3
  <2>5. Reclaimed(i) = 1
    <3>1. PICK x \in Nat : x = i + 1 + Wrap - r
      BY <1>1, <2>3
    <3>2. x = 1 + Wrap /\ x < 2 * Wrap
      BY <1>1, <2>3, <3>1
    <3>3. x % Wrap = IF x < Wrap THEN x ELSE x - Wrap
      BY <3>2, Turns
    <3>4. x % Wrap = 1
      BY <1>1, <3>2, <3>3
    <3> QED BY <1>8, <3>1, <3>4 DEF Reclaimed
  <2>6. read_ptr' = (read_ptr + 1) % Wrap
    BY <1>2, <1>10, <2>4, <2>5
  <2>7. Used' = n - 1
    <3>1. PICK d \in 0 .. Wrap - 1 : d = n - 1
      BY <1>1, <2>1
    <3>2. PICK q \in Pointers : q = (read_ptr + 1) % Wrap
      BY <1>2, Pointing
    <3>3. q = IF read_ptr = Wrap - 1 THEN 0 ELSE read_ptr + 1
      BY <1>2, <3>2, Pointing
    <3>4. Back(write_ptr, d) = IF d <= write_ptr THEN write_ptr - d ELSE write_ptr + Wrap - d
      BY <1>2, Pointing
    <3>5. read_ptr = IF u <= write_ptr THEN write_ptr - u ELSE write_ptr + Wrap - u
      BY <1>2, <1>7, Pointing
    <3>6. q = Back(write_ptr, d)
      BY <1>1, <1>2, <2>1, <3>1, <3>3, <3>4, <3>5
    <3>7. Back(write_ptr, q) = d
      BY <1>2, <3>6, Pointing
    <3> QED BY <1>2, <2>6, <3>1, <3>2, <3>7 DEF Used, Back
  <2> QED BY <1>2, <1>3, <1>5, <1>12, <2>7 DEF RingOK
<1> QED BY <1>13, <1>14

\* The end of iwl_pcie_hcmd_complete: the first pending entry is handled, the others
\* are in slots of their own.
LEMMA RingNext ==
    ASSUME Typed, RingOK, CompleteWake
    PROVE  /\ RingOK' /\ Len(Pending) >= 1 /\ Pending[1] = Head(rx)
           /\ Len(Pending') = Len(Pending) - 1
           /\ \A k \in 1 .. Len(Pending) - 1 :
                  Pending'[k] = Pending[k + 1] /\ Pending[k + 1] # Head(rx)
<1>1. /\ Wrap \in Nat /\ Window \in Nat /\ Window < Wrap /\ Window >= 1
      /\ Pointers = 0 .. Wrap - 1
  BY HostCmdAssumption DEF Pointers
<1>2. /\ write_ptr \in Pointers /\ rx # <<>> /\ hpc = "wake" /\ hpc' = "idle"
      /\ UNCHANGED <<read_ptr, write_ptr, device, todo>> /\ rx' = Tail(rx)
  BY DEF CompleteWake, Typed, TypeOK
<1>3. PICK n \in Nat : n = Len(Pending)
  BY PendingQueue
<1>4. n >= 1 /\ n <= Window /\ Pending[1] = Head(rx) /\ device # "stopped"
  BY <1>2, <1>3, PendingQueue, EmptySeq DEF RingOK
<1>5. Pending' = Tail(Pending) /\ Pending # <<>> /\ Pending \in Seq(Slots)
  BY <1>2, <1>3, <1>4, PendingQueue, EmptySeq DEF Pending
<1>6. PICK q \in Seq(Slots) : q = Tail(Pending)
  BY <1>5, HeadTailProperties
<1>7. Len(q) = n - 1 /\ \A k \in 1 .. n - 1 : q[k] = Pending[k + 1]
  BY <1>3, <1>5, <1>6, HeadTailProperties
<1>8. \A k \in 1 .. n : Pending[k] = Slot(Back(write_ptr, n + 1 - k))
  BY <1>3 DEF RingOK
<1>9. ASSUME NEW k \in 1 .. n - 1
      PROVE  q[k] = Slot(Back(write_ptr, n - k)) /\ Pending[k + 1] # Head(rx)
  <2>1. PICK d \in 1 .. Window - 1 : d = n - k
    BY <1>1, <1>4
  <2>2. k + 1 \in 1 .. n /\ n + 1 - (k + 1) = d /\ 1 \in 1 .. n /\ n + 1 - 1 = n
    BY <1>4, <2>1
  <2>3. Pending[k + 1] = Slot(Back(write_ptr, d)) /\ Pending[1] = Slot(Back(write_ptr, n))
    BY <1>8, <2>2
  <2>4. Slot(Back(write_ptr, d)) # Slot(Back(write_ptr, n))
    <3>1. n \in 0 .. Wrap - 1 /\ d \in 0 .. Wrap - 1
      BY <1>1, <1>4, <2>1
    <3>2. PICK p \in Pointers : p = Back(write_ptr, d)
      BY <1>2, <3>1, Pointing
    <3>3. PICK e \in 1 .. Window - 1 : e = n - d
      BY <1>1, <1>4, <2>1
    <3>4. Back(p, e) = IF e <= p THEN p - e ELSE p + Wrap - e
      <4>1. e \in 0 .. Wrap - 1
        BY <1>1, <3>3
      <4> QED BY <4>1, Pointing
    <3>5. p = IF d <= write_ptr THEN write_ptr - d ELSE write_ptr + Wrap - d
      BY <1>2, <3>1, <3>2, Pointing
    <3>6. Back(write_ptr, n) = IF n <= write_ptr THEN write_ptr - n ELSE write_ptr + Wrap - n
      BY <1>2, <3>1, Pointing
    <3>7. Back(p, e) = Back(write_ptr, n)
      BY <1>1, <1>2, <2>1, <3>1, <3>3, <3>4, <3>5, <3>6
    <3>8. Slot(Back(p, e)) # Slot(p)
      BY <3>3, WindowSlots
    <3> QED BY <3>2, <3>7, <3>8
  <2> QED BY <1>4, <1>7, <2>1, <2>3, <2>4
<1>10. RingOK'
  <2>1. Len(Pending') = n - 1 /\ n - 1 <= Window
    BY <1>1, <1>4, <1>5, <1>6, <1>7
  <2>2. \A k \in 1 .. n - 1 : (n - 1) + 1 - k = n - k
    BY <1>3
  <2>3. \A k \in 1 .. Len(Pending') : Pending'[k] = Slot(Back(write_ptr', Len(Pending') + 1 - k))
    BY <1>2, <1>5, <1>6, <1>9, <2>1, <2>2
  <2>4. Used' = Used /\ (Used = Window \/ Used = n - 1)
    BY <1>2, <1>3, <1>4 DEF RingOK, Used
  <2> QED BY <1>2, <1>4, <2>1, <2>3, <2>4 DEF RingOK, Slot, Back
<1> QED BY <1>3, <1>4, <1>5, <1>6, <1>7, <1>9, <1>10

-----------------------------------------------------------------------------
(* A call that succeeds has been answered                                  *)

\* Where a caller waits for the response, or has given it up and not yet told the
\* firmware's loss.
Sent == {"sleep", "asleep", "late", "clear", "nmi"}

\* What makes a caller not look for a response.
Lost == fw_error \/ rfkill

\* What is pending and not asynchronous has a caller that waits for it.
AskedOK ==
    \A k \in 1 .. Len(Pending) :
        \/ meta[Pending[k]].async \/ Lost
        \/ \E t \in Threads : meta[Pending[k]].call = This(t) /\ pc[t] \in Sent

\* A caller is woken by its response or by the loss of the firmware or the radio; a
\* response it has, or whose handler is about to wake it up, has been handled.
AnsweredOK ==
    /\ \A t \in Threads : /\ pc[t] \in {"woken", "check"} => t \in answered \/ Lost
                          /\ resp[t] # NoCall => t \in answered
    /\ hpc = "wake" => \A t \in Threads : meta[Head(rx)].call = This(t) => t \in answered

AnswerOK == RingOK /\ AskedOK /\ AnsweredOK

\* A step that neither puts nor handles a command, and neither begins a call nor
\* restarts the firmware: whoever gives up waiting has lost it.
LEMMA AnswerKept ==
    ASSUME Typed, AnswerOK, Pending' = Pending,
           UNCHANGED <<read_ptr, write_ptr, calls, answered>>,
           hpc' = "wake" <=> hpc = "wake", device' = "stopped" <=> device = "stopped",
           hpc = "wake" => Head(rx') = Head(rx),
           \A i \in Slots : meta'[i].call = meta[i].call /\ meta'[i].async = meta[i].async,
           Lost => Lost',
           \A u \in Threads : /\ pc[u] \in Sent => pc'[u] \in Sent \/ Lost'
                              /\ pc'[u] \in {"woken", "check"}
                                    => pc[u] \in {"woken", "check"} \/ Lost'
                              /\ resp'[u] = resp[u] \/ resp'[u] = NoCall
    PROVE  AnswerOK'
<1>1. RingOK'
  BY RingKept DEF AnswerOK
<1>2. AskedOK'
  <2> SUFFICES ASSUME NEW k \in 1 .. Len(Pending)
               PROVE  \/ meta'[Pending[k]].async \/ Lost'
                      \/ \E t \in Threads : meta'[Pending[k]].call = This(t) /\ pc'[t] \in Sent
    BY DEF AskedOK, This
  <2>1. PICK i \in Slots : i = Pending[k]
    BY PendingQueue, ElementOfSeq
  <2>2. \/ meta[i].async \/ Lost
        \/ \E t \in Threads : meta[i].call = This(t) /\ pc[t] \in Sent
    BY <2>1 DEF AnswerOK, AskedOK
  <2> QED BY <2>1, <2>2
<1>3. AnsweredOK'
  <2>1. hpc = "wake" => Head(rx) \in Slots
    BY Own
  <2> QED BY <2>1 DEF AnswerOK, AnsweredOK, This
<1> QED BY <1>1, <1>2, <1>3 DEF AnswerOK

\* The caller's own steps, once it is in iwl_pcie_send_hcmd_sync, but for the command
\* it puts on the queue.
LEMMA MovesAnswerOK ==
    ASSUME Typed, AnswerOK, NEW t \in Threads, Moves(t) \/ TimeUp(t), ~Enqueue(t)
    PROVE  AnswerOK'
<1> USE DEF WaitStep, At, Finish, statusVars, queueVars, deviceVars, handlerVars, countVars
<1>1. /\ UNCHANGED <<rx, todo, read_ptr, write_ptr, calls, answered, hpc>>
      /\ Lost => Lost'
  BY DEF Moves, TimeUp, TestActive, SetActive, NoSpace, Sleep, Wakes, ClearActive, Nmi, Succeed,
         Fail, Cancel, Lost
<1>2. device' = "stopped" <=> device = "stopped"
  BY DEF Moves, TimeUp, TestActive, SetActive, NoSpace, Sleep, Wakes, ClearActive, Nmi, Succeed,
         Fail, Cancel
<1>3. \A i \in Slots : meta'[i].call = meta[i].call /\ meta'[i].async = meta[i].async
  <2>1. CASE UNCHANGED meta
    BY <2>1
  <2>2. CASE meta' = [meta EXCEPT ![idx[t]].skb = FALSE]
    BY <2>2, Own
  <2> QED BY <2>1, <2>2 DEF Moves, TimeUp, TestActive, SetActive, NoSpace, Sleep, Wakes,
        ClearActive, Nmi, Succeed, Fail, Cancel
<1>4. \A u \in Threads : resp'[u] = resp[u] \/ resp'[u] = NoCall
  <2>1. CASE UNCHANGED resp
    BY <2>1
  <2>2. CASE resp' = [resp EXCEPT ![t] = NoCall]
    BY <2>2, Own
  <2> QED BY <2>1, <2>2 DEF Moves, TimeUp, TestActive, SetActive, NoSpace, Sleep, Wakes,
        ClearActive, Nmi, Succeed, Fail, Cancel
<1>5. ASSUME NEW u \in Threads
      PROVE  /\ pc[u] \in Sent => pc'[u] \in Sent \/ Lost'
             /\ pc'[u] \in {"woken", "check"} => pc[u] \in {"woken", "check"} \/ Lost'
  <2> USE Own DEF Sent
  <2>1. CASE TestActive(t) \/ SetActive(t) \/ NoSpace(t)
    BY <2>1 DEF TestActive, SetActive, NoSpace
  <2>2. CASE Sleep(t) \/ TimeUp(t) \/ Wakes(t)
    BY <2>2 DEF Sleep, TimeUp, Wakes
  <2>3. CASE ClearActive(t) \/ Nmi(t)
    BY <2>3 DEF ClearActive, Nmi, Lost
  <2>4. CASE Succeed(t) \/ Fail(t) \/ Cancel(t)
    BY <2>4 DEF Succeed, Fail, Cancel
  <2> QED BY <2>1, <2>2, <2>3, <2>4 DEF Moves
<1>6. Pending' = Pending
  BY <1>1 DEF Pending
<1> QED BY <1>1, <1>2, <1>3, <1>4, <1>5, <1>6, AnswerKept

\* A command is put in a slot of its own: a synchronous one is its caller's.
LEMMA PutAnswerOK ==
    ASSUME Typed, AnswerOK, NEW t \in Threads, Enqueue(t) \/ SendAsync(t)
    PROVE  AnswerOK'
<1> DEFINE slot == Slot(write_ptr)
<1>1. PICK m \in [call : Calls \cup {NoCall}, skb : BOOLEAN, async : BOOLEAN] :
        /\ Put(m) /\ Space >= 1 /\ hpc = "idle" /\ hpc' = hpc
        /\ m.async \/ (m.call = This(t) /\ pc'[t] \in Sent)
  <2>1. CASE Enqueue(t)
    <3>1. This(t) \in Calls /\ kind[t].skb \in BOOLEAN
      BY <2>1, CallTypes, Own DEF Enqueue, InCall, Kinds
    <3>2. pc'[t] \in Sent
      BY <2>1, Own DEF Enqueue, At, Sent
    <3>3. [call |-> This(t), skb |-> kind[t].skb, async |-> FALSE]
            \in [call : Calls \cup {NoCall}, skb : BOOLEAN, async : BOOLEAN]
      BY <3>1
    <3>4. /\ Put([call |-> This(t), skb |-> kind[t].skb, async |-> FALSE])
          /\ Space >= 1 /\ hpc = "idle" /\ hpc' = hpc
      BY <2>1 DEF Enqueue, Unlocked, handlerVars
    <3> QED BY <3>2, <3>3, <3>4
  <2>2. CASE SendAsync(t)
    <3>1. Space \in Nat /\ Space >= 2
      BY <2>2, Numbers DEF SendAsync, Space, Used, Typed, TypeOK, Pointers
    <3>2. [call |-> NoCall, skb |-> FALSE, async |-> TRUE]
            \in [call : Calls \cup {NoCall}, skb : BOOLEAN, async : BOOLEAN]
      OBVIOUS
    <3>3. /\ Put([call |-> NoCall, skb |-> FALSE, async |-> TRUE])
          /\ hpc = "idle" /\ hpc' = hpc
      BY <2>2 DEF SendAsync, AsyncMay, Unlocked, handlerVars
    <3>4. Space >= 1
      BY <3>1
    <3> QED BY <3>2, <3>3, <3>4
  <2> QED BY <2>1, <2>2
<1>2. /\ UNCHANGED <<calls, answered, resp, fw_error, rfkill>> /\ hpc = "idle" /\ hpc' = "idle"
      /\ \A u \in Threads : u # t => pc'[u] = pc[u]
      /\ pc[t] \notin Sent \/ pc'[t] = pc[t]
      /\ pc'[t] \in {"woken", "check"} => pc[t] \in {"woken", "check"}
  BY <1>1, Own DEF Enqueue, SendAsync, AsyncMay, Put, At, statusVars, callVars, countVars, Sent
<1>3. /\ RingOK' /\ slot \in Slots
      /\ \A k \in 1 .. Len(Pending) : Pending[k] # slot
      /\ Pending' = Pending \/ Pending' = Append(Pending, slot)
  BY <1>1, RingPut DEF AnswerOK
<1>4. meta'[slot] = m /\ \A i \in Slots : i # slot => meta'[i] = meta[i]
  BY <1>1, <1>3, Own DEF Put
<1>5. ASSUME NEW k \in 1 .. Len(Pending)
      PROVE  \/ meta'[Pending[k]].async \/ Lost'
             \/ \E u \in Threads : meta'[Pending[k]].call = This(u)' /\ pc'[u] \in Sent
  <2>1. PICK i \in Slots : i = Pending[k]
    BY PendingQueue, ElementOfSeq
  <2>2. meta'[i] = meta[i]
    BY <2>1, <1>3, <1>4
  <2>3. \/ meta[i].async \/ Lost
        \/ \E u \in Threads : meta[i].call = This(u) /\ pc[u] \in Sent
    BY <2>1 DEF AnswerOK, AskedOK
  <2>4. \A u \in Threads : pc[u] \in Sent => pc'[u] \in Sent
    BY <1>2
  <2> QED BY <2>1, <2>2, <2>3, <2>4, <1>2 DEF Lost, This
<1>6. AskedOK'
  <2>1. CASE Pending' = Pending
    BY <2>1, <1>5 DEF AskedOK
  <2>2. CASE Pending' = Append(Pending, slot)
    <3> SUFFICES ASSUME NEW k \in 1 .. Len(Pending')
                 PROVE  \/ meta'[Pending'[k]].async \/ Lost'
                        \/ \E u \in Threads : meta'[Pending'[k]].call = This(u)' /\ pc'[u] \in Sent
      BY DEF AskedOK
    <3>1. Pending \in Seq(Slots) /\ Len(Pending) \in Nat
      BY PendingQueue
    <3>2. /\ Len(Pending') = Len(Pending) + 1 /\ Pending'[Len(Pending) + 1] = slot
          /\ \A j \in 1 .. Len(Pending) : Pending'[j] = Pending[j]
      BY <2>2, <3>1, <1>3, AppendProperties
    <3>3. CASE k = Len(Pending) + 1
      BY <3>2, <3>3, <1>1, <1>2, <1>4 DEF This
    <3>4. CASE k # Len(Pending) + 1
      BY <3>1, <3>2, <3>4, <1>5
    <3> QED BY <3>3, <3>4
  <2> QED BY <2>1, <2>2, <1>3
<1>7. AnsweredOK'
  BY <1>2 DEF AnswerOK, AnsweredOK, Lost
<1> QED BY <1>3, <1>6, <1>7 DEF AnswerOK

\* A call begins when no other is under way: whatever is left pending is not waited for.
LEMMA SendAnswerOK ==
    ASSUME Typed, OwnOK, AnswerOK, Serialized, NEW t \in Threads, NEW k \in Kinds, Send(t, k)
    PROVE  AnswerOK'
<1>1. /\ \A u \in Threads : pc[u] = "idle"
      /\ UNCHANGED <<rx, todo, read_ptr, write_ptr, hpc, device, meta, fw_error, rfkill>>
      /\ pc' = [pc EXCEPT ![t] = "test"] /\ resp' = [resp EXCEPT ![t] = NoCall]
      /\ answered' = answered \ {t}
      /\ calls' = [calls EXCEPT ![t] = @ + 1]
  BY DEF Send, InCall, At, statusVars, queueVars, deviceVars, handlerVars
<1>2. Pending' = Pending
  BY <1>1 DEF Pending
<1>3. RingOK'
  BY <1>1, <1>2, RingKept DEF AnswerOK
<1>4. AskedOK'
  BY <1>1, <1>2 DEF AnswerOK, AskedOK, Sent, Lost
<1>5. \A u \in Threads : /\ pc'[u] \notin {"woken", "check"}
                         /\ resp'[u] # NoCall => u \in answered'
  BY <1>1, Own DEF AnswerOK, AnsweredOK
<1>6. ASSUME hpc = "wake", NEW u \in Threads, meta[Head(rx)].call = This(u)'
      PROVE  u \in answered'
  <2>1. Head(rx) \in Slots
    BY <1>6, Own
  <2>2. u # t
    BY <2>1, <1>1, <1>6, SendOwnOK, Own DEF OwnOK, EntryOK, InCall, Waiting
  <2>3. This(u)' = This(u)
    BY <2>2, <1>1, Own DEF This
  <2> QED BY <2>2, <2>3, <1>1, <1>6 DEF AnswerOK, AnsweredOK
<1> QED BY <1>1, <1>3, <1>4, <1>5, <1>6 DEF AnswerOK, AnsweredOK

\* iwl_pcie_hcmd_complete hands the response over: its caller has been answered.
LEMMA CompleteStoreAnswerOK ==
    ASSUME Typed, AnswerOK, CompleteStore
    PROVE  AnswerOK'
<1>1. RingOK'
  BY RingReclaim DEF AnswerOK
<1>2. UNCHANGED <<rx, todo, meta, pc, calls, fw_error, rfkill>> /\ hpc' = "wake"
  BY DEF CompleteStore, deviceVars, statusVars, countVars
<1>3. AskedOK'
  BY <1>2 DEF AnswerOK, AskedOK, Pending, This, Lost
<1>4. \A u \in Threads : meta[Head(rx)].call = This(u) => u \in answered'
  <2>1. \A u \in Threads : This(u) # NoCall /\ This(u)[1] = u
    BY DEF This, NoCall
  <2> QED BY <2>1 DEF CompleteStore
<1>5. \A u \in Threads : /\ u \in answered => u \in answered'
                         /\ resp'[u] = resp[u] \/ meta[Head(rx)].call = This(u)
  BY DEF CompleteStore
<1>6. AnsweredOK'
  BY <1>2, <1>4, <1>5 DEF AnswerOK, AnsweredOK, This, Lost
<1> QED BY <1>1, <1>3, <1>6 DEF AnswerOK

\* iwl_pcie_hcmd_complete wakes a sleeper up: the only one, whose response it has.
LEMMA CompleteWakeAnswerOK ==
    ASSUME Typed, OwnOK, BusyOK, AnswerOK, CompleteWake
    PROVE  AnswerOK'
<1> DEFINE i == Head(rx)
<1>1. /\ RingOK' /\ Len(Pending) >= 1 /\ Pending[1] = i
      /\ Len(Pending') = Len(Pending) - 1
      /\ \A k \in 1 .. Len(Pending) - 1 : Pending'[k] = Pending[k + 1] /\ Pending[k + 1] # i
  BY RingNext DEF AnswerOK
<1>2. /\ i \in Slots /\ hpc = "wake" /\ hpc' = "idle"
      /\ meta' = [meta EXCEPT ![i] = NoMeta]
      /\ UNCHANGED <<calls, resp, answered, fw_error, rfkill>>
  BY Own DEF CompleteWake, countVars
<1>3. \A u \in Threads : pc'[u] # pc[u] => pc[u] = "asleep" /\ pc'[u] = "woken"
  BY WokenUp DEF CompleteWake
<1>4. Len(Pending) \in Nat /\ Pending \in Seq(Slots)
  BY PendingQueue
<1>5. ASSUME ~Lost, NEW u \in Threads, pc'[u] # pc[u]
      PROVE  meta[i].call = This(u) /\ u \in answered
  <2>1. ~meta[i].async
    BY <1>5 DEF CompleteWake
  <2>2. PICK t \in Threads : meta[i].call = This(t) /\ pc[t] \in Sent
    BY <2>1, <1>1, <1>4, <1>5 DEF AnswerOK, AskedOK
  <2>3. t = u
    BY <2>2, <1>3, <1>5 DEF BusyOK, InCall, Sent
  <2> QED BY <2>2, <2>3, <1>2 DEF AnswerOK, AnsweredOK
<1>6. AskedOK'
  <2> SUFFICES ASSUME NEW k \in 1 .. Len(Pending'), ~Lost, ~meta'[Pending'[k]].async
               PROVE  \E u \in Threads : meta'[Pending'[k]].call = This(u)' /\ pc'[u] \in Sent
    BY <1>2 DEF AskedOK, Lost
  <2>1. k \in 1 .. Len(Pending) - 1 /\ k + 1 \in 1 .. Len(Pending)
    BY <1>1, <1>4
  <2>2. PICK j \in Slots : j = Pending[k + 1] /\ j = Pending'[k] /\ j # i
    BY <2>1, <1>1, <1>4, ElementOfSeq
  <2>3. meta'[j] = meta[j]
    BY <2>2, <1>2, Own
  <2>4. PICK u \in Threads : meta[j].call = This(u) /\ pc[u] \in Sent
    BY <2>1, <2>2, <2>3 DEF AnswerOK, AskedOK
  <2>5. pc'[u] = pc[u]
    BY <2>2, <2>4, <1>2, <1>5 DEF OwnOK, EntryOK, InCall, Sent
  <2> QED BY <2>2, <2>3, <2>4, <2>5, <1>2 DEF This
<1>7. AnsweredOK'
  <2>1. ASSUME NEW u \in Threads, pc'[u] \in {"woken", "check"} PROVE u \in answered \/ Lost
    BY <2>1, <1>5 DEF AnswerOK, AnsweredOK
  <2> QED BY <2>1, <1>2 DEF AnswerOK, AnsweredOK, Lost
<1> QED BY <1>1, <1>6, <1>7 DEF AnswerOK

\* What others do to those who wait: they lose the firmware or the radio, and are told.
LEMMA OthersAnswerOK ==
    ASSUME Typed, AnswerOK,
           \/ \E t \in Threads : AsyncNoSpace(t)
           \/ Answer \/ Crash \/ RadioOff(FALSE)
           \/ CompleteLook \/ HandleError \/ UNCHANGED vars
    PROVE  AnswerOK'
<1> USE DEF statusVars, queueVars, deviceVars, handlerVars, callVars, countVars
<1>1. UNCHANGED <<read_ptr, write_ptr, meta, calls, answered, resp>>
  BY DEF AsyncNoSpace, AsyncMay, Answer, Crash, RadioOff, CompleteLook, HandleError, vars
<1>2. /\ hpc' = "wake" <=> hpc = "wake"
      /\ device' = "stopped" <=> device = "stopped"
      /\ Lost => Lost'
  BY DEF AsyncNoSpace, AsyncMay, Answer, Crash, RadioOff, CompleteLook, HandleError, vars, GateOpen,
         Lost
<1>3. Pending' = Pending /\ (hpc = "wake" => Head(rx') = Head(rx))
  <2>1. CASE Answer
    <3>1. /\ todo # <<>> /\ Head(todo) \in Slots
          /\ rx' = Append(rx, Head(todo)) /\ todo' = Tail(todo)
      BY <2>1, SlotSequences DEF Answer, Typed, TypeOK
    <3>2. Pending' = Pending
      BY <3>1, PendingQueue DEF Pending
    <3> QED BY <3>1, <3>2, Own, SlotSequences
  <2>2. CASE UNCHANGED <<rx, todo>>
    BY <2>2 DEF Pending
  <2> QED BY <2>1, <2>2 DEF AsyncNoSpace, AsyncMay, Crash, RadioOff, CompleteLook, HandleError, vars
<1>4. UNCHANGED pc \/ (WakeOne /\ Lost')
  BY DEF AsyncNoSpace, AsyncMay, Answer, Crash, RadioOff, CompleteLook, HandleError, vars, Lost
<1>5. \A u \in Threads : pc'[u] = pc[u] \/ Lost'
  BY <1>4
<1> QED BY <1>1, <1>2, <1>3, <1>5, AnswerKept

\* The device is stopped, or started again: nothing is pending.
LEMMA EmptiedAnswerOK ==
    ASSUME Typed, AnswerOK, Serialized, RadioOff(TRUE) \/ Restart
    PROVE  AnswerOK'
<1>1. /\ rx' = <<>> /\ todo' = <<>> /\ hpc = "idle" /\ hpc' = "idle"
      /\ UNCHANGED <<resp, answered>>
      /\ Lost' \/ \A u \in Threads : pc'[u] = "idle"
  BY DEF RadioOff, Restart, Emptied, GateOpen, Unlocked, handlerVars, callVars, Lost, InCall
<1>2. Pending' = <<>> /\ Len(Pending') = 0
  BY <1>1, EmptySeq, ConcatEmptySeq DEF Pending
<1>3. device' # "stopped" => Used' = 0
  <2> SUFFICES ASSUME device' # "stopped" PROVE Used' = 0
    OBVIOUS
  <2>1. read_ptr' = 0 /\ write_ptr' = 0
    BY DEF RadioOff, Restart
  <2> QED BY <2>1, Numbers DEF Used
<1>4. RingOK'
  BY <1>1, <1>2, <1>3, Numbers DEF RingOK
<1>5. AskedOK' /\ AnsweredOK'
  BY <1>1, <1>2 DEF AskedOK, AnswerOK, AnsweredOK
<1> QED BY <1>4, <1>5 DEF AnswerOK

\* Every step keeps what is pending asked for, and who is woken up answered.
LEMMA NextAnswerOK ==
    ASSUME Serialized, Typed, BusyOK, OwnOK, AnswerOK, [Next]_vars
    PROVE  AnswerOK'
<1>1. ASSUME NEW t \in Threads,
             \/ \E k \in Kinds : Send(t, k)
             \/ Moves(t) \/ TimeUp(t) \/ SendAsync(t) \/ AsyncNoSpace(t)
      PROVE  AnswerOK'
  <2>1. CASE Enqueue(t) \/ SendAsync(t)
    BY <2>1, PutAnswerOK
  <2>2. CASE (Moves(t) \/ TimeUp(t)) /\ ~Enqueue(t)
    BY <2>2, MovesAnswerOK
  <2>3. CASE \E k \in Kinds : Send(t, k)
    BY <2>3, SendAnswerOK
  <2>4. CASE AsyncNoSpace(t)
    BY <2>4, OthersAnswerOK
  <2> QED BY <1>1, <2>1, <2>2, <2>3, <2>4
<1>2. CASE HandlerStep
  BY <1>2, OthersAnswerOK, CompleteStoreAnswerOK, CompleteWakeAnswerOK DEF HandlerStep
<1>3. ASSUME NEW stop \in BOOLEAN, RadioOff(stop) PROVE AnswerOK'
  <2>1. CASE stop = TRUE
    BY <1>3, <2>1, EmptiedAnswerOK
  <2>2. CASE stop = FALSE
    BY <1>3, <2>2, OthersAnswerOK
  <2> QED BY <2>1, <2>2
<1>4. CASE Answer \/ Crash \/ Quiet \/ UNCHANGED vars
  BY <1>4, OthersAnswerOK DEF Quiet
<1>5. CASE Restart
  BY <1>5, EmptiedAnswerOK
<1> QED BY <1>1, <1>2, <1>3, <1>4, <1>5 DEF Next

\* At the start nothing is pending.
LEMMA InitAnswerOK == Init => AnswerOK
<1> SUFFICES ASSUME Init PROVE AnswerOK
  OBVIOUS
<1>1. Pending = <<>> /\ Len(Pending) = 0
  BY EmptySeq, ConcatEmptySeq DEF Init, Pending
<1>2. Used = 0
  BY Numbers DEF Init, Used
<1>3. RingOK
  BY <1>1, <1>2, Numbers DEF Init, RingOK
<1>4. AskedOK /\ AnsweredOK
  BY <1>1 DEF Init, AskedOK, AnsweredOK
<1> QED BY <1>3, <1>4 DEF AnswerOK

\* If something keeps synchronous calls apart, one that succeeds has been answered,
\* whatever woke it up: the sleepers of the shim's wait are woken one at a time and
\* look at no condition, and no command left from an earlier call wakes a later one.
THEOREM SuccessIsAnswered == Serialized => (Spec => AnsweredOnSuccess)
<1> DEFINE
      IInv == Typed /\ BusyOK /\ OwnOK /\ AnswerOK
      Answers == \A t \in Threads :
                    Succeed(t) => t \in answered \/ (rfkill /\ kind[t].rfk /\ ~kind[t].skb)
<1>1. Init => IInv
  BY InitTyped, InitBusyOK, InitOwnOK, InitAnswerOK
<1>2. Serialized /\ IInv /\ [Next]_vars => IInv'
  BY NextTyped, NextBusyOK, NextOwnOK, NextAnswerOK
<1>3. IInv => Answers
  BY DEF AnswerOK, AnsweredOK, Succeed, Failed, Lost
<1>4. CASE Serialized
  <2> HIDE DEF IInv
  <2>1. Spec => [][Answers]_vars
    BY <1>1, <1>2, <1>3, <1>4, PTL DEF Spec
  <2> QED BY <2>1 DEF AnsweredOnSuccess
<1> QED BY <1>4

=============================================================================

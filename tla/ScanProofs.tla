---------------------------- MODULE ScanProofs ----------------------------
(***************************************************************************)
(* A scan that may be stopped has its slot, and the scan whose end is       *)
(* reported is the one that was asked for, for any number of slots, scans   *)
(* and crashes, if the mutexes exclude.                                     *)
(***************************************************************************)
EXTENDS Scan, TLAPS, SequenceTheorems, WellFoundedInduction

Typed == TypeOK /\ scans \in 0 .. MaxScans

-----------------------------------------------------------------------------
(* Types                                                                   *)

\* iwl_mvm_scan_uid_by_status finds a slot of the status if there is one.
LEMMA UidIsOfStatus ==
    ASSUME NEW status, With(status) # {}
    PROVE  UidByStatus(status) \in With(status) /\ UidByStatus(status) \in Uids
<1>1. With(status) \subseteq Nat
  BY DEF With, Uids
<1>2. \E u \in With(status) : \A v \in With(status) : u <= v
  <2> DEFINE R == OpToRel(<, Nat)
  <2>1. IsWellFoundedOn(R, Nat)
    BY NatLessThanWellFounded
  <2>2. \A x, y \in Nat : y < x => <<y, x>> \in R
    BY DEF OpToRel
  <2> HIDE DEF R
  <2>3. PICK u \in With(status) : \A v \in With(status) : ~(<<v, u>> \in R)
    BY <1>1, <2>1, WFMin
  <2>4. \A v \in With(status) : ~(v < u)
    BY <1>1, <2>2, <2>3
  <2> QED BY <1>1, <2>4
<1> QED BY <1>2 DEF UidByStatus, With

\* Appending to and taking from the handlers' list leaves a list of notifications.
LEMMA NotificationQueues ==
    ASSUME NEW s \in Seq(Notifications)
    PROVE  /\ \A n \in Notifications : /\ Append(s, n) \in Seq(Notifications)
                                       /\ Append(s, n) # <<>>
           /\ s # <<>> => Head(s) \in Notifications /\ Tail(s) \in Seq(Notifications)
           /\ <<>> \in Seq(Notifications)
<1>1. <<>> \in Seq(Notifications)
  BY EmptySeq
<1>2. \A n \in Notifications : Append(s, n) \in Seq(Notifications) /\ Append(s, n) # <<>>
  BY AppendProperties
<1>3. s # <<>> => Head(s) \in Notifications /\ Tail(s) \in Seq(Notifications)
  OBVIOUS
<1> QED BY <1>1, <1>2, <1>3

\* The next request has a number within its bound, and there is a first slot.
LEMMA Numbers ==
    /\ MaxScans \in Nat /\ 1 \in Uids
    /\ scans \in 0 .. MaxScans /\ scans < MaxScans
         => scans + 1 \in Requests /\ scans + 1 \in 0 .. MaxScans
BY ScanAssumption DEF Uids, Requests

\* The types are kept by Request (iwl_mvm_build_scan_cmd).
LEMMA RequestTyped ==
    ASSUME Typed, Request
    PROVE  Typed'
BY Numbers, UidIsOfStatus DEF Typed, TypeOK, Request, Callable, fwVars, errorVars, handlerVars

\* The types are kept by RequestNoSlot (iwl_mvm_build_scan_cmd).
LEMMA RequestNoSlotTyped ==
    ASSUME Typed, RequestNoSlot
    PROVE  Typed'
BY Numbers DEF Typed, TypeOK, RequestNoSlot, Callable, mvmVars, fwVars, errorVars, handlerVars,
   callVars

\* The types are kept by CancelReported (ieee80211_scan_cancel).
LEMMA CancelReportedTyped ==
    ASSUME Typed, CancelReported
    PROVE  Typed'
BY DEF Typed, TypeOK, CancelReported, Callable, mvmVars, fwVars, errorVars, handlerVars,
   callVars, countVars

\* The types are kept by Cancel (iwl_mvm_scan_stop_wait).
LEMMA CancelTyped ==
    ASSUME Typed, With("regular") # {}, Cancel
    PROVE  Typed'
BY UidIsOfStatus DEF Typed, TypeOK, Cancel, Callable, mvmVars, fwVars, errorVars, handlerVars,
   countVars

\* The types are kept by FwStart (the firmware beginning a scan).
LEMMA FwStartTyped ==
    ASSUME Typed, FwStart
    PROVE  Typed'
BY DEF Typed, TypeOK, FwStart, mac80211Vars, mvmVars, errorVars, handlerVars, countVars

\* The types are kept by Started (iwl_mvm_reg_scan_start).
LEMMA StartedTyped ==
    ASSUME Typed, Started
    PROVE  Typed'
BY DEF Typed, TypeOK, Started, mac80211Vars, fwVars, errorVars, handlerVars, countVars

\* The types are kept by StartFails (__ieee80211_start_scan).
LEMMA StartFailsTyped ==
    ASSUME Typed, StartFails
    PROVE  Typed'
BY DEF Typed, TypeOK, StartFails, mvmVars, fwVars, errorVars, handlerVars, countVars

\* The types are kept by FwAbort (the firmware aborting a scan).
LEMMA FwAbortTyped ==
    ASSUME Typed, FwAbort
    PROVE  Typed'
<1>1. notifs' \in Seq(Notifications)
  <2>1. CASE fwscan[uid] = None
    BY <2>1 DEF FwAbort, Typed, TypeOK
  <2>2. CASE fwscan[uid] # None
    <3>1. [uid |-> uid, aborted |-> TRUE, req |-> fwscan[uid]] \in Notifications
      BY <2>2 DEF Typed, TypeOK, Notifications
    <3> QED BY <2>2, <3>1, NotificationQueues DEF FwAbort, Typed, TypeOK
  <2> QED BY <2>1, <2>2
<1>2. /\ fwscan' = [fwscan EXCEPT ![uid] = None] /\ pc' = "aborted"
      /\ UNCHANGED <<mac80211Vars, mvmVars, timeout_dwork, fw, errorVars, handlerVars, uid,
                     aborted, countVars>>
  BY DEF FwAbort
<1> QED
  BY <1>1, <1>2 DEF Typed, TypeOK, mac80211Vars, mvmVars, errorVars, handlerVars, countVars

\* The types are kept by Aborted (iwl_mvm_umac_scan_abort).
LEMMA AbortedTyped ==
    ASSUME Typed, Aborted
    PROVE  Typed'
BY DEF Typed, TypeOK, Aborted, mac80211Vars, fwVars, errorVars, handlerVars, countVars

\* The types are kept by Sleep (iwl_wait_notification).
LEMMA SleepTyped ==
    ASSUME Typed, Sleep
    PROVE  Typed'
BY DEF Typed, TypeOK, Sleep, WaitStep, mac80211Vars, mvmVars, fwVars, errorVars, handlerVars,
   countVars

\* The types are kept by TimeUp (iwl_wait_notification).
LEMMA TimeUpTyped ==
    ASSUME Typed, TimeUp
    PROVE  Typed'
BY DEF Typed, TypeOK, TimeUp, WaitStep, mac80211Vars, mvmVars, fwVars, errorVars, handlerVars,
   countVars

\* The types are kept by Stopped (iwl_mvm_scan_stop).
LEMMA StoppedTyped ==
    ASSUME Typed, Stopped
    PROVE  Typed'
BY DEF Typed, TypeOK, Stopped, ScanCompleted, StopEnd, fwVars, errorVars, handlerVars,
   countVars

\* The types are kept by Crash (the firmware asserting).
LEMMA CrashTyped ==
    ASSUME Typed, Crash
    PROVE  Typed'
BY DEF Typed, TypeOK, Crash, mac80211Vars, mvmVars, errorVars, handlerVars, callVars

\* The types are kept by Notify (iwl_mvm_rx_common).
LEMMA NotifyTyped ==
    ASSUME Typed, Notify
    PROVE  Typed'
BY NotificationQueues DEF Typed, TypeOK, Notify, Woken, mac80211Vars, mvmVars, errorVars,
   countVars

\* The types are kept by HandleStale (iwl_mvm_rx_umac_scan_complete_notif).
LEMMA HandleStaleTyped ==
    ASSUME Typed, HandleStale
    PROVE  Typed'
BY NotificationQueues DEF Typed, TypeOK, HandleStale, Handling, mac80211Vars, mvmVars, fwVars,
   errorVars, callVars, countVars

\* The types are kept by HandleReport (iwl_mvm_rx_umac_scan_complete_notif).
LEMMA HandleReportTyped ==
    ASSUME Typed, HandleReport
    PROVE  Typed'
BY DEF Typed, TypeOK, HandleReport, Handling, ScanCompleted, mvmVars, fwVars, errorVars,
   callVars, countVars

\* The types are kept by HandleStopping (iwl_mvm_rx_umac_scan_complete_notif).
LEMMA HandleStoppingTyped ==
    ASSUME Typed, HandleStopping
    PROVE  Typed'
BY DEF Typed, TypeOK, HandleStopping, Handling, mac80211Vars, mvmVars, fwVars, errorVars,
   callVars, countVars

\* The types are kept by HandleClear (iwl_mvm_rx_umac_scan_complete_notif).
LEMMA HandleClearTyped ==
    ASSUME Typed, HandleClear
    PROVE  Typed'
BY NotificationQueues DEF Typed, TypeOK, HandleClear, mac80211Vars, fwVars, errorVars,
   callVars, countVars

\* The types are kept by ScanWork (ieee80211_scan_work).
LEMMA ScanWorkTyped ==
    ASSUME Typed, ScanWork
    PROVE  Typed'
<1>1. /\ scan_req' \in Requests \cup {None}
      /\ scanning' \subseteq {"hw", "completed", "aborted", "cancelled"}
      /\ scan_work' \in BOOLEAN
  BY DEF Typed, TypeOK, ScanWork, mac80211Vars
<1>2. UNCHANGED <<mvmVars, timeout_dwork, fwVars, errorVars, handlerVars, callVars, countVars>>
  BY DEF ScanWork
<1> QED
  BY <1>1, <1>2 DEF Typed, TypeOK, mvmVars, fwVars, errorVars, handlerVars, callVars, countVars

\* The types are kept by TimerFires (IOTimeout::timeout_run).
LEMMA TimerFiresTyped ==
    ASSUME Typed, TimerFires
    PROVE  Typed'
BY DEF Typed, TypeOK, TimerFires, mac80211Vars, mvmVars, fwVars, errorVars, handlerVars,
   callVars, countVars

\* The types are kept by TimeoutWork (iwl_mvm_scan_timeout_wk).
LEMMA TimeoutWorkTyped ==
    ASSUME Typed, TimeoutWork
    PROVE  Typed'
BY DEF Typed, TypeOK, TimeoutWork, mac80211Vars, mvmVars, errorVars, handlerVars, callVars

\* The types are kept by NicRestart (iwl_mvm_nic_restart).
LEMMA NicRestartTyped ==
    ASSUME Typed, NicRestart
    PROVE  Typed'
BY DEF Typed, TypeOK, NicRestart, ScanCompleted, ReportScanAborted, Woken, mac80211Vars,
   fwVars, handlerVars, countVars

\* The types are kept by RestartCancel (ieee80211_restart_work).
LEMMA RestartCancelTyped ==
    ASSUME Typed, RestartCancel
    PROVE  Typed'
BY DEF Typed, TypeOK, RestartCancel, ScanCompleted, StopEnd, mac80211Vars, fwVars, handlerVars,
   callVars, countVars

\* The types are kept by RestartUp (iwl_mvm_restart_cleanup).
LEMMA RestartUpTyped ==
    ASSUME Typed, RestartUp
    PROVE  Typed'
BY NotificationQueues DEF Typed, TypeOK, RestartUp, mac80211Vars, handlerVars, callVars,
   countVars

\* The types are kept by FwCompletes (the firmware ending a scan).
LEMMA FwCompletesTyped ==
    ASSUME Typed, NEW u \in Uids, FwCompletes(u)
    PROVE  Typed'
BY NotificationQueues DEF Typed, TypeOK, FwCompletes, Notifications, mac80211Vars, mvmVars, errorVars,
   handlerVars, callVars, countVars

\* Every step of the callers, the handlers and the restart keeps the types.
LEMMA NextTyped ==
    ASSUME Typed, AlwaysValidIndex, [Next]_vars
    PROVE  Typed'
<1>1. CASE UNCHANGED vars
  BY <1>1 DEF vars, mac80211Vars, mvmVars, fwVars, errorVars, handlerVars, callVars, countVars,
       Typed, TypeOK
<1>2. CASE CallStep
  BY <1>2, FwStartTyped, StartedTyped, StartFailsTyped, FwAbortTyped, AbortedTyped, SleepTyped,
     TimeUpTyped, StoppedTyped DEF CallStep
<1>3. CASE HandlerStep
  BY <1>3, HandleStaleTyped, HandleReportTyped, HandleStoppingTyped, HandleClearTyped
     DEF HandlerStep
<1>4. CASE ErrorStep
  BY <1>4, NicRestartTyped, RestartCancelTyped, RestartUpTyped DEF ErrorStep
<1>5. CASE Cancel
  <2>1. With("regular") # {}
    BY <1>5 DEF Cancel, AlwaysValidIndex, Callable
  <2> QED BY <2>1, <1>5, CancelTyped
<1>6. CASE Request \/ RequestNoSlot \/ CancelReported \/ \E u \in Uids : FwCompletes(u)
  BY <1>6, RequestTyped, RequestNoSlotTyped, CancelReportedTyped, FwCompletesTyped
<1>7. CASE Crash \/ Notify \/ ScanWork \/ TimerFires \/ TimeoutWork
  BY <1>7, CrashTyped, NotifyTyped, ScanWorkTyped, TimerFiresTyped, TimeoutWorkTyped
<1> QED BY <1>1, <1>2, <1>3, <1>4, <1>5, <1>6, <1>7 DEF Next, Quiet

-----------------------------------------------------------------------------
(* The slot of a scan                                                      *)

\* From the mark of the slot as stopping to the end of iwl_mvm_scan_stop.
Stopping == {"wait", "asleep", "woken", "late"}

\* A scan that begins, and that no crash has reported, has its slot.
BegunOK ==
    pc \in {"start", "started"} =>
        scan_req # None /\ ("completed" \in scanning \/ With("regular") # {})

\* A scan that might be stopped has its slot, or is being stopped.
SlotOK == MustStop => With("regular") # {} \/ pc \in Stopping

\* The mutexes: no completion is handled during a call.
ExclusionOK == pc # "idle" => hpc = "idle"

IInv == Typed /\ BegunOK /\ SlotOK /\ ExclusionOK

\* The slot of a scan that may be stopped is part of the invariant.
LEMMA IInvImplies ==
    ASSUME IInv
    PROVE  AlwaysValidIndex
BY DEF IInv, SlotOK, AlwaysValidIndex, Stopping

\* A step of a call.
LEMMA CallIInv ==
    ASSUME IInv, Locked, Typed',
           Request \/ RequestNoSlot \/ CancelReported \/ Cancel \/ CallStep
    PROVE  IInv'
<1> USE DEF IInv, mac80211Vars, mvmVars, handlerVars, callVars
<1>1. ExclusionOK'
  BY DEF ExclusionOK, Request, RequestNoSlot, CancelReported, Cancel, CallStep, FwStart, Started,
         StartFails, FwAbort, Aborted, Sleep, TimeUp, Stopped, WaitStep, Callable
<1>2. BegunOK'
  <2>1. CASE Request
    <3>1. scan_req' # None
      BY <2>1, ScanAssumption DEF Request, Typed, None
    <3>2. UidByStatus("free") \in Uids
      BY <2>1, UidIsOfStatus DEF Request
    <3>3. With("regular")' # {}
      BY <2>1, <3>2 DEF Request, With, Typed, TypeOK
    <3> QED BY <3>1, <3>3 DEF BegunOK
  <2>2. CASE FwStart
    BY <2>2 DEF FwStart, BegunOK, With
  <2>3. CASE pc' \notin {"start", "started"}
    BY <2>3 DEF BegunOK
  <2> QED
    BY <2>1, <2>2, <2>3 DEF RequestNoSlot, CancelReported, Cancel, CallStep, Started,
       StartFails, FwAbort, Aborted, Sleep, TimeUp, Stopped, WaitStep, Callable
<1>3. SlotOK'
  <2>1. CASE Request
    BY <2>1, <1>2 DEF Request, BegunOK, SlotOK, MustStop, With
  <2>2. CASE Started
    BY <2>2 DEF Started, BegunOK, SlotOK, MustStop, With
  <2>3. CASE RequestNoSlot \/ StartFails
    BY <2>3 DEF RequestNoSlot, StartFails, SlotOK, MustStop
  <2>4. CASE CancelReported \/ Cancel
    BY <2>4 DEF CancelReported, Cancel, Callable, SlotOK, MustStop, With, Stopping
  <2>5. CASE FwStart \/ FwAbort
    BY <2>5 DEF FwStart, FwAbort, SlotOK, MustStop, With, Stopping
  <2>6. CASE Aborted \/ Sleep \/ TimeUp
    BY <2>6 DEF Aborted, Sleep, TimeUp, SlotOK, Stopping
  <2>7. CASE Stopped
    BY <2>7 DEF Stopped, StopEnd, SlotOK, MustStop
  <2> QED BY <2>1, <2>2, <2>3, <2>4, <2>5, <2>6, <2>7 DEF CallStep
<1> QED BY <1>1, <1>2, <1>3

\* The works and the firmware's notifications.
LEMMA WorksIInv ==
    ASSUME IInv, Locked, Typed', Notify \/ HandlerStep \/ ScanWork
    PROVE  IInv'
<1> USE DEF IInv, mac80211Vars, mvmVars, handlerVars, callVars
<1>1. CASE Notify
  <2>1. UNCHANGED <<mac80211Vars, mvmVars, hpc>>
        /\ (pc' = pc \/ (pc = "asleep" /\ pc' = "woken"))
    BY <1>1 DEF Notify, Woken
  <2> QED BY <2>1 DEF ExclusionOK, BegunOK, SlotOK, MustStop, With, Stopping
<1>2. CASE HandleStale
  BY <1>2 DEF HandleStale, ExclusionOK, BegunOK, SlotOK, MustStop, With, Stopping
<1>3. CASE HandleReport
  BY <1>3 DEF HandleReport, Handling, MutexFree, ScanCompleted, ExclusionOK, BegunOK, SlotOK,
     MustStop
<1>4. CASE HandleStopping
  BY <1>4 DEF HandleStopping, Handling, MutexFree, ExclusionOK, BegunOK, SlotOK, MustStop, With
<1>5. CASE HandleClear
  <2> DEFINE u == Head(entries).uid
  <2>1. pc = "idle" /\ UNCHANGED <<mac80211Vars, callVars>>
        /\ scan_status' = scan_status \ {scan_uid_status[u]}
        /\ scan_uid_status' = [scan_uid_status EXCEPT ![u] = "free"]
    BY <1>5 DEF HandleClear, ExclusionOK
  <2>2. SlotOK'
    <3>1. CASE scan_uid_status[u] = "regular"
      BY <3>1, <2>1 DEF SlotOK, MustStop
    <3>2. CASE scan_uid_status[u] # "regular"
      BY <3>2, <2>1 DEF SlotOK, MustStop, With, Stopping, Typed, TypeOK
    <3> QED BY <3>1, <3>2
  <2> QED BY <2>1, <2>2 DEF ExclusionOK, BegunOK
<1>6. CASE ScanWork
  BY <1>6 DEF ScanWork, MtxFree, ExclusionOK, BegunOK, SlotOK, MustStop, With, Stopping
<1> QED BY <1>1, <1>2, <1>3, <1>4, <1>5, <1>6 DEF HandlerStep

\* A crash, which is reported without the mutexes, and the restart.
LEMMA ErrorIInv ==
    ASSUME IInv, Locked, Typed', ErrorStep
    PROVE  IInv'
<1> USE DEF IInv, mac80211Vars, mvmVars, handlerVars, callVars
<1>1. CASE NicRestart
  <2>1. UNCHANGED <<scan_status, scan_req, hpc>>
        /\ (pc' = pc \/ (pc = "asleep" /\ pc' = "woken"))
    BY <1>1 DEF NicRestart, Woken, ReportScanAborted, ScanCompleted
  <2>2. ("completed" \in scanning') \/ (With("regular") = {} /\ UNCHANGED scanning)
    BY <1>1 DEF NicRestart, ReportScanAborted, ScanCompleted
  <2> QED BY <2>1, <2>2 DEF ExclusionOK, BegunOK, SlotOK, MustStop, Stopping
<1>2. CASE RestartCancel
  BY <1>2 DEF RestartCancel, MutexFree, StopEnd, ExclusionOK, BegunOK, SlotOK, MustStop, With,
     Stopping
<1>3. CASE RestartUp
  BY <1>3 DEF RestartUp, MutexFree, ExclusionOK, BegunOK, SlotOK, MustStop
<1> QED BY <1>1, <1>2, <1>3 DEF ErrorStep

\* Every step keeps the invariant; those of the firmware and the timer leave alone what it is about.
LEMMA NextIInv ==
    ASSUME IInv, Locked, [Next]_vars
    PROVE  IInv'
<1>1. Typed'
  BY IInvImplies, NextTyped DEF IInv
<1>2. CASE UNCHANGED <<mac80211Vars, mvmVars, hpc, pc>>
  BY <1>1, <1>2 DEF IInv, mac80211Vars, mvmVars, ExclusionOK, BegunOK, SlotOK, MustStop, With
<1>3. CASE \/ Crash \/ TimerFires \/ TimeoutWork \/ (\E u \in Uids : FwCompletes(u))
           \/ UNCHANGED vars
  BY <1>2, <1>3 DEF Crash, TimerFires, TimeoutWork, FwCompletes, vars, handlerVars, callVars
<1> QED BY <1>1, <1>3, CallIInv, WorksIInv, ErrorIInv DEF Next, Quiet

\* An op mode that has started scans nothing, and all slots are free.
LEMMA InitIInv ==
    ASSUME Init
    PROVE  IInv
<1>1. Typed
  <2>1. notifs \in Seq(Notifications) /\ entries \in Seq(Notifications)
    BY EmptySeq DEF Init
  <2>2. scans \in 0..MaxScans /\ uid \in Uids
    BY Numbers, ScanAssumption DEF Init
  <2>3. /\ scan_uid_status \in [Uids -> {"free", "regular", "stopping"}]
        /\ fwscan \in [Uids -> Requests \cup {None}]
    BY DEF Init
  <2>4. {scan_work, fw_error, aborted, failed} \subseteq BOOLEAN
    BY DEF Init
  <2> QED BY <2>1, <2>2, <2>3, <2>4 DEF Init, Typed, TypeOK
<1> QED BY <1>1 DEF Init, IInv, ExclusionOK, BegunOK, SlotOK, MustStop, None

\* Every variable has its type; that uid is a slot rests on the slot being there.
THEOREM TypeCorrect == Locked => (Spec => []TypeOK)
<1>1. IInv => TypeOK
  BY DEF IInv, Typed
<1>2. CASE Locked
  BY <1>1, <1>2, InitIInv, NextIInv, PTL DEF Spec
<1> QED BY <1>2

\* "We should always get a valid index here": with the mutexes as they are
\* written, however often the firmware crashes, and whenever its notifications come.
THEOREM StopFindsSlot == Locked => (Spec => []AlwaysValidIndex)
<1>1. IInv => AlwaysValidIndex
  BY IInvImplies
<1>2. CASE Locked
  BY <1>1, <1>2, InitIInv, NextIInv, PTL DEF Spec
<1> QED BY <1>2

-----------------------------------------------------------------------------
(* Whose end is reported                                                   *)

\* The handler has done with the scan of that slot, and has yet to clear it.
Cleared(u) == hpc = "clear" /\ Head(entries).uid = u

\* Nothing has gone wrong with the firmware.
FirmOK == fw = "up" /\ ~fw_error /\ restart = "no"

\* One scan at a time is in its course: mac80211 waits for it until it has been
\* reported, and scan_work is not queued before.
CourseOK ==
    /\ scan_req = None => scanning = {} /\ ~scan_work
    /\ scan_work => "completed" \in scanning
    /\ pc # "idle" => scan_req # None
    /\ pc \in {"start", "started", "abort", "aborted"} => scan_uid_status[uid] = "regular"
    /\ pc \in Stopping => With("regular") = {}
    /\ \A u, v \in With("regular") : u = v
    /\ \A u \in With("regular") : ~Cleared(u) => scan_req # None /\ "completed" \notin scanning

\* No notification of s is for the slot.
Without(s, u) == \A n \in Range(s) : n.uid # u

UidsDiffer(s) == \A i, j \in 1 .. Len(s) : s[i].uid = s[j].uid => i = j

\* The firmware runs a scan for the slot or has notified its end, once, and for a
\* slot that is free, or whose scan has not been sent, neither.
SlotTokens(u) ==
    /\ Without(entries, u) \/ Without(notifs, u)
    /\ fwscan[u] # None => Without(entries, u) /\ Without(notifs, u)
    /\ scan_uid_status[u] = "free" \/ (pc = "start" /\ u = uid) =>
           fwscan[u] = None /\ Without(entries, u) /\ Without(notifs, u)

TokensOK == UidsDiffer(entries) /\ UidsDiffer(notifs) /\ \A u \in Uids : SlotTokens(u)

\* The scan of a slot that is still to be reported is the one mac80211 waits for.
OwnScan(u, r) == scan_uid_status[u] = "regular" /\ ~Cleared(u) => r = scan_req

OwnOK ==
    /\ \A n \in Range(entries) \cup Range(notifs) : OwnScan(n.uid, n.req)
    /\ \A u \in Uids : fwscan[u] # None => OwnScan(u, fwscan[u])

CourseInv == FirmOK /\ CourseOK /\ TokensOK /\ OwnOK

\* What a list of notifications holds when one is appended or the first is taken.
LEMMA QueueUids ==
    ASSUME NEW s \in Seq(Notifications)
    PROVE  /\ \A n \in Notifications :
                  /\ Range(Append(s, n)) = Range(s) \cup {n}
                  /\ UidsDiffer(s) /\ Without(s, n.uid) => UidsDiffer(Append(s, n))
                  /\ s # <<>> => Head(Append(s, n)) = Head(s)
           /\ s # <<>> => /\ Head(s) \in Range(s) /\ Range(Tail(s)) \subseteq Range(s)
                          /\ UidsDiffer(s) => UidsDiffer(Tail(s)) /\ Without(Tail(s), Head(s).uid)
           /\ Range(s) \subseteq Notifications
<1>1. Range(s) = {s[i] : i \in 1 .. Len(s)} /\ Range(s) \subseteq Notifications
  BY RangeEquality, RangeOfSeq
<1>2. PICK m \in Nat : m = Len(s)
  BY LenProperties
<1>3. ASSUME NEW n \in Notifications
      PROVE  /\ Range(Append(s, n)) = Range(s) \cup {n}
             /\ UidsDiffer(s) /\ Without(s, n.uid) => UidsDiffer(Append(s, n))
             /\ s # <<>> => Head(Append(s, n)) = Head(s)
  <2>1. PICK t \in Seq(Notifications) : t = Append(s, n)
    BY AppendProperties
  <2>2. Len(t) = m + 1 /\ t[m + 1] = n /\ \A i \in 1 .. m : t[i] = s[i]
    BY <1>2, <2>1, AppendProperties
  <2>3. Range(t) = {t[i] : i \in 1 .. m + 1}
    BY <2>2, RangeEquality
  <2>4. Range(t) = Range(s) \cup {n}
    BY <1>1, <1>2, <2>2, <2>3
  <2>5. UidsDiffer(s) /\ Without(s, n.uid) => UidsDiffer(t)
    <3> SUFFICES ASSUME UidsDiffer(s), Without(s, n.uid),
                        NEW i \in 1 .. m + 1, NEW j \in 1 .. m + 1, t[i].uid = t[j].uid
                 PROVE  i = j
      BY <2>2 DEF UidsDiffer
    <3>1. \A k \in 1 .. m : s[k].uid # n.uid
      BY <1>1, <1>2 DEF Without
    <3> QED BY <1>2, <2>2, <3>1 DEF UidsDiffer
  <2>6. s # <<>> => Head(t) = Head(s)
    BY <2>1, HeadTailAppend
  <2> QED BY <2>1, <2>4, <2>5, <2>6
<1>4. ASSUME s # <<>>
      PROVE  /\ Head(s) \in Range(s) /\ Range(Tail(s)) \subseteq Range(s)
             /\ UidsDiffer(s) => UidsDiffer(Tail(s)) /\ Without(Tail(s), Head(s).uid)
  <2>1. PICK t \in Seq(Notifications) : t = Tail(s)
    BY <1>4, HeadTailProperties
  <2>2. m >= 1 /\ Len(t) = m - 1 /\ \A i \in 1 .. m - 1 : t[i] = s[i + 1]
    BY <1>2, <1>4, <2>1, EmptySeq, HeadTailProperties
  <2>3. Head(s) = s[1] /\ Head(s) \in Range(s)
    BY <1>1, <1>2, <2>2
  <2>4. Range(t) = {t[i] : i \in 1 .. m - 1}
    BY <2>2, RangeEquality
  <2>5. \A i \in 1 .. m - 1 : i + 1 \in 1 .. m
    BY <1>2
  <2>6. Range(t) \subseteq Range(s)
    BY <1>1, <1>2, <2>2, <2>4, <2>5
  <2>7. UidsDiffer(s) => UidsDiffer(t)
    BY <1>2, <2>2, <2>5 DEF UidsDiffer
  <2>8. UidsDiffer(s) => Without(t, s[1].uid)
    <3> SUFFICES ASSUME UidsDiffer(s), NEW i \in 1 .. m - 1 PROVE t[i].uid # s[1].uid
      BY <2>4 DEF Without
    <3>1. i + 1 \in 1 .. m /\ 1 \in 1 .. m /\ i + 1 # 1
      BY <1>2, <2>2
    <3> QED BY <1>2, <2>2, <3>1 DEF UidsDiffer
  <2> QED BY <2>1, <2>3, <2>6, <2>7, <2>8
<1> QED BY <1>1, <1>3, <1>4

\* A slot that is as it was, or that no notification is for.
SlotKept(u) ==
    \/ scan_uid_status[u] = "regular" /\ ~Cleared(u) /\ scan_req' = scan_req
    \/ Without(entries, u) /\ Without(notifs, u) /\ fwscan[u] = None

\* A step that leaves the notifications alone, and takes no slot in use for free.
LEMMA SameTokens ==
    ASSUME TokensOK, UNCHANGED <<entries, notifs, fwscan>>,
           \A u \in Uids : scan_uid_status'[u] = "free" \/ (pc' = "start" /\ u = uid') =>
               scan_uid_status[u] = "free" \/ (pc = "start" /\ u = uid)
    PROVE  TokensOK'
BY DEF TokensOK, SlotTokens, Without, UidsDiffer

\* A step that adds no notification, and keeps the scans that are to be reported.
LEMMA SameOwn ==
    ASSUME OwnOK, Typed, fwscan' = fwscan,
           Range(entries') \cup Range(notifs') \subseteq Range(entries) \cup Range(notifs),
           \A u \in Uids : scan_uid_status'[u] = "regular" /\ ~Cleared(u)' => SlotKept(u)
    PROVE  OwnOK'
<1>1. \A n \in Range(entries) \cup Range(notifs) : n.uid \in Uids
  BY QueueUids DEF Typed, TypeOK, Notifications
<1>2. ASSUME NEW n \in Range(entries') \cup Range(notifs') PROVE OwnScan(n.uid, n.req)'
  <2>1. n \in Range(entries) \cup Range(notifs) /\ n.uid \in Uids /\ OwnScan(n.uid, n.req)
    BY <1>1, <1>2 DEF OwnOK
  <2>2. ~(Without(entries, n.uid) /\ Without(notifs, n.uid))
    BY <2>1 DEF Without
  <2> QED BY <2>1, <2>2 DEF SlotKept, OwnScan
<1>3. ASSUME NEW u \in Uids, fwscan'[u] # None PROVE OwnScan(u, fwscan[u])'
  BY <1>3 DEF SlotKept, OwnScan, OwnOK
<1> QED BY <1>2, <1>3 DEF OwnOK

\* A scan is asked for: no other is in its course, and no notification of an
\* earlier one is left for the slot it takes.
LEMMA RequestCourse ==
    ASSUME IInv, Locked, CourseInv, Request PROVE CourseInv'
<1>1. /\ pc = "idle" /\ hpc = "idle" /\ scan_req = None /\ scan_req' = scans + 1
      /\ scanning' = scanning \cup {"hw"} /\ pc' = "start" /\ uid' = UidByStatus("free")
      /\ scan_uid_status' = [scan_uid_status EXCEPT ![uid'] = "regular"]
      /\ UNCHANGED <<scan_work, fw, fw_error, restart, fwscan, notifs, entries, hpc>>
  BY DEF Request, Callable, fwVars, errorVars, handlerVars
<1>2. uid' \in Uids /\ scan_uid_status[uid'] = "free"
  BY <1>1, UidIsOfStatus DEF Request, With
<1>3. scan_uid_status \in [Uids -> {"free", "regular", "stopping"}]
  BY DEF IInv, Typed, TypeOK
<1>4. scan_req' # None
  BY <1>1 DEF IInv, Typed, None
<1>5. \A u \in Uids : scan_uid_status[u] # "regular"
  BY <1>1 DEF CourseInv, CourseOK, Cleared, With
<1>6. \A u \in Uids : scan_uid_status'[u] = IF u = uid' THEN "regular" ELSE scan_uid_status[u]
  BY <1>1, <1>2, <1>3
<1>7. CourseOK'
  <2>1. scanning = {} /\ ~scan_work
    BY <1>1 DEF CourseInv, CourseOK
  <2>2. \A u \in With("regular")' : u = uid'
    BY <1>5, <1>6 DEF With
  <2> QED BY <1>1, <1>2, <1>4, <1>6, <2>1, <2>2 DEF CourseOK, Stopping
<1>8. TokensOK'
  <2>1. \A u \in Uids : scan_uid_status'[u] = "free" \/ (pc' = "start" /\ u = uid') =>
               scan_uid_status[u] = "free" \/ (pc = "start" /\ u = uid)
    BY <1>2, <1>6
  <2> QED BY <1>1, <2>1, SameTokens DEF CourseInv
<1>9. OwnOK'
  <2>1. \A u \in Uids : scan_uid_status'[u] = "regular" => SlotKept(u)
    BY <1>2, <1>5, <1>6 DEF SlotKept, CourseInv, TokensOK, SlotTokens
  <2> QED BY <1>1, <2>1, SameOwn DEF IInv, CourseInv
<1> QED BY <1>1, <1>7, <1>8, <1>9 DEF CourseInv, FirmOK

\* A step of a call that leaves the slots and the firmware's scans alone: an
\* attempt that finds no slot, one that is cancelled after its report, and those
\* of a stop up to the wait.
LEMMA CallCourse ==
    ASSUME IInv, Locked, CourseInv,
           RequestNoSlot \/ CancelReported \/ Cancel \/ Started \/ Sleep \/ TimeUp
    PROVE  CourseInv'
<1>1. UNCHANGED <<scan_req, scan_work, scan_uid_status, fw, fw_error, restart, fwscan, notifs,
                  entries, hpc>>
  BY DEF RequestNoSlot, CancelReported, Cancel, Started, Sleep, TimeUp, WaitStep, mac80211Vars,
     mvmVars, fwVars, errorVars, handlerVars
<1>2. \/ UNCHANGED <<pc, uid>> \/ Cancel
      \/ pc = "started" /\ pc' = "idle"
      \/ pc \in Stopping /\ pc' \in Stopping
  BY DEF RequestNoSlot, CancelReported, Started, Sleep, TimeUp, WaitStep, callVars, Stopping
<1>3. pc' # "start" \/ (pc = "start" /\ uid' = uid)
  BY <1>2 DEF Cancel, Stopping
<1>4. TokensOK'
  BY <1>1, <1>3, SameTokens DEF CourseInv
<1>5. OwnOK'
  <2>1. \A u \in Uids : scan_uid_status'[u] = "regular" /\ ~Cleared(u)' => SlotKept(u)
    BY <1>1 DEF SlotKept, Cleared
  <2> QED BY <1>1, <2>1, SameOwn DEF IInv, CourseInv
<1>6. scan_req = None => scanning = {}
  BY DEF CourseInv, CourseOK
<1>7. /\ scan_req = None => scanning' = {}
      /\ "completed" \in scanning' <=> "completed" \in scanning
  <2>1. CASE RequestNoSlot
    BY <1>6, <2>1 DEF RequestNoSlot
  <2>2. CASE CancelReported
    BY <2>2 DEF CancelReported
  <2>3. CASE Cancel
    BY <2>3 DEF Cancel, MustStop
  <2>4. CASE Started \/ Sleep \/ TimeUp
    BY <1>6, <2>4 DEF Started, Sleep, TimeUp, WaitStep, mac80211Vars
  <2> QED BY <2>1, <2>2, <2>3, <2>4
<1>8. With("regular")' = With("regular") /\ \A u \in Uids : Cleared(u)' = Cleared(u)
  BY <1>1 DEF With, Cleared
<1>9. CASE Cancel
  <2>1. scan_req # None /\ With("regular") # {} /\ uid' = UidByStatus("regular") /\ pc' = "abort"
    BY <1>9, IInvImplies DEF Cancel, MustStop, AlwaysValidIndex, Callable
  <2>2. scan_uid_status'[uid'] = "regular"
    BY <1>1, <2>1, UidIsOfStatus DEF With
  <2>3. CourseOK'
    BY <1>1, <1>7, <1>8, <2>1, <2>2 DEF CourseInv, CourseOK, Stopping, With
  <2> QED BY <1>1, <1>4, <1>5, <2>3 DEF CourseInv, FirmOK
<1>10. CASE ~Cancel
  <2>1. /\ pc' # "idle" => pc # "idle"
        /\ pc' \in {"start", "started", "abort", "aborted"} =>
               uid' = uid /\ pc \in {"start", "started", "abort", "aborted"}
        /\ pc' \in Stopping => pc \in Stopping
    BY <1>2, <1>10 DEF Stopping
  <2>2. CourseOK'
    BY <1>1, <1>7, <1>8, <2>1 DEF CourseInv, CourseOK, With
  <2> QED BY <1>1, <1>4, <1>5, <2>2 DEF CourseInv, FirmOK
<1> QED BY <1>9, <1>10

\* The firmware begins the scan: it is the one mac80211 waits for.
LEMMA FwStartCourse ==
    ASSUME IInv, CourseInv, FwStart PROVE CourseInv'
<1>1. /\ pc = "start" /\ pc' = "started" /\ uid' = uid
      /\ fwscan' = [fwscan EXCEPT ![uid] = scan_req]
      /\ UNCHANGED <<scan_req, scanning, scan_work, scan_uid_status, fw, fw_error, restart,
                     notifs, entries, hpc>>
  BY DEF FwStart, mac80211Vars, mvmVars, errorVars, handlerVars
<1>2. uid \in Uids /\ fwscan \in [Uids -> Requests \cup {None}]
  BY DEF IInv, Typed, TypeOK
<1>3. \A u \in Uids : fwscan'[u] = IF u = uid THEN scan_req ELSE fwscan[u]
  BY <1>1, <1>2
<1>4. scan_uid_status[uid] = "regular" /\ Without(entries, uid) /\ Without(notifs, uid)
  BY <1>1, <1>2 DEF CourseInv, CourseOK, TokensOK, SlotTokens
<1>5. CourseOK'
  <2>1. With("regular")' = With("regular") /\ \A u \in Uids : Cleared(u)' = Cleared(u)
    BY <1>1 DEF With, Cleared
  <2> QED BY <1>1, <2>1 DEF CourseInv, CourseOK, Stopping, With
<1>6. TokensOK'
  <2>1. \A u \in Uids : SlotTokens(u)'
    <3> TAKE u \in Uids
    <3>1. SlotTokens(u)
      BY DEF CourseInv, TokensOK
    <3>2. CASE u = uid
      BY <1>1, <1>4, <3>2 DEF SlotTokens, Without
    <3>3. CASE u # uid
      BY <1>1, <1>3, <3>1, <3>3 DEF SlotTokens, Without
    <3> QED BY <3>2, <3>3
  <2> QED BY <1>1, <2>1 DEF CourseInv, TokensOK, UidsDiffer
<1>7. OwnOK'
  <2>1. \A u \in Uids : \A r : OwnScan(u, r) => OwnScan(u, r)'
    BY <1>1 DEF OwnScan, Cleared
  <2>2. \A n \in Range(entries) \cup Range(notifs) : n.uid \in Uids
    BY QueueUids DEF IInv, Typed, TypeOK, Notifications
  <2>3. \A n \in Range(entries') \cup Range(notifs') : OwnScan(n.uid, n.req)'
    BY <1>1, <2>1, <2>2 DEF CourseInv, OwnOK
  <2>4. \A u \in Uids : fwscan'[u] # None => OwnScan(u, fwscan[u])'
    BY <1>1, <1>3, <2>1 DEF CourseInv, OwnOK, OwnScan
  <2> QED BY <2>3, <2>4 DEF OwnOK
<1> QED BY <1>1, <1>5, <1>6, <1>7 DEF CourseInv, FirmOK

\* The firmware ends a scan, of its own or told to: its notification is of that scan.
LEMMA EndNotified ==
    ASSUME Typed, TokensOK, OwnOK, NEW u \in Uids, NEW ab \in BOOLEAN, fwscan[u] # None,
           fwscan' = [fwscan EXCEPT ![u] = None],
           notifs' = Append(notifs, [uid |-> u, aborted |-> ab, req |-> fwscan[u]]),
           UNCHANGED <<scan_req, scan_uid_status, entries, hpc>>,
           pc' = "start" => pc = "start" /\ uid' = uid
    PROVE  TokensOK' /\ OwnOK'
<1>1. PICK n \in Notifications : n = [uid |-> u, aborted |-> ab, req |-> fwscan[u]]
  BY DEF Typed, TypeOK, Notifications
<1>2. n.uid = u /\ n.req = fwscan[u] /\ notifs' = Append(notifs, n)
  BY <1>1
<1>3. notifs \in Seq(Notifications) /\ Without(notifs, u) /\ Without(entries, u)
  BY DEF Typed, TypeOK, TokensOK, SlotTokens
<1>4. Range(notifs') = Range(notifs) \cup {n} /\ UidsDiffer(notifs')
  BY <1>2, <1>3, QueueUids DEF TokensOK
<1>5. \A v \in Uids : fwscan'[v] = IF v = u THEN None ELSE fwscan[v]
  BY DEF Typed, TypeOK
<1>6. \A v \in Uids : \A r : OwnScan(v, r)' = OwnScan(v, r)
  BY DEF OwnScan, Cleared
<1>7. TokensOK'
  <2>1. \A v \in Uids : SlotTokens(v)'
    <3> TAKE v \in Uids
    <3>1. SlotTokens(v)
      BY DEF TokensOK
    <3>2. Without(entries, v)' = Without(entries, v)
      BY DEF Without
    <3>3. CASE v = u
      BY <1>3, <1>5, <3>1, <3>2, <3>3 DEF SlotTokens
    <3>4. CASE v # u
      <4>1. Without(notifs, v)' = Without(notifs, v)
        BY <1>2, <1>4, <3>4 DEF Without
      <4> QED BY <1>5, <3>1, <3>2, <3>4, <4>1 DEF SlotTokens
    <3> QED BY <3>3, <3>4
  <2> QED BY <1>4, <2>1 DEF TokensOK, UidsDiffer
<1>8. OwnOK'
  <2>1. \A k \in Range(entries) \cup Range(notifs) : k.uid \in Uids
    BY QueueUids DEF Typed, TypeOK, Notifications
  <2>2. OwnScan(n.uid, n.req)'
    BY <1>2, <1>6 DEF OwnOK
  <2>3. \A k \in Range(entries') \cup Range(notifs') : OwnScan(k.uid, k.req)'
    BY <1>4, <1>6, <2>1, <2>2 DEF OwnOK
  <2>4. \A v \in Uids : fwscan'[v] # None => OwnScan(v, fwscan[v])'
    BY <1>5, <1>6 DEF OwnOK
  <2> QED BY <2>3, <2>4 DEF OwnOK
<1> QED BY <1>7, <1>8

\* The firmware ends a scan that it runs, or is told to abort one.
LEMMA FwEndCourse ==
    ASSUME IInv, CourseInv, FwAbort \/ \E u \in Uids : FwCompletes(u) PROVE CourseInv'
<1>1. /\ UNCHANGED <<scan_req, scanning, scan_work, scan_uid_status, fw, fw_error, restart,
                     entries, hpc, uid>>
      /\ pc' = pc \/ (pc = "abort" /\ pc' = "aborted")
  BY DEF FwAbort, FwCompletes, mac80211Vars, mvmVars, errorVars, handlerVars, callVars
<1>2. CourseOK'
  <2>1. With("regular")' = With("regular") /\ \A u \in Uids : Cleared(u)' = Cleared(u)
    BY <1>1 DEF With, Cleared
  <2> QED BY <1>1, <2>1 DEF CourseInv, CourseOK, Stopping, With
<1>3. pc' = "start" => pc = "start" /\ uid' = uid
  BY <1>1
<1>4. TokensOK' /\ OwnOK'
  <2>1. CASE FwAbort /\ fwscan[uid] # None
    BY <1>1, <1>3, <2>1, EndNotified DEF FwAbort, IInv, Typed, TypeOK, CourseInv
  <2>2. CASE FwAbort /\ fwscan[uid] = None
    <3>1. notifs' = notifs /\ fwscan' = fwscan
      BY <2>2 DEF FwAbort, IInv, Typed, TypeOK
    <3>2. \A u \in Uids : scan_uid_status'[u] = "regular" /\ ~Cleared(u)' => SlotKept(u)
      BY <1>1 DEF SlotKept, Cleared
    <3> QED BY <1>1, <1>3, <3>1, <3>2, SameTokens, SameOwn DEF CourseInv, IInv
  <2>3. ASSUME NEW u \in Uids, FwCompletes(u) PROVE TokensOK' /\ OwnOK'
    <3>1. /\ fwscan[u] # None /\ fwscan' = [fwscan EXCEPT ![u] = None] /\ FALSE \in BOOLEAN
          /\ notifs' = Append(notifs, [uid |-> u, aborted |-> FALSE, req |-> fwscan[u]])
      BY <2>3 DEF FwCompletes
    <3> QED BY <1>1, <1>3, <3>1, EndNotified DEF CourseInv, IInv
  <2> QED BY <2>1, <2>2, <2>3
<1> QED BY <1>1, <1>2, <1>4 DEF CourseInv, FirmOK

\* The slot is marked as stopping, and mac80211 is told when the wait has ended.
LEMMA StopCourse ==
    ASSUME IInv, CourseInv, Aborted \/ Stopped PROVE CourseInv'
<1>1. /\ UNCHANGED <<scan_req, fw, fw_error, restart, fwscan, notifs, entries, hpc, uid>>
      /\ pc' \in {"wait", "idle"}
  BY DEF Aborted, Stopped, StopEnd, ScanCompleted, mac80211Vars, fwVars, errorVars, handlerVars
<1>2. uid \in Uids /\ scan_uid_status \in [Uids -> {"free", "regular", "stopping"}]
  BY DEF IInv, Typed, TypeOK
<1>3. \A u \in Uids : scan_uid_status'[u] # "regular"
                      /\ (scan_uid_status'[u] = "free" => scan_uid_status[u] = "free")
  <2>1. CASE Aborted
    <3>1. scan_uid_status' = [scan_uid_status EXCEPT ![uid] = "stopping"]
      BY <2>1 DEF Aborted
    <3>2. \A u \in Uids : scan_uid_status[u] = "regular" => u = uid
      BY <1>2, <2>1 DEF Aborted, CourseInv, CourseOK, With
    <3> QED BY <1>2, <3>1, <3>2
  <2>2. CASE Stopped
    <3>1. pc \in Stopping /\ UNCHANGED scan_uid_status
      BY <2>2 DEF Stopped, CourseInv, FirmOK, Stopping
    <3> QED BY <3>1 DEF CourseInv, CourseOK, With
  <2> QED BY <2>1, <2>2
<1>4. CourseOK'
  <2>1. With("regular")' = {}
    BY <1>3 DEF With
  <2>2. scan_req # None
    BY DEF Aborted, Stopped, CourseInv, CourseOK, FirmOK
  <2>3. UNCHANGED <<scanning, scan_work>> \/ "completed" \in scanning'
    BY DEF Aborted, Stopped, StopEnd, ScanCompleted, mac80211Vars
  <2> QED BY <1>1, <2>1, <2>2, <2>3 DEF CourseInv, CourseOK
<1>5. TokensOK'
  BY <1>1, <1>3, SameTokens DEF CourseInv
<1>6. OwnOK'
  BY <1>1, <1>3, SameOwn DEF IInv, CourseInv
<1> QED BY <1>1, <1>4, <1>5, <1>6 DEF CourseInv, FirmOK

\* A notification goes on the handlers' list, behind those that are there.
LEMMA NotifyCourse ==
    ASSUME IInv, CourseInv, Notify PROVE CourseInv'
<1>1. /\ UNCHANGED <<scan_req, scanning, scan_work, scan_uid_status, fw, fw_error, restart,
                     fwscan, hpc, uid>>
      /\ pc' = pc \/ (pc = "asleep" /\ pc' = "woken")
      /\ notifs # <<>> /\ notifs' = Tail(notifs) /\ entries' = Append(entries, Head(notifs))
  BY DEF Notify, Woken, mac80211Vars, mvmVars, errorVars
<1>2. entries \in Seq(Notifications) /\ notifs \in Seq(Notifications)
  BY DEF IInv, Typed, TypeOK
<1>3. PICK n \in Notifications : n = Head(notifs)
  BY <1>1, <1>2, NotificationQueues
<1>4. /\ n \in Range(notifs) /\ Range(notifs') \subseteq Range(notifs)
      /\ UidsDiffer(notifs') /\ Without(notifs', n.uid)
  BY <1>1, <1>2, <1>3, QueueUids DEF CourseInv, TokensOK
<1>5. n.uid \in Uids /\ Without(entries, n.uid)
  BY <1>3, <1>4 DEF Notifications, CourseInv, TokensOK, SlotTokens, Without
<1>6. /\ Range(entries') = Range(entries) \cup {n} /\ UidsDiffer(entries')
      /\ entries # <<>> => Head(entries') = Head(entries)
  BY <1>1, <1>2, <1>3, <1>5, QueueUids DEF CourseInv, TokensOK
<1>7. \A u \in Uids : Cleared(u)' = Cleared(u)
  BY <1>1, <1>6 DEF Cleared, IInv, Typed, TypeOK
<1>8. CourseOK'
  <2>1. With("regular")' = With("regular")
    BY <1>1 DEF With
  <2> QED BY <1>1, <1>7, <2>1 DEF CourseInv, CourseOK, Stopping, With
<1>9. TokensOK'
  <2>1. \A u \in Uids : SlotTokens(u)'
    <3> TAKE u \in Uids
    <3>1. SlotTokens(u)
      BY DEF CourseInv, TokensOK
    <3>2. CASE u = n.uid
      <4>1. ~Without(notifs, u)
        BY <1>4, <3>2 DEF Without
      <4> QED BY <1>1, <1>4, <3>1, <3>2, <4>1 DEF SlotTokens
    <3>3. CASE u # n.uid
      <4>1. (Without(entries, u) => Without(entries, u)') /\ (Without(notifs, u) => Without(notifs, u)')
        BY <1>4, <1>6, <3>3 DEF Without
      <4> QED BY <1>1, <3>1, <4>1 DEF SlotTokens
    <3> QED BY <3>2, <3>3
  <2> QED BY <1>4, <1>6, <2>1 DEF TokensOK
<1>10. OwnOK'
  <2>1. Range(entries') \cup Range(notifs') \subseteq Range(entries) \cup Range(notifs)
    BY <1>4, <1>6
  <2>2. \A u \in Uids : scan_uid_status'[u] = "regular" /\ ~Cleared(u)' => SlotKept(u)
    BY <1>1, <1>7 DEF SlotKept
  <2> QED BY <1>1, <2>1, <2>2, SameOwn DEF IInv, CourseInv
<1> QED BY <1>1, <1>8, <1>9, <1>10 DEF CourseInv, FirmOK

\* The handler takes up a completion: it is dropped, or reported, which is for the
\* scan of the slot, or it is of a scan that is being stopped.
LEMMA HandleCourse ==
    ASSUME IInv, Locked, CourseInv, HandleStale \/ HandleReport \/ HandleStopping
    PROVE  CourseInv'
<1>1. /\ UNCHANGED <<scan_req, scan_uid_status, fw, fw_error, restart, fwscan, notifs, pc, uid>>
      /\ hpc = "idle" /\ pc = "idle" /\ entries # <<>>
      /\ entries' = entries \/ entries' = Tail(entries)
  BY DEF HandleStale, HandleReport, HandleStopping, Handling, MutexFree, ScanCompleted,
     mac80211Vars, mvmVars, fwVars, errorVars, callVars
<1>2. entries \in Seq(Notifications)
  BY DEF IInv, Typed, TypeOK
<1>3. PICK n \in Notifications : n = Head(entries)
  BY <1>1, <1>2, NotificationQueues
<1>4. n \in Range(entries) /\ n.uid \in Uids /\ ~Without(entries, n.uid)
  BY <1>1, <1>2, <1>3, QueueUids DEF Notifications, Without
<1>5. Range(entries') \subseteq Range(entries) /\ UidsDiffer(entries')
  BY <1>1, <1>2, QueueUids DEF CourseInv, TokensOK
<1>6. With("regular")' = With("regular") /\ \A u \in Uids : ~Cleared(u)
  BY <1>1 DEF With, Cleared
<1>7. CourseOK'
  <2>1. CASE HandleStale
    <3>1. UNCHANGED <<scanning, scan_work, hpc>>
      BY <2>1 DEF HandleStale, mac80211Vars
    <3>2. \A u \in Uids : ~Cleared(u)'
      BY <1>1, <3>1 DEF Cleared
    <3> QED BY <1>1, <1>6, <3>1, <3>2 DEF CourseInv, CourseOK, With, Stopping
  <2>2. CASE HandleReport
    <3>1. scan_uid_status[n.uid] = "regular" /\ hpc' = "clear" /\ entries' = entries
          /\ scan_work' /\ "completed" \in scanning'
      BY <1>3, <2>2 DEF HandleReport, ScanCompleted
    <3>2. scan_req # None
      BY <1>4, <1>6, <3>1 DEF CourseInv, CourseOK, With
    <3>3. \A u \in With("regular") : Cleared(u)'
      BY <1>3, <1>4, <3>1 DEF CourseInv, CourseOK, With, Cleared
    <3> QED BY <1>1, <1>6, <3>1, <3>2, <3>3 DEF CourseInv, CourseOK, Stopping
  <2>3. CASE HandleStopping
    <3>1. UNCHANGED <<scanning, scan_work>>
      BY <2>3 DEF HandleStopping, mac80211Vars
    <3> QED BY <1>1, <1>6, <3>1 DEF CourseInv, CourseOK, With, Stopping
  <2> QED BY <2>1, <2>2, <2>3
<1>8. TokensOK'
  <2>1. \A u \in Uids : SlotTokens(u)'
    <3> TAKE u \in Uids
    <3>1. SlotTokens(u)
      BY DEF CourseInv, TokensOK
    <3>2. (Without(entries, u) => Without(entries, u)') /\ Without(notifs, u)' = Without(notifs, u)
      BY <1>1, <1>5 DEF Without
    <3> QED BY <1>1, <3>1, <3>2 DEF SlotTokens
  <2> QED BY <1>1, <1>5, <2>1 DEF CourseInv, TokensOK, UidsDiffer
<1>9. OwnOK'
  <2>1. Range(entries') \cup Range(notifs') \subseteq Range(entries) \cup Range(notifs)
    BY <1>1, <1>5
  <2>2. \A u \in Uids : scan_uid_status'[u] = "regular" /\ ~Cleared(u)' => SlotKept(u)
    BY <1>1, <1>6 DEF SlotKept
  <2> QED BY <1>1, <2>1, <2>2, SameOwn DEF IInv, CourseInv
<1> QED BY <1>1, <1>7, <1>8, <1>9 DEF CourseInv, FirmOK

\* The slot is cleared: it was the completion's, and no other is left for it.
LEMMA ClearCourse ==
    ASSUME IInv, Locked, CourseInv, HandleClear PROVE CourseInv'
<1>1. /\ UNCHANGED <<scan_req, scanning, scan_work, fw, fw_error, restart, fwscan, notifs, pc, uid>>
      /\ hpc = "clear" /\ hpc' = "idle" /\ entries' = Tail(entries)
      /\ scan_uid_status' = [scan_uid_status EXCEPT ![Head(entries).uid] = "free"]
  BY DEF HandleClear, mac80211Vars, fwVars, errorVars, callVars
<1>2. /\ entries \in Seq(Notifications) /\ entries # <<>> /\ pc = "idle"
      /\ scan_uid_status \in [Uids -> {"free", "regular", "stopping"}]
  BY <1>1 DEF IInv, Typed, TypeOK, ExclusionOK
<1>3. PICK n \in Notifications : n = Head(entries)
  BY <1>2, NotificationQueues
<1>4. /\ n \in Range(entries) /\ n.uid \in Uids /\ ~Without(entries, n.uid)
      /\ Range(entries') \subseteq Range(entries) /\ UidsDiffer(entries')
      /\ Without(entries', n.uid)
  BY <1>1, <1>2, <1>3, QueueUids DEF Notifications, Without, CourseInv, TokensOK
<1>5. \A u \in Uids : scan_uid_status'[u] = IF u = n.uid THEN "free" ELSE scan_uid_status[u]
  BY <1>1, <1>2, <1>3, <1>4
<1>6. \A u \in Uids : ~Cleared(u)' /\ (Cleared(u) => u = n.uid)
  BY <1>1, <1>3 DEF Cleared
<1>7. CourseOK'
  <2>1. \A u \in With("regular")' : u \in With("regular") /\ ~Cleared(u)
    BY <1>5, <1>6 DEF With
  <2> QED BY <1>1, <1>2, <2>1 DEF CourseInv, CourseOK, Stopping
<1>8. TokensOK'
  <2>1. \A u \in Uids : SlotTokens(u)'
    <3> TAKE u \in Uids
    <3>1. SlotTokens(u)
      BY DEF CourseInv, TokensOK
    <3>2. (Without(entries, u) => Without(entries, u)') /\ Without(notifs, u)' = Without(notifs, u)
      BY <1>1, <1>4 DEF Without
    <3>3. CASE u = n.uid
      <4>1. fwscan[u] = None /\ Without(notifs, u) /\ Without(entries, u)'
        BY <1>4, <3>1, <3>3 DEF SlotTokens
      <4> QED BY <1>1, <3>2, <4>1 DEF SlotTokens
    <3>4. CASE u # n.uid
      BY <1>1, <1>2, <1>5, <3>1, <3>2, <3>4 DEF SlotTokens
    <3> QED BY <3>3, <3>4
  <2> QED BY <1>1, <1>4, <2>1 DEF CourseInv, TokensOK, UidsDiffer
<1>9. OwnOK'
  <2>1. Range(entries') \cup Range(notifs') \subseteq Range(entries) \cup Range(notifs)
    BY <1>1, <1>4
  <2>2. \A u \in Uids : scan_uid_status'[u] = "regular" /\ ~Cleared(u)' => SlotKept(u)
    BY <1>1, <1>5, <1>6 DEF SlotKept
  <2> QED BY <1>1, <2>1, <2>2, SameOwn DEF IInv, CourseInv
<1> QED BY <1>1, <1>7, <1>8, <1>9 DEF CourseInv, FirmOK

\* scan_work ends the scan: it has been reported, so that no slot is still to be.
LEMMA ScanWorkCourse ==
    ASSUME IInv, Locked, CourseInv, ScanWork PROVE CourseInv'
<1>1. scan_work /\ pc = "idle" /\ "completed" \in scanning /\ scan_req # None
  BY DEF ScanWork, MtxFree, CourseInv, CourseOK
<1>2. /\ scan_req' = None /\ scanning' = {} /\ scan_work' = FALSE
      /\ UNCHANGED <<scan_uid_status, fw, fw_error, restart, fwscan, notifs, entries, hpc, pc, uid>>
  BY <1>1 DEF ScanWork, mvmVars, fwVars, errorVars, handlerVars, callVars
<1>3. \A u \in With("regular") : Cleared(u)
  BY <1>1 DEF CourseInv, CourseOK
<1>4. With("regular")' = With("regular") /\ \A u \in Uids : Cleared(u)' = Cleared(u)
  BY <1>2 DEF With, Cleared
<1>5. CourseOK'
  BY <1>1, <1>2, <1>3, <1>4 DEF CourseInv, CourseOK, Stopping, With
<1>6. TokensOK'
  BY <1>1, <1>2, SameTokens DEF CourseInv
<1>7. OwnOK'
  <2>1. \A u \in Uids : ~(scan_uid_status'[u] = "regular" /\ ~Cleared(u)')
    BY <1>2, <1>3, <1>4 DEF With
  <2> QED BY <1>2, <2>1, SameOwn DEF IInv, CourseInv
<1> QED BY <1>2, <1>5, <1>6, <1>7 DEF CourseInv, FirmOK

\* Until the firmware fails, the scan in its course is the one that is reported.
OwnInv == failed \/ CourseInv

\* Every step keeps it; there is no restart before the firmware has failed.
LEMMA NextOwnInv ==
    ASSUME IInv, Locked, OwnInv, [Next]_vars
    PROVE  OwnInv'
<1>1. CASE failed
  <2>1. failed' = failed \/ failed' = TRUE
    BY DEF Next, vars, countVars, Request, RequestNoSlot, CancelReported, Cancel, CallStep,
       FwStart, Started, StartFails, FwAbort, Aborted, Sleep, TimeUp, Stopped, WaitStep,
       FwCompletes, Crash, Notify, HandlerStep, HandleStale, HandleReport, HandleStopping,
       HandleClear, ScanWork, TimerFires, TimeoutWork, ErrorStep, NicRestart, RestartCancel,
       RestartUp, Quiet
  <2> QED BY <1>1, <2>1 DEF OwnInv
<1> SUFFICES ASSUME CourseInv PROVE OwnInv'
  BY <1>1 DEF OwnInv
<1>2. CASE Request \/ RequestNoSlot \/ CancelReported \/ Cancel
  BY <1>2, RequestCourse, CallCourse DEF OwnInv
<1>3. CASE CallStep
  <2>1. ~StartFails
    BY DEF StartFails, CourseInv, FirmOK
  <2> QED BY <1>3, <2>1, FwStartCourse, CallCourse, FwEndCourse, StopCourse DEF CallStep, OwnInv
<1>4. CASE \E u \in Uids : FwCompletes(u)
  BY <1>4, FwEndCourse DEF OwnInv
<1>5. CASE Notify \/ HandlerStep \/ ScanWork
  BY <1>5, NotifyCourse, HandleCourse, ClearCourse, ScanWorkCourse DEF HandlerStep, OwnInv
<1>6. CASE Crash \/ TimeoutWork
  BY <1>6 DEF Crash, TimeoutWork, OwnInv
<1>7. CASE TimerFires \/ UNCHANGED vars
  <2>1. UNCHANGED <<scan_req, scanning, scan_work, scan_uid_status, fw, fw_error, restart, fwscan,
                    notifs, entries, hpc, pc, uid>>
    BY <1>7 DEF TimerFires, vars, mac80211Vars, mvmVars, fwVars, errorVars, handlerVars, callVars
  <2>2. CourseInv'
    BY <2>1 DEF CourseInv, FirmOK, CourseOK, TokensOK, SlotTokens, OwnOK, OwnScan, Cleared, With,
       Without, UidsDiffer
  <2> QED BY <2>2 DEF OwnInv
<1>8. CASE ErrorStep
  BY <1>8 DEF ErrorStep, NicRestart, RestartCancel, RestartUp, CourseInv, FirmOK
<1> QED BY <1>2, <1>3, <1>4, <1>5, <1>6, <1>7, <1>8 DEF Next, Quiet

\* An op mode that has started has no scan in its course.
LEMMA InitOwnInv ==
    ASSUME Init
    PROVE  OwnInv
<1>1. Range(<<>>) = {} /\ Len(<<>>) = 0
  BY RangeEquality, EmptySeq DEF Range
<1> QED BY <1>1 DEF Init, OwnInv, CourseInv, FirmOK, CourseOK, TokensOK, SlotTokens, OwnOK,
       OwnScan, Without, UidsDiffer, With, Stopping

\* "When the scan finishes, ieee80211_scan_completed() must be called": for any
\* number of slots and scans, and however late its notification, the scan that
\* iwl_mvm_rx_umac_scan_complete_notif reports is the one mac80211 waits for, until
\* the firmware fails.
THEOREM ReportsOwnScan == Locked => (Spec => ReportsOwn)
<1>1. ASSUME IInv, OwnInv, [Next]_vars PROVE [HandleReport /\ ~failed => Head(entries).req = scan_req]_vars
  <2>1. SUFFICES ASSUME HandleReport, ~failed PROVE Head(entries).req = scan_req
    OBVIOUS
  <2>2. /\ entries # <<>> /\ hpc = "idle" /\ scan_uid_status[Head(entries).uid] = "regular"
        /\ entries \in Seq(Notifications)
    BY <1>1, <2>1 DEF HandleReport, Handling, IInv, Typed, TypeOK
  <2>3. Head(entries) \in Range(entries) /\ ~Cleared(Head(entries).uid)
    BY <2>2, QueueUids DEF Cleared
  <2> QED BY <1>1, <2>1, <2>2, <2>3 DEF OwnInv, CourseInv, OwnOK, OwnScan
<1>2. CASE Locked
  <2>1. Spec => [](IInv /\ OwnInv)
    BY <1>2, InitIInv, NextIInv, InitOwnInv, NextOwnInv, PTL DEF Spec
  <2> QED BY <1>1, <2>1, PTL DEF Spec, ReportsOwn
<1> QED BY <1>2

=============================================================================

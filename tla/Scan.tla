-------------------------------- MODULE Scan --------------------------------
(***************************************************************************)
(* A hardware scan, from mac80211 (net/mac80211/scan.c) through the op mode *)
(* (mvm/scan.c, mvm/mac80211.c, mvm/ops.c) to the firmware, and back.       *)
(*                                                                          *)
(* The op mode keeps a bit for the scan (scan_status) and a slot with the   *)
(* id the firmware knows it by (scan_uid_status).  The firmware's           *)
(* notification wakes whoever waits for it (fw/notif-wait.c), and then goes *)
(* on a list from which a work handles it.  What the op mode reports to     *)
(* mac80211 is in turn taken up by a work, scan_work.  A crash of the       *)
(* firmware is reported from the interrupt and followed by a restart.       *)
(*                                                                          *)
(* cancel_delayed_work, flush_work and flush_workqueue change no state in   *)
(* this build, so that no action stands for them.                           *)
(***************************************************************************)
EXTENDS Naturals, Sequences

CONSTANTS
    NumUids,        \* mvm->max_scans
    Locked,         \* whether local->mtx and mvm->mutex exclude anybody
    MaxScans,       \* bound: scans asked for
    MaxCrashes      \* bound: crashes of the firmware's own

ASSUME ScanAssumption ==
    /\ NumUids \in Nat \ {0}
    /\ Locked \in BOOLEAN
    /\ MaxScans \in Nat /\ MaxCrashes \in Nat

Uids == 1 .. NumUids
None == 0
Requests == 1 .. MaxScans

VARIABLES
    scan_req,       \* local->scan_req: the scan mac80211 waits for, or None
    scanning,       \* local->scanning: the flags of it
    scan_work,      \* scan_work is queued
    scan_status,    \* mvm->scan_status: "regular", "stopping"
    scan_uid_status,\* mvm->scan_uid_status: the same, for each slot
    timeout_dwork,  \* mvm->scan_timeout_dwork: idle, its timer set, queued
    fw,             \* the firmware is up or has crashed
    fwscan,         \* the scan it runs for each id, or None
    notifs,         \* its notifications
    fw_error,       \* STATUS_FW_ERROR
    restart,        \* where the restart of the firmware is
    entries,        \* mvm->async_handlers_list
    hpc,            \* the handler of a completion: idle, or at its end
    pc, uid,        \* the caller, and the slot it uses
    aborted,        \* wait_entry->aborted
    scans, crashes, \* counts, for the bounds
    failed          \* history: the firmware has failed

mac80211Vars == <<scan_req, scanning, scan_work>>
mvmVars == <<scan_status, scan_uid_status>>
fwVars == <<fw, fwscan, notifs>>
errorVars == <<fw_error, restart>>
handlerVars == <<entries, hpc>>
callVars == <<pc, uid, aborted>>
countVars == <<scans, crashes, failed>>
vars == <<mac80211Vars, mvmVars, timeout_dwork, fwVars, errorVars, handlerVars, callVars,
          countVars>>

Init ==
    /\ scan_req = None /\ scanning = {} /\ scan_work = FALSE
    /\ scan_status = {} /\ scan_uid_status = [u \in Uids |-> "free"]
    /\ timeout_dwork = "idle"
    /\ fw = "up" /\ fwscan = [u \in Uids |-> None] /\ notifs = <<>>
    /\ fw_error = FALSE /\ restart = "no"
    /\ entries = <<>> /\ hpc = "idle"
    /\ pc = "idle" /\ uid = 1 /\ aborted = FALSE
    /\ scans = 0 /\ crashes = 0 /\ failed = FALSE

-----------------------------------------------------------------------------
(* Shared pieces                                                           *)

\* A call of the user's has both mutexes from its beginning to its end; it has the
\* rtnl, too, and so has the restart.
Callable == pc = "idle" /\ (Locked => hpc = "idle" /\ restart # "cancelled")
MtxFree == Locked => pc = "idle"
MutexFree == Locked => pc = "idle" /\ hpc = "idle"

With(status) == {u \in Uids : scan_uid_status[u] = status}

\* iwl_mvm_scan_uid_by_status
UidByStatus(status) == CHOOSE u \in With(status) : \A v \in With(status) : u <= v

\* Slip: the report is not taken up.
ScanCompleted_Unqueued(flags) ==
    /\ scanning' = scanning \cup {"completed"} \cup flags
    /\ UNCHANGED <<scan_work, scan_req>>

\* ieee80211_scan_completed
ScanCompleted(flags) ==
    /\ scanning' = scanning \cup {"completed"} \cup flags
    /\ scan_work' = TRUE
    /\ UNCHANGED scan_req

-----------------------------------------------------------------------------
(* A scan is asked for                                                     *)

\* ieee80211_request_scan, and iwl_mvm_reg_scan_start up to its command, for
\* which it takes a free slot.
Request ==
    /\ Callable
    /\ scan_req = None /\ scans < MaxScans
    /\ With("free") # {}
    /\ scans' = scans + 1
    /\ scan_req' = scans + 1
    /\ scanning' = scanning \cup {"hw"}
    /\ uid' = UidByStatus("free")
    /\ scan_uid_status' = [scan_uid_status EXCEPT ![uid'] = "regular"]
    /\ pc' = "start"
    /\ UNCHANGED <<scan_work, scan_status, timeout_dwork, fwVars, errorVars, handlerVars,
                   aborted, crashes, failed>>

\* No slot is free: -ENOENT.
RequestNoSlot ==
    /\ Callable
    /\ scan_req = None /\ scans < MaxScans
    /\ With("free") = {}
    /\ scans' = scans + 1
    /\ scanning' = {}
    /\ UNCHANGED <<scan_req, scan_work, mvmVars, timeout_dwork, fwVars, errorVars, handlerVars,
                   callVars, crashes, failed>>

\* The firmware begins (external).
FwStart ==
    /\ pc = "start" /\ fw = "up" /\ ~fw_error
    /\ fwscan' = [fwscan EXCEPT ![uid] = scan_req]
    /\ pc' = "started"
    /\ UNCHANGED <<mac80211Vars, mvmVars, timeout_dwork, fw, notifs, errorVars, handlerVars,
                   uid, aborted, countVars>>

\* The command succeeds.  schedule_delayed_work does nothing if it is pending.
Started ==
    /\ pc = "started"
    /\ scan_status' = scan_status \cup {"regular"}
    /\ timeout_dwork' = IF timeout_dwork = "idle" THEN "armed" ELSE timeout_dwork
    /\ pc' = "idle"
    /\ UNCHANGED <<mac80211Vars, scan_uid_status, fwVars, errorVars, handlerVars, uid, aborted,
                   countVars>>

\* The command fails, for the firmware is in error: the slot keeps its state,
\* and mac80211 drops the scan.
StartFails ==
    /\ pc \in {"start", "started"} /\ fw_error
    /\ scan_req' = None /\ scanning' = {}
    /\ pc' = "idle"
    /\ UNCHANGED <<scan_work, mvmVars, timeout_dwork, fwVars, errorVars, handlerVars, uid,
                   aborted, countVars>>

-----------------------------------------------------------------------------
(* A scan is cancelled                                                     *)

\* ieee80211_scan_cancel: the driver has reported it already, or has not got it.
CancelReported ==
    /\ Callable
    /\ scan_req # None
    /\ "completed" \in scanning \/ "regular" \notin scan_status
    /\ "cancelled" \notin scanning
    /\ scanning' = scanning \cup {"cancelled"}
    /\ UNCHANGED <<scan_req, scan_work, mvmVars, timeout_dwork, fwVars, errorVars, handlerVars,
                   callVars, countVars>>

\* The end of iwl_mvm_scan_stop: mac80211 is told however the wait ended.
StopEnd(ok) ==
    /\ scan_status' = (scan_status \ {"regular"}) \cup (IF ok THEN {"stopping"} ELSE {})
    /\ ScanCompleted({"aborted"})

\* What makes mac80211 and iwl_mvm_mac_cancel_hw_scan stop the scan.
MustStop ==
    /\ scan_req # None
    /\ "hw" \in scanning /\ "completed" \notin scanning
    /\ "regular" \in scan_status

\* iwl_mvm_scan_stop_wait, up to the command.  That there is a slot to abort is
\* AlwaysValidIndex.
Cancel ==
    /\ Callable
    /\ MustStop
    /\ scanning' = scanning \cup {"cancelled"}
    /\ uid' = UidByStatus("regular")
    /\ aborted' = FALSE
    /\ pc' = "abort"
    /\ UNCHANGED <<scan_req, scan_work, mvmVars, timeout_dwork, fwVars, errorVars, handlerVars,
                   countVars>>

\* The firmware aborts the scan of that id, if it runs one (external).
FwAbort ==
    /\ pc = "abort" /\ fw = "up" /\ ~fw_error
    /\ fwscan' = [fwscan EXCEPT ![uid] = None]
    /\ notifs' = IF fwscan[uid] = None THEN notifs
                 ELSE Append(notifs, [uid |-> uid, aborted |-> TRUE, req |-> fwscan[uid]])
    /\ pc' = "aborted"
    /\ UNCHANGED <<mac80211Vars, mvmVars, timeout_dwork, fw, errorVars, handlerVars, uid,
                   aborted, countVars>>

\* Slip: the slot stays as it is.
Aborted_Unmarked ==
    /\ pc = "aborted"
    /\ pc' = "wait"
    /\ UNCHANGED <<mac80211Vars, mvmVars, timeout_dwork, fwVars, errorVars, handlerVars, uid,
                   aborted, countVars>>

\* The command succeeds.
Aborted ==
    /\ pc = "aborted"
    /\ scan_uid_status' = [scan_uid_status EXCEPT ![uid] = "stopping"]
    /\ pc' = "wait"
    /\ UNCHANGED <<mac80211Vars, scan_status, timeout_dwork, fwVars, errorVars, handlerVars, uid,
                   aborted, countVars>>

WaitStep == UNCHANGED <<mac80211Vars, mvmVars, timeout_dwork, fwVars, errorVars, handlerVars,
                        uid, aborted, countVars>>

\* iwl_wait_notification sleeps, whether or not the notification has come.
Sleep == pc = "wait" /\ pc' = "asleep" /\ WaitStep

\* The deadline.
TimeUp == pc = "asleep" /\ pc' = "late" /\ WaitStep

Stopped ==
    /\ \/ pc \in {"woken", "late"}
       \/ pc \in {"abort", "aborted"} /\ fw_error
    /\ StopEnd(pc = "woken" /\ ~aborted)
    /\ pc' = "idle"
    /\ UNCHANGED <<scan_uid_status, timeout_dwork, fwVars, errorVars, handlerVars, uid, aborted,
                   countVars>>

-----------------------------------------------------------------------------
(* The firmware (external), the interrupt and the works                    *)

FwCompletes(u) ==
    /\ fw = "up" /\ fwscan[u] # None
    /\ fwscan' = [fwscan EXCEPT ![u] = None]
    /\ notifs' = Append(notifs, [uid |-> u, aborted |-> FALSE, req |-> fwscan[u]])
    /\ UNCHANGED <<mac80211Vars, mvmVars, timeout_dwork, fw, errorVars, handlerVars, callVars,
                   countVars>>

Crash ==
    /\ fw = "up" /\ crashes < MaxCrashes
    /\ fw' = "crashed"
    /\ crashes' = crashes + 1
    /\ failed' = TRUE
    /\ UNCHANGED <<mac80211Vars, mvmVars, timeout_dwork, fwscan, notifs, errorVars, handlerVars,
                   callVars, scans>>

Woken == pc' = IF pc = "asleep" THEN "woken" ELSE pc

\* iwl_mvm_rx_common: the waiter first, then the list.
Notify ==
    /\ notifs # <<>>
    /\ Woken
    /\ entries' = Append(entries, Head(notifs))
    /\ notifs' = Tail(notifs)
    /\ UNCHANGED <<mac80211Vars, mvmVars, timeout_dwork, fw, fwscan, errorVars, hpc, uid,
                   aborted, countVars>>

\* The slot's state is that of the scan: else the handler warns, and returns.
Expected(u) == scan_uid_status[u] \in scan_status

\* The next entry of iwl_mvm_async_handlers_wk.
Handling == hpc = "idle" /\ MutexFree /\ entries # <<>>

HandleStale ==
    /\ Handling /\ ~Expected(Head(entries).uid)
    /\ entries' = Tail(entries)
    /\ UNCHANGED <<mac80211Vars, mvmVars, timeout_dwork, fwVars, errorVars, hpc, callVars,
                   countVars>>

\* iwl_mvm_rx_umac_scan_complete_notif: mac80211 is told of the end of a scan
\* that is not being stopped, ...
HandleReport ==
    /\ Handling /\ Expected(Head(entries).uid)
    /\ scan_uid_status[Head(entries).uid] = "regular"
    /\ ScanCompleted(IF Head(entries).aborted THEN {"aborted"} ELSE {})
    /\ hpc' = "clear"
    /\ UNCHANGED <<mvmVars, timeout_dwork, fwVars, errorVars, entries, callVars, countVars>>

HandleStopping ==
    /\ Handling /\ Expected(Head(entries).uid)
    /\ scan_uid_status[Head(entries).uid] = "stopping"
    /\ hpc' = "clear"
    /\ UNCHANGED <<mac80211Vars, mvmVars, timeout_dwork, fwVars, errorVars, entries, callVars,
                   countVars>>

\* Slip: the mutex is kept.
HandleClear_Keeps ==
    /\ hpc = "clear" /\ entries # <<>>
    /\ LET u == Head(entries).uid IN
          /\ scan_status' = scan_status \ {scan_uid_status[u]}
          /\ scan_uid_status' = [scan_uid_status EXCEPT ![u] = "free"]
    /\ entries' = Tail(entries)
    /\ UNCHANGED <<mac80211Vars, timeout_dwork, fwVars, errorVars, hpc, callVars, countVars>>

\* ... and both states are cleared.
HandleClear ==
    /\ hpc = "clear"
    /\ LET u == Head(entries).uid IN
          /\ scan_status' = scan_status \ {scan_uid_status[u]}
          /\ scan_uid_status' = [scan_uid_status EXCEPT ![u] = "free"]
    /\ entries' = Tail(entries)
    /\ hpc' = "idle"
    /\ UNCHANGED <<mac80211Vars, timeout_dwork, fwVars, errorVars, callVars, countVars>>

\* local->in_reconfig
InReconfig == restart # "no"

\* ieee80211_scan_work and __ieee80211_scan_completed.  A scan ends if there is a
\* report, or if the hardware is being restarted; without a scan the report is
\* dropped.  A scan in hardware without a report is taken for a software scan:
\* the work goes on to its next channel, or comes to its end.
ScanWork ==
    /\ scan_work /\ MtxFree
    /\ \/ /\ scan_req # None
          /\ scan_req' = None /\ scanning' = {}
          /\ scan_work' = FALSE
       \/ /\ scan_req = None
          /\ scanning' = IF InReconfig THEN scanning ELSE scanning \ {"completed", "aborted"}
          /\ scan_work' = FALSE
          /\ UNCHANGED scan_req
       \/ /\ scan_req # None /\ ~InReconfig /\ "completed" \notin scanning
          /\ UNCHANGED mac80211Vars
    /\ UNCHANGED <<mvmVars, timeout_dwork, fwVars, errorVars, handlerVars, callVars, countVars>>

-----------------------------------------------------------------------------
(* The timeout of a scan                                                   *)

TimerFires ==
    /\ timeout_dwork = "armed"
    /\ timeout_dwork' = "queued"
    /\ UNCHANGED <<mac80211Vars, mvmVars, fwVars, errorVars, handlerVars, callVars, countVars>>

\* iwl_mvm_scan_timeout_wk: iwl_force_nmi.
TimeoutWork ==
    /\ timeout_dwork = "queued"
    /\ timeout_dwork' = "idle"
    /\ fw' = "crashed"
    /\ failed' = TRUE
    /\ UNCHANGED <<mac80211Vars, mvmVars, fwscan, notifs, errorVars, handlerVars, callVars,
                   scans, crashes>>

-----------------------------------------------------------------------------
(* Error and restart                                                       *)

\* Slip: the slots are cleared without a report.
ReportScanAborted_Silent ==
    scan_uid_status' = [u \in Uids |-> "free"] /\ UNCHANGED mac80211Vars

\* iwl_mvm_report_scan_aborted
ReportScanAborted ==
    /\ IF With("regular") = {} THEN UNCHANGED mac80211Vars ELSE ScanCompleted({"aborted"})
    /\ scan_uid_status' = [u \in Uids |-> "free"]

\* iwl_mvm_nic_restart, from the interrupt: waits are given up, scans reported,
\* and mac80211 is asked to restart the hardware.
NicRestart ==
    /\ fw = "crashed" /\ ~fw_error
    /\ fw_error' = TRUE
    /\ aborted' = TRUE /\ Woken
    /\ ReportScanAborted
    /\ restart' = "requested"
    /\ UNCHANGED <<scan_status, timeout_dwork, fwVars, handlerVars, uid, countVars>>

\* ieee80211_restart_work cancels the scan; the command that would abort it
\* fails.
RestartCancel ==
    /\ restart = "requested" /\ MutexFree
    /\ restart' = "cancelled"
    /\ IF MustStop THEN StopEnd(FALSE) ELSE UNCHANGED <<mac80211Vars, scan_status>>
    /\ UNCHANGED <<scan_uid_status, timeout_dwork, fwVars, fw_error, handlerVars, callVars,
                   countVars>>

\* ieee80211_reconfig: iwl_mvm_restart_cleanup, and the firmware starts again.
RestartUp ==
    /\ restart = "cancelled" /\ MutexFree
    /\ restart' = "no" /\ fw_error' = FALSE
    /\ scan_status' = {}
    /\ fw' = "up" /\ fwscan' = [u \in Uids |-> None] /\ notifs' = <<>>
    /\ UNCHANGED <<mac80211Vars, scan_uid_status, timeout_dwork, handlerVars, callVars,
                   countVars>>

\* Nothing goes on, and no further scan may be asked for.
Quiet == pc = "idle" /\ scan_req = None /\ UNCHANGED vars

-----------------------------------------------------------------------------
\* The commands and waits of a call.
CallStep == FwStart \/ Started \/ StartFails \/ FwAbort \/ Aborted \/ Sleep \/ TimeUp \/ Stopped

HandlerStep == HandleStale \/ HandleReport \/ HandleStopping \/ HandleClear

ErrorStep == NicRestart \/ RestartCancel \/ RestartUp

Next ==
    \/ Request \/ RequestNoSlot \/ CancelReported \/ Cancel \/ CallStep
    \/ \E u \in Uids : FwCompletes(u)
    \/ Crash \/ Notify \/ HandlerStep \/ ScanWork
    \/ TimerFires \/ TimeoutWork \/ ErrorStep \/ Quiet

\* A command is answered or its deadline finds the firmware in error; a wait ends
\* at its deadline at last; interrupts are handled and timers fire.  A work that is
\* queued runs: its workqueue is drained as long as it is used, see Workqueue.
\* Only the firmware's end of a scan is not counted on.
Fairness ==
    /\ WF_vars(CallStep)
    /\ WF_vars(Notify) /\ SF_vars(HandlerStep) /\ SF_vars(ScanWork)
    /\ WF_vars(TimerFires) /\ WF_vars(TimeoutWork)
    /\ WF_vars(NicRestart) /\ SF_vars(RestartCancel \/ RestartUp)

Spec == Init /\ [][Next]_vars
FairSpec == Spec /\ Fairness

-----------------------------------------------------------------------------
Notifications == [uid : Uids, aborted : BOOLEAN, req : Requests]

\* Every variable has its type, and a completion is handled to its end.
TypeOK ==
    /\ scan_req \in Requests \cup {None}
    /\ scanning \subseteq {"hw", "completed", "aborted", "cancelled"}
    /\ {scan_work, fw_error, aborted, failed} \subseteq BOOLEAN
    /\ scan_status \subseteq {"regular", "stopping"}
    /\ scan_uid_status \in [Uids -> {"free", "regular", "stopping"}]
    /\ timeout_dwork \in {"idle", "armed", "queued"}
    /\ fw \in {"up", "crashed"}
    /\ fwscan \in [Uids -> Requests \cup {None}]
    /\ notifs \in Seq(Notifications) /\ entries \in Seq(Notifications)
    /\ restart \in {"no", "requested", "cancelled"}
    /\ hpc \in {"idle", "clear"}
    /\ pc \in {"idle", "start", "started", "abort", "aborted", "wait", "asleep", "woken", "late"}
    /\ uid \in Uids
    /\ hpc = "clear" => entries # <<>>

\* "We should always get a valid index here, because we already checked that this
\* type of scan was running": a scan that may be stopped has its slot.
AlwaysValidIndex == MustStop /\ pc = "idle" => With("regular") # {}

\* "When the scan finishes, ieee80211_scan_completed() must be called": as long
\* as the firmware has not failed, the op mode reports the end of the scan that
\* mac80211 waits for, and not, from a notification that comes late, of another.
ReportsOwn ==
    [][HandleReport /\ ~failed => Head(entries).req = scan_req]_vars

\* A scan that is asked for ends, whether or not the firmware ever ends it.
ScanEnds == \A r \in Requests : scan_req = r ~> scan_req # r

\* "regular scan timed out": the timeout of a scan finds one running.
TimeoutFindsScan == [][TimeoutWork => "regular" \in scan_status]_vars

=============================================================================

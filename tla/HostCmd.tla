------------------------------ MODULE HostCmd ------------------------------
(***************************************************************************)
(* Host commands of the PCIe transport (iwlwifi/pcie/tx.c): a thread puts a *)
(* command on the command queue and, if it is synchronous, sleeps until the *)
(* response comes, the firmware or the radio is lost, or time is up.        *)
(*                                                                          *)
(* The wait is the shim's (include/linux/wait.c, AirPortLinux.cpp): it does *)
(* not look at its condition, it sleeps on the command gate of the driver's *)
(* workloop.  Interrupt handlers run with the gate closed.  A thread that   *)
(* calls from under the gate (a power change) has it closed from the call   *)
(* to its sleep and from its wakeup on; any other only passes through it.   *)
(*                                                                          *)
(* A section under txq->lock is not entered by two threads here, which      *)
(* spares the interleavings of the shim's empty spin_lock; every access to  *)
(* the status bits and to the queue outside that lock is a step of its own. *)
(***************************************************************************)
EXTENDS Naturals, Sequences, FiniteSets

CONSTANTS
    Threads,        \* the threads that send commands
    Gated,          \* those that call with the command gate closed
    Serialized,     \* whether something keeps two synchronous calls apart
    Window,         \* n_window of the command queue
    Wrap,           \* max_tfd_queue_size
    MaxCalls,       \* bound: synchronous calls of a thread
    MaxAsync,       \* bound: asynchronous commands
    MaxFaults       \* bound: crashes and switches of the radio

ASSUME HostCmdAssumption ==
    /\ Gated \subseteq Threads
    /\ Serialized \in BOOLEAN
    /\ Window \in Nat \ {0} /\ Wrap \in Nat /\ Wrap % Window = 0 /\ Window < Wrap
    /\ MaxCalls \in Nat /\ MaxAsync \in Nat /\ MaxFaults \in Nat

Slots == 0 .. Window - 1
Pointers == 0 .. Wrap - 1

\* A synchronous call, named by its thread and its number; nobody's otherwise.
NoCall == <<>>
Calls == Threads \X (1 .. MaxCalls)

\* What the caller asks: CMD_WANT_SKB, CMD_SEND_IN_RFKILL.
Kinds == [skb : BOOLEAN, rfk : BOOLEAN]

VARIABLES
    active, fw_error, rfkill,   \* STATUS_SYNC_HCMD_ACTIVE, _FW_ERROR, _RFKILL_OPMODE
    read_ptr, write_ptr, meta,  \* the queue; meta: flags and owner of each entry
    device,                     \* the firmware runs, has crashed or is stopped
    todo,                       \* slots the firmware has not answered yet, in order
    rx,                         \* its answers, not yet handled: the slots
    hpc, steal,                 \* iwl_pcie_hcmd_complete; steal: WANT_SKB as it read it
    pc, kind, idx, saw, resp,   \* the callers; resp: cmd->resp_pkt, whose answer
    restart,                    \* the op mode has been told to restart the firmware
    calls, asyncs, faults,      \* counts, for the bounds
    answered                    \* history: the callers whose response has been handled

statusVars == <<active, fw_error, rfkill>>
queueVars == <<read_ptr, write_ptr, meta>>
deviceVars == <<device, todo, rx>>
handlerVars == <<hpc, steal>>
callVars == <<pc, kind, idx, saw, resp>>
countVars == <<calls, asyncs, faults>>
vars == <<statusVars, queueVars, deviceVars, handlerVars, callVars, restart,
          countVars, answered>>

NoMeta == [call |-> NoCall, skb |-> FALSE, async |-> FALSE]

Init ==
    /\ active = FALSE /\ fw_error = FALSE /\ rfkill = FALSE
    /\ read_ptr = 0 /\ write_ptr = 0 /\ meta = [i \in Slots |-> NoMeta]
    /\ device = "runs" /\ todo = <<>> /\ rx = <<>>
    /\ hpc = "idle" /\ steal = FALSE
    /\ pc = [t \in Threads |-> "idle"]
    /\ kind = [t \in Threads |-> [skb |-> FALSE, rfk |-> FALSE]]
    /\ idx = [t \in Threads |-> 0]
    /\ saw = [t \in Threads |-> FALSE]
    /\ resp = [t \in Threads |-> NoCall]
    /\ restart = FALSE
    /\ calls = [t \in Threads |-> 0] /\ asyncs = 0 /\ faults = 0
    /\ answered = {}

-----------------------------------------------------------------------------
(* The command gate, and the sleep on &trans->status                       *)

\* Where a caller is with the gate open, if it calls with it closed.
Outside == {"idle", "asleep", "woken", "late"}

GateOpen == hpc = "idle" /\ \A t \in Gated : pc[t] \in Outside

Asleep == {t \in Threads : pc[t] = "asleep"}

\* Slip: wake_up finds nobody.
WakeOne_None == UNCHANGED pc

\* commandWakeup(&trans->status, one)
WakeOne ==
    IF Asleep = {} THEN UNCHANGED pc
    ELSE \E t \in Asleep : pc' = [pc EXCEPT ![t] = "woken"]

-----------------------------------------------------------------------------
(* The queue                                                               *)

Slot(p) == p % Window
Used == (write_ptr + Wrap - read_ptr) % Wrap

\* iwl_queue_space: the window is smaller than the ring, all of it is used.
Space == IF Used > Window THEN 0 ELSE Window - Used

\* iwl_queue_used: between the pointers, taken in the window.
InUse(i) ==
    LET r == Slot(read_ptr)
        w == Slot(write_ptr)
    IN  IF w >= r THEN i >= r /\ i < w ELSE ~(i < r /\ i >= w)

\* How far iwl_pcie_cmdq_reclaim goes from the read pointer for a response to
\* slot i: through that slot, counted in the ring from where both lie in the
\* window.
Reclaimed(i) == ((i + 1 + Wrap - Slot(read_ptr)) % Wrap)

\* Slip: the pointer does not wrap.
Put_NoWrap(m) ==
    /\ meta' = [meta EXCEPT ![Slot(write_ptr)] = m]
    /\ write_ptr' = write_ptr + 1
    /\ todo' = IF device = "stopped" THEN todo ELSE Append(todo, Slot(write_ptr))
    /\ UNCHANGED <<read_ptr, device, rx>>

\* The entry is filled and the firmware told of it.
Put(m) ==
    /\ meta' = [meta EXCEPT ![Slot(write_ptr)] = m]
    /\ write_ptr' = (write_ptr + 1) % Wrap
    /\ todo' = IF device = "stopped" THEN todo ELSE Append(todo, Slot(write_ptr))
    /\ UNCHANGED <<read_ptr, device, rx>>

-----------------------------------------------------------------------------
(* A synchronous call                                                      *)

This(t) == <<t, calls[t]>>
Unlocked == hpc = "idle"
InCall(t) == pc[t] # "idle"
NoKind == [skb |-> FALSE, rfk |-> FALSE]

At(t, place) == pc' = [pc EXCEPT ![t] = place]

\* The call returns.
Finish(t) ==
    /\ At(t, "idle")
    /\ kind' = [kind EXCEPT ![t] = NoKind]
    /\ idx' = [idx EXCEPT ![t] = 0]

\* iwl_trans_send_cmd and iwl_trans_pcie_send_hcmd, past the checks of the
\* status; a call they refuse changes nothing.
Send(t, k) ==
    /\ pc[t] = "idle" /\ calls[t] < MaxCalls
    /\ t \in Gated => GateOpen
    /\ Serialized => \A u \in Threads : ~InCall(u)
    /\ rfkill => k.rfk
    /\ ~fw_error
    /\ calls' = [calls EXCEPT ![t] = @ + 1]
    /\ kind' = [kind EXCEPT ![t] = k]
    /\ resp' = [resp EXCEPT ![t] = NoCall]
    /\ answered' = answered \ {t}
    /\ At(t, "test")
    /\ UNCHANGED <<statusVars, queueVars, deviceVars, handlerVars, idx, saw, restart,
                   asyncs, faults>>

\* test_and_set_bit: the read, and the write of the bit.
TestActive(t) ==
    /\ pc[t] = "test"
    /\ saw' = [saw EXCEPT ![t] = active]
    /\ At(t, "set")
    /\ UNCHANGED <<statusVars, queueVars, deviceVars, handlerVars, kind, idx, resp,
                   restart, countVars, answered>>

\* A command is already active: -EIO.
SetActive(t) ==
    /\ pc[t] = "set"
    /\ active' = TRUE
    /\ saw' = [saw EXCEPT ![t] = FALSE]
    /\ IF saw[t] THEN Finish(t) ELSE At(t, "enqueue") /\ UNCHANGED <<kind, idx>>
    /\ UNCHANGED <<fw_error, rfkill, queueVars, deviceVars, handlerVars, resp,
                   restart, countVars, answered>>

\* iwl_pcie_enqueue_hcmd
Enqueue(t) ==
    /\ pc[t] = "enqueue" /\ Unlocked /\ Space >= 1
    /\ Put([call |-> This(t), skb |-> kind[t].skb, async |-> FALSE])
    /\ idx' = [idx EXCEPT ![t] = Slot(write_ptr)]
    /\ At(t, "sleep")
    /\ UNCHANGED <<statusVars, handlerVars, kind, saw, resp, restart, countVars, answered>>

\* Slip: the bit stays set.
NoSpace_KeepsActive(t) ==
    /\ pc[t] = "enqueue" /\ Unlocked /\ Space < 1
    /\ restart' = TRUE
    /\ Finish(t)
    /\ UNCHANGED <<statusVars, queueVars, deviceVars, handlerVars, saw, resp, countVars,
                   answered>>

\* The queue is full: iwl_op_mode_cmd_queue_full restarts the firmware, and
\* the caller clears the bit.
NoSpace(t) ==
    /\ pc[t] = "enqueue" /\ Unlocked /\ Space < 1
    /\ restart' = TRUE
    /\ active' = FALSE
    /\ Finish(t)
    /\ UNCHANGED <<fw_error, rfkill, queueVars, deviceVars, handlerVars, saw, resp, countVars,
                   answered>>

WaitStep == UNCHANGED <<statusVars, queueVars, deviceVars, handlerVars, kind, idx, saw, resp,
                        restart, countVars, answered>>

\* wait_event_timeout: runAction waits for the gate, commandSleep opens it.
Sleep(t) ==
    /\ pc[t] = "sleep"
    /\ t \in Gated \/ GateOpen
    /\ At(t, "asleep")
    /\ WaitStep

\* The deadline.
TimeUp(t) == pc[t] = "asleep" /\ At(t, "late") /\ WaitStep

\* commandSleep returns with the gate closed again.
Wakes(t) ==
    /\ pc[t] \in {"woken", "late"} /\ GateOpen
    /\ At(t, IF pc[t] = "woken" THEN "check" ELSE "clear")
    /\ WaitStep

\* Time is up: clear_bit, then iwl_trans_pcie_sync_nmi, which stops the firmware.
ClearActive(t) ==
    /\ pc[t] = "clear"
    /\ active' = FALSE
    /\ At(t, "nmi")
    /\ UNCHANGED <<fw_error, rfkill, queueVars, deviceVars, handlerVars, kind, idx, saw,
                   resp, restart, countVars, answered>>

Nmi(t) ==
    /\ pc[t] = "nmi"
    /\ fw_error' = TRUE
    /\ restart' = TRUE
    /\ device' = IF device = "runs" THEN "crashed" ELSE device
    /\ At(t, "cancel")
    /\ UNCHANGED <<active, rfkill, queueVars, todo, rx, handlerVars, kind, idx, saw, resp,
                   countVars, answered>>

\* Slip: only the response tells.
Failed_NoResponse(t) == kind[t].skb /\ resp[t] = NoCall

\* What makes a call that was woken up fail: the firmware is in error, the radio
\* is off, or there is no response.
Failed(t) ==
    \/ fw_error
    \/ rfkill /\ ~kind[t].rfk
    \/ kind[t].skb /\ resp[t] = NoCall

Succeed(t) ==
    /\ pc[t] = "check" /\ ~Failed(t)
    /\ Finish(t)
    /\ UNCHANGED <<statusVars, queueVars, deviceVars, handlerVars, saw, resp, restart,
                   countVars, answered>>

Fail(t) == pc[t] = "check" /\ Failed(t) /\ At(t, "cancel") /\ WaitStep

\* Slip: the flag stays in the entry.
Cancel_KeepsFlag(t) ==
    /\ pc[t] = "cancel"
    /\ resp' = [resp EXCEPT ![t] = NoCall]
    /\ Finish(t)
    /\ UNCHANGED <<statusVars, queueVars, deviceVars, handlerVars, saw, restart, countVars,
                   answered>>

\* cancel: a response that comes later must not be written to the caller.
Cancel(t) ==
    /\ pc[t] = "cancel"
    /\ meta' = IF kind[t].skb THEN [meta EXCEPT ![idx[t]].skb = FALSE] ELSE meta
    /\ resp' = [resp EXCEPT ![t] = NoCall]
    /\ Finish(t)
    /\ UNCHANGED <<statusVars, read_ptr, write_ptr, deviceVars, handlerVars, saw, restart,
                   countVars, answered>>

-----------------------------------------------------------------------------
(* An asynchronous command: it leaves one entry to the synchronous ones.   *)

AsyncMay(t) ==
    /\ pc[t] = "idle" /\ asyncs < MaxAsync /\ Unlocked
    /\ t \in Gated => GateOpen
    /\ ~rfkill /\ ~fw_error
    /\ asyncs' = asyncs + 1
    /\ UNCHANGED <<statusVars, handlerVars, callVars, calls, faults, answered>>

SendAsync(t) ==
    /\ AsyncMay(t) /\ Space >= 2
    /\ Put([call |-> NoCall, skb |-> FALSE, async |-> TRUE])
    /\ UNCHANGED restart

AsyncNoSpace(t) ==
    /\ AsyncMay(t) /\ Space < 2
    /\ restart' = TRUE
    /\ UNCHANGED <<queueVars, deviceVars>>

-----------------------------------------------------------------------------
(* The device (external) and its interrupts                                *)

Answer ==
    /\ device = "runs" /\ todo # <<>>
    /\ rx' = Append(rx, Head(todo))
    /\ todo' = Tail(todo)
    /\ UNCHANGED <<statusVars, queueVars, device, handlerVars, callVars, restart, countVars, answered>>

Crash ==
    /\ device = "runs" /\ faults < MaxFaults
    /\ device' = "crashed"
    /\ faults' = faults + 1
    /\ UNCHANGED <<statusVars, queueVars, todo, rx, handlerVars, callVars, restart, calls, asyncs,
                   answered>>

\* iwl_pcie_hcmd_complete, under txq->lock: it reads WANT_SKB ...
CompleteLook ==
    /\ GateOpen /\ rx # <<>>
    /\ steal' = meta[Head(rx)].skb
    /\ hpc' = "store"
    /\ UNCHANGED <<statusVars, queueVars, deviceVars, callVars, restart, countVars, answered>>

\* ... hands the response to the caller and reclaims the entries ...
CompleteStore ==
    /\ hpc = "store"
    /\ LET i == Head(rx)
           owner == meta[i].call
       IN  /\ resp' = IF steal /\ owner # NoCall /\ This(owner[1]) = owner
                         THEN [resp EXCEPT ![owner[1]] = owner] ELSE resp
           /\ read_ptr' = IF InUse(i) THEN (read_ptr + Reclaimed(i)) % Wrap ELSE read_ptr
           /\ answered' = IF owner # NoCall /\ This(owner[1]) = owner
                           THEN answered \cup {owner[1]} ELSE answered
    /\ hpc' = "wake"
    /\ steal' = FALSE
    /\ UNCHANGED <<statusVars, write_ptr, meta, deviceVars, pc, kind, idx, saw, restart,
                   countVars>>

\* ... and wakes it up, unless the command is asynchronous.
CompleteWake ==
    /\ hpc = "wake"
    /\ LET i == Head(rx) IN
          /\ IF meta[i].async
                THEN UNCHANGED <<active, pc>>
                ELSE active' = FALSE /\ WakeOne
          /\ meta' = [meta EXCEPT ![i] = NoMeta]
    /\ rx' = Tail(rx)
    /\ hpc' = "idle"
    /\ UNCHANGED <<fw_error, rfkill, read_ptr, write_ptr, device, todo, steal, kind, idx, saw,
                   resp, restart, countVars, answered>>

\* iwl_pcie_irq_handle_error
HandleError ==
    /\ GateOpen /\ device = "crashed" /\ ~fw_error
    /\ fw_error' = TRUE
    /\ restart' = TRUE
    /\ active' = FALSE
    /\ WakeOne
    /\ UNCHANGED <<rfkill, queueVars, deviceVars, handlerVars, kind, idx, saw, resp,
                   countVars, answered>>

\* iwl_pcie_txq_unmap of the command queue, the responses dropped.
Emptied == read_ptr' = write_ptr /\ todo' = <<>> /\ rx' = <<>>

\* iwl_pcie_handle_rfkill_irq, radio off; the op mode may ask for the device
\* to be stopped.
RadioOff(stop) ==
    /\ GateOpen /\ ~rfkill /\ faults < MaxFaults
    /\ rfkill' = TRUE
    /\ active' = FALSE
    /\ WakeOne
    /\ IF stop THEN Emptied /\ device' = "stopped"
               ELSE UNCHANGED <<read_ptr, deviceVars>>
    /\ faults' = faults + 1
    /\ UNCHANGED <<fw_error, write_ptr, meta, handlerVars, kind, idx, saw, resp, restart,
                   calls, asyncs, answered>>

\* The op mode stops the device and starts the firmware again, after an error
\* or with the radio back on.
Restart ==
    /\ restart \/ rfkill
    /\ Unlocked
    /\ Serialized => \A t \in Threads : ~InCall(t)
    /\ active' = FALSE /\ fw_error' = FALSE /\ rfkill' = FALSE
    /\ read_ptr' = 0 /\ write_ptr' = 0
    /\ device' = "runs" /\ todo' = <<>> /\ rx' = <<>>
    /\ restart' = FALSE
    /\ UNCHANGED <<meta, handlerVars, callVars, countVars, answered>>

\* Nobody need call again.
Quiet ==
    /\ Unlocked /\ \A t \in Threads : ~InCall(t)
    /\ UNCHANGED vars

-----------------------------------------------------------------------------
Moves(t) ==
    \/ TestActive(t) \/ SetActive(t) \/ Enqueue(t) \/ NoSpace(t) \/ Sleep(t)
    \/ Wakes(t) \/ ClearActive(t) \/ Nmi(t) \/ Succeed(t) \/ Fail(t) \/ Cancel(t)

HandlerStep == CompleteLook \/ CompleteStore \/ CompleteWake \/ HandleError

Next ==
    \/ \E t \in Threads : \/ \E k \in Kinds : Send(t, k)
                          \/ Moves(t) \/ TimeUp(t) \/ SendAsync(t) \/ AsyncNoSpace(t)
    \/ Answer \/ Crash \/ \E stop \in BOOLEAN : RadioOff(stop)
    \/ HandlerStep \/ Restart \/ Quiet

\* A caller that is awake goes on, and gets the gate in the end; interrupts are
\* handled.  The firmware need not answer, and the deadline need not come: the
\* shim makes three weeks of two seconds.
Fairness ==
    /\ \A t \in Threads : SF_vars(Moves(t))
    /\ WF_vars(HandlerStep)

Spec == Init /\ [][Next]_vars
FairSpec == Spec /\ Fairness

-----------------------------------------------------------------------------
(* What a synchronous call promises.                                       *)

\* Every variable has its type, and there is a response while one is handled.
TypeOK ==
    /\ {active, fw_error, rfkill, steal, restart} \subseteq BOOLEAN
    /\ read_ptr \in Pointers /\ write_ptr \in Pointers
    /\ meta \in [Slots -> [call : Calls \cup {NoCall}, skb : BOOLEAN, async : BOOLEAN]]
    /\ device \in {"runs", "crashed", "stopped"}
    /\ todo \in Seq(Slots) /\ rx \in Seq(Slots)
    /\ hpc \in {"idle", "store", "wake"}
    /\ pc \in [Threads -> {"idle", "test", "set", "enqueue", "sleep", "asleep", "woken",
                           "late", "check", "clear", "nmi", "cancel"}]
    /\ kind \in [Threads -> Kinds]
    /\ idx \in [Threads -> Slots]
    /\ saw \in [Threads -> BOOLEAN]
    /\ resp \in [Threads -> Calls \cup {NoCall}]
    /\ answered \subseteq Threads
    /\ hpc # "idle" => rx # <<>>

\* iwl_pcie_send_hcmd_sync returns 0 only for a command whose response has come,
\* whatever woke it up, but for one that may be sent with the radio off and was
\* woken by that: the wait itself tells nothing of the response.
AnsweredOnSuccess ==
    [][\A t \in Threads : Succeed(t) =>
           t \in answered \/ (rfkill /\ kind[t].rfk /\ ~kind[t].skb)]_vars

\* STATUS_SYNC_HCMD_ACTIVE is never left behind by a call, whichever way it
\* ends: the next one does not find "a command is already active".
NeverBusy == \A t \in Threads : ~saw[t]

\* The handler is about to write through the pointer it has to a caller.
Delivers(t) == hpc = "store" /\ steal /\ meta[Head(rx)].call[1] = t

Live(t) == InCall(t) /\ meta[Head(rx)].call = This(t)

\* "in case the cmd comes in later, it will possibly set an invalid address": no
\* response is written to a call that has returned, where it is on a stack that
\* is somebody else's by now.  That is so of the callers under the gate, which no
\* handler interrupts; one outside may take its flag back between the handler's
\* look at it and the handler's store.
GatedResponseToLiveCall == \A t \in Gated : Delivers(t) => Live(t)

\* The entry that asynchronous commands leave free is free when a synchronous
\* one needs it: "there is no need to reserve any queue entries", since those
\* of the commands that were answered are reclaimed.
SyncHasRoom == \A t \in Threads : pc[t] = "enqueue" /\ Unlocked => Space >= 1

\* A caller under the gate whose response has come, or whose firmware is lost,
\* returns without waiting for its deadline.
AnswerReturns ==
    \A t \in Gated :
        pc[t] = "asleep" /\ (t \in answered \/ fw_error) ~> pc[t] = "idle"
=============================================================================

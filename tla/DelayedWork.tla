---------------------------- MODULE DelayedWork ----------------------------
(***************************************************************************)
(* Delayed work (include/linux/workqueue.c) on the shim's timers            *)
(* (include/linux/timer.c): an item whose queueing is put off until a timer *)
(* fires, and whose timer may be modified.  The timers are event sources of *)
(* the driver's workloop, one thread, and delayed_work_timer_fn runs there. *)
(*                                                                          *)
(* cancel_work_sync, cancel_delayed_work and its _sync form, flush_work and *)
(* flush_delayed_work change no state in this build (their bodies are       *)
(* commented out, and del_timer_sync never returns true), so that no action *)
(* stands for them.                                                         *)
(***************************************************************************)
EXTENDS Workqueue

CONSTANTS
    Delayed,    \* the items embedded in a struct delayed_work
    Workloop,   \* the thread the timers fire on
    ModFrom     \* where an item may be when mod_delayed_work is called on it

Places == {"idle", "timer", "list"}

ASSUME DelayedAssumption ==
    /\ Delayed \subseteq Works
    /\ Workloop \in Threads
    /\ ModFrom \subseteq Places

VARIABLES
    armed,      \* the items whose timer is set
    mod,        \* whether a submitter's call is mod_delayed_work_on
    delay       \* the delay it was given: none, or some

dvars == <<armed, mod, delay>>
allVars == <<vars, dvars>>

\* Where an item is, for its user: queued on the list, on its timer, or idle.
Place(w) ==
    IF Linked(w) THEN "list" ELSE IF w \in pending THEN "timer" ELSE "idle"

DInit ==
    /\ Init
    /\ armed = {}
    /\ mod = [t \in Submitters |-> FALSE]
    /\ delay = [t \in Submitters |-> 0]

-----------------------------------------------------------------------------
(* The calls                                                               *)

\* queue_delayed_work_on, up to the first half of test_and_set_bit.
QueueDelayed(t, w, d) ==
    /\ w \in Delayed
    /\ TestBit(t, w)
    /\ mod' = [mod EXCEPT ![t] = FALSE]
    /\ delay' = [delay EXCEPT ![t] = d]
    /\ UNCHANGED armed

\* mod_delayed_work_on.  try_to_grab_pending calls del_timer, which neither
\* cancels a timer from another thread than the workloop's nor returns true,
\* and goes on to test_and_set_bit.
ModDelayed(t, w, d) ==
    /\ w \in Delayed
    /\ t # Workloop
    /\ Place(w) \in ModFrom
    /\ TestBit(t, w)
    /\ mod' = [mod EXCEPT ![t] = TRUE]
    /\ delay' = [delay EXCEPT ![t] = d]
    /\ UNCHANGED armed

\* The second half.  queue_delayed_work_on returns if the bit was set already,
\* mod_delayed_work_on goes on to __queue_delayed_work all the same; that links
\* the item at once for no delay and sets its timer otherwise.
SetDelayedBit(t) ==
    /\ pc[t] = "set"
    /\ arg[t] \in Delayed
    /\ pending' = pending \cup {arg[t]}
    /\ pc' = [pc EXCEPT ![t] = IF was[t] /\ ~mod[t] THEN "idle"
                               ELSE IF delay[t] = 0 THEN "add" ELSE "arm"]
    /\ delay' = [delay EXCEPT ![t] = 0]
    /\ was' = [was EXCEPT ![t] = FALSE]
    /\ mod' = [mod EXCEPT ![t] = FALSE]
    /\ UNCHANGED <<listVars, arg, workerVars, armed>>

\* add_timer: cancelTimeout and setTimeoutMS on the event source.
AddTimer(t) ==
    /\ pc[t] = "arm"
    /\ armed' = armed \cup {arg[t]}
    /\ pc' = [pc EXCEPT ![t] = "idle"]
    /\ UNCHANGED <<listVars, pending, arg, was, workerVars, mod, delay>>

\* timeout_run on the workloop: delayed_work_timer_fn calls __queue_work.
TimerFires(w) ==
    /\ w \in armed
    /\ pc[Workloop] = "idle"
    /\ armed' = armed \ {w}
    /\ pc' = [pc EXCEPT ![Workloop] = "add"]
    /\ arg' = [arg EXCEPT ![Workloop] = w]
    /\ UNCHANGED <<listVars, pending, was, workerVars, mod, delay>>

\* The calls on items that are not delayed, and __queue_work for all of them.
PlainSubmit(t) ==
    /\ \/ \E w \in Works \ Delayed : TestBit(t, w)
       \/ arg[t] \notin Delayed /\ SetBit(t)
       \/ QueueWork(t)
    /\ UNCHANGED dvars

DelayedSubmit(t) ==
    \/ \E w \in Delayed, d \in {0, 1} : QueueDelayed(t, w, d) \/ ModDelayed(t, w, d)
    \/ SetDelayedBit(t)
    \/ AddTimer(t)

DNext ==
    \/ \E t \in Submitters : PlainSubmit(t) \/ DelayedSubmit(t)
    \/ \E w \in Works : TimerFires(w)
    \/ WorkerStep /\ UNCHANGED dvars

\* As in Workqueue, and a timer that is set fires: the workloop thread runs.
DFairness ==
    /\ \A t \in Submitters :
          WF_allVars((SetBit(t) /\ arg[t] \notin Delayed /\ UNCHANGED dvars)
                     \/ SetDelayedBit(t) \/ AddTimer(t)
                     \/ (QueueWork(t) /\ UNCHANGED dvars))
    /\ \A w \in Works : SF_allVars(TimerFires(w))
    /\ WF_allVars(Scan /\ UNCHANGED dvars)
    /\ WF_allVars(Take /\ UNCHANGED dvars)
    /\ WF_allVars(CondWait /\ UNCHANGED dvars)
    /\ SF_allVars(FuncReturn /\ UNCHANGED dvars)

DSpec == DInit /\ [][DNext]_allVars
DFairSpec == DSpec /\ DFairness

-----------------------------------------------------------------------------
\* Every variable has its type; a timer is set for delayed items only.
DTypeOK ==
    /\ next \in [Node -> Node \cup {Poison}]
    /\ prev \in [Node -> Node \cup {Poison}]
    /\ pending \subseteq Works
    /\ pc \in [Submitters -> {"idle", "set", "add", "arm"}]
    /\ arg \in [Submitters -> Works]
    /\ was \in [Submitters -> BOOLEAN]
    /\ wpc \in {"scan", "take", "func", "wait", "asleep"}
    /\ pos \in Node /\ nxt \in Node
    /\ wpc \in {"take", "func"} => pos \in Works
    /\ armed \subseteq Delayed
    /\ mod \in [Submitters -> BOOLEAN]
    /\ delay \in [Submitters -> {0, 1}]

\* What the comments promise: try_to_grab_pending "can handle @work in any stable
\* state - idle, on timer or on worklist" (workqueue.c:241-242), and
\* mod_delayed_work_on will otherwise "modify @dwork's timer so that it expires
\* after @delay" (351): an item that is on the list is not on its timer, too.  As
\* del_timer leaves the timer set and returns false, and the bit is not looked at,
\* an item whose timer was set may be put on the list beside it, and its timer adds
\* it once more.
OneQueueing == \A w \in Delayed : ~(Linked(w) /\ w \in armed)

\* queue_work on a workqueue that is in use drains it: as long as something is
\* queued again and again, every listed item is run, and so is one whose timer is
\* set.  (Without further traffic an item may be left behind: CondWait may follow
\* its QueueWork.)
TimersDrainedByTraffic ==
    []<><<\E t \in Submitters : QueueWork(t)>>_allVars
        => \A w \in Works : (w \in armed \/ Linked(w)) ~> (w \in Running)
=============================================================================

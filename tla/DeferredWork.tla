---------------------------- MODULE DeferredWork ----------------------------
(***************************************************************************)
(* What a workqueue promises to the code that queues on it: queued items    *)
(* are run one at a time, each once per successful queueing, in the order   *)
(* in which they were queued, and an item may be queued again from the      *)
(* moment its function starts.                                              *)
(***************************************************************************)
EXTENDS Sequences, Naturals

CONSTANT Works

VARIABLES
    queue,      \* the items waiting to be run
    running     \* the item being run, as a set of at most one element

vars == <<queue, running>>

Init == queue = <<>> /\ running = {}

\* queue_work_on returns true.
Enqueue(w) ==
    /\ \A i \in DOMAIN queue : queue[i] # w
    /\ queue' = Append(queue, w)
    /\ UNCHANGED running

\* The worker takes the oldest item.
Start ==
    /\ running = {}
    /\ queue # <<>>
    /\ running' = {Head(queue)}
    /\ queue' = Tail(queue)

\* Its function returns.
Finish ==
    /\ running # {}
    /\ running' = {}
    /\ UNCHANGED queue

Next == (\E w \in Works : Enqueue(w)) \/ Start \/ Finish

Spec == Init /\ [][Next]_vars
=============================================================================

----------------------------- MODULE Workqueue -----------------------------
(***************************************************************************)
(* The workqueue of the Linux shim (include/linux/workqueue.c): a doubly   *)
(* linked list of work items, threads that submit items to it and one      *)
(* worker thread, queue_work_run, that takes them off and runs them.       *)
(*                                                                         *)
(* The list is the code's own: next and prev pointers over the items and   *)
(* the list head, so that adding an item twice does here what it does in   *)
(* memory.  Two things are not atomic in the code and are not atomic here: *)
(* test_and_set_bit (a read, then a store that sets the bit whatever was   *)
(* read), and the worker's walk, which reads the list without the mutex.   *)
(* The sections under wq->mutex are single steps: what they touch is read  *)
(* elsewhere only by the worker's walk, which is the worker itself.        *)
(***************************************************************************)
EXTENDS Naturals, FiniteSets

CONSTANTS
    Works,      \* the work items queued on this workqueue
    Threads,    \* the threads that may call queue_work, but for the worker
    Worker,     \* the thread alloc_workqueue starts (wq->thread)
    Submits,    \* the pairs <<thread, item>> in which the thread queues the item
    Head,       \* the list head &wq->list
    Poison      \* LIST_POISON1 and LIST_POISON2, what list_del leaves behind

Submitters == Threads \cup {Worker}
Node == Works \cup {Head}

ASSUME ConstantsAssumption ==
    /\ IsFiniteSet(Works)
    /\ Worker \notin Threads
    /\ Head \notin Works
    /\ Poison \notin Node
    /\ Submits \subseteq Submitters \X Works

VARIABLES
    next,       \* entry.next of every item, and of the head
    prev,       \* entry.prev of every item, and of the head
    pending,    \* the items whose WORK_STRUCT_PENDING_BIT is set
    pc,         \* where each submitter is in queue_work_on
    arg,        \* the item it is queueing
    was,        \* the value of the PENDING bit that test_and_set_bit read
    wpc,        \* where the worker is in queue_work_run
    pos, nxt    \* the cursors of its list_for_each_entry_safe: work and tmp

listVars == <<next, prev>>
submitVars == <<pc, arg, was>>
workerVars == <<wpc, pos, nxt>>
vars == <<next, prev, pending, pc, arg, was, wpc, pos, nxt>>

-----------------------------------------------------------------------------
(* include/linux/list.h *)

\* The item is on a list: INIT_LIST_HEAD leaves it pointing at itself and
\* list_del leaves it poisoned.
Linked(w) == next[w] \notin {w, Poison}

\* Slip: list_add for list_add_tail.
ListAddTail_Head(w) ==
    LET first == next[Head] IN
    /\ next' = [next EXCEPT ![w] = first, ![Head] = w]
    /\ prev' = [prev EXCEPT ![first] = w, ![w] = Head]

ListAddTail(w) ==
    LET last == prev[Head] IN
    /\ next' = [next EXCEPT ![w] = Head, ![last] = w]
    /\ prev' = [prev EXCEPT ![Head] = w, ![w] = last]

\* Slip: the entry after the one taken out still points back at it.
ListDel_OneSide(w) ==
    /\ next' = [next EXCEPT ![prev[w]] = next[w], ![w] = Poison]
    /\ prev' = [prev EXCEPT ![w] = Poison]

ListDel(w) ==
    /\ next' = [next EXCEPT ![prev[w]] = next[w], ![w] = Poison]
    /\ prev' = [prev EXCEPT ![next[w]] = prev[w], ![w] = Poison]

-----------------------------------------------------------------------------
(* alloc_workqueue and INIT_WORK *)

Init ==
    /\ next = [n \in Node |-> n]
    /\ prev = [n \in Node |-> n]
    /\ pending = {}
    /\ pc = [t \in Submitters |-> "idle"]
    /\ arg \in [Submitters -> Works]
    /\ \A t, u \in Submitters : arg[t] = arg[u]
    /\ was = [t \in Submitters |-> FALSE]
    /\ wpc = "scan"
    /\ pos = Head
    /\ nxt = Head

-----------------------------------------------------------------------------
(* queue_work_on, run by a submitting thread or by a function the worker   *)
(* is executing.                                                           *)

\* The worker queues items from the functions it runs, the others any time.
MayCall(t) == pc[t] = "idle" /\ (t = Worker => wpc = "func")

\* test_and_set_bit, first half: prev = ptr[b >> 5].
TestBit(t, w) ==
    /\ MayCall(t)
    /\ <<t, w>> \in Submits
    /\ pc' = [pc EXCEPT ![t] = "set"]
    /\ arg' = [arg EXCEPT ![t] = w]
    /\ was' = [was EXCEPT ![t] = w \in pending]
    /\ UNCHANGED <<listVars, pending, workerVars>>

\* Slip: the test and the store swapped, so that every call finds the bit clear.
SetBit_Untested(t) ==
    /\ pc[t] = "set"
    /\ pending' = pending \cup {arg[t]}
    /\ pc' = [pc EXCEPT ![t] = "add"]
    /\ was' = [was EXCEPT ![t] = FALSE]
    /\ UNCHANGED <<listVars, arg, workerVars>>

\* Second half: ptr[b >> 5] |= m, and the branch on what the first half read.
SetBit(t) ==
    /\ pc[t] = "set"
    /\ pending' = pending \cup {arg[t]}
    /\ pc' = [pc EXCEPT ![t] = IF was[t] THEN "idle" ELSE "add"]
    /\ was' = [was EXCEPT ![t] = FALSE]
    /\ UNCHANGED <<listVars, arg, workerVars>>

\* __queue_work: link the item and wake the worker, under wq->mutex.
QueueWork(t) ==
    /\ pc[t] = "add"
    /\ ListAddTail(arg[t])
    /\ wpc' = IF wpc = "asleep" THEN "scan" ELSE wpc
    /\ pc' = [pc EXCEPT ![t] = "idle"]
    /\ UNCHANGED <<pending, arg, was, pos, nxt>>

-----------------------------------------------------------------------------
(* queue_work_run, the worker *)

\* Slip: no test for the list head at the end of the walk.
Visit_NoTest(n) == "take"

\* The walk goes to work item n, or out of the loop at the head.
Visit(n) == IF n = Head THEN "wait" ELSE "take"

\* Slip: the walk starts at the tail.
Scan_Tail ==
    /\ wpc = "scan"
    /\ pos' = prev[Head]
    /\ nxt' = next[prev[Head]]
    /\ wpc' = Visit(prev[Head])
    /\ UNCHANGED <<listVars, pending, submitVars>>

\* Start of the walk, without the mutex: work = first, tmp = the next one.
Scan ==
    /\ wpc = "scan"
    /\ pos' = next[Head]
    /\ nxt' = next[next[Head]]
    /\ wpc' = Visit(next[Head])
    /\ UNCHANGED <<listVars, pending, submitVars>>

\* Under the mutex: unlink the item and clear its PENDING bit; then call it.
Take ==
    /\ wpc = "take"
    /\ ListDel(pos)
    /\ pending' = pending \ {pos}
    /\ wpc' = "func"
    /\ UNCHANGED <<submitVars, pos, nxt>>

\* The function returns and the walk moves on to tmp, read before it ran.
FuncReturn ==
    /\ wpc = "func"
    /\ pc[Worker] = "idle"
    /\ pos' = nxt
    /\ nxt' = next[nxt]
    /\ wpc' = Visit(nxt)
    /\ UNCHANGED <<listVars, pending, submitVars>>

\* workqueue_cond_wait: sleep, without looking at the list again.
CondWait ==
    /\ wpc = "wait"
    /\ wpc' = "asleep"
    /\ UNCHANGED <<listVars, pending, submitVars, pos, nxt>>

-----------------------------------------------------------------------------
Submit(t) == (\E w \in Works : TestBit(t, w)) \/ SetBit(t) \/ QueueWork(t)

WorkerStep == Scan \/ Take \/ FuncReturn \/ CondWait

Next == (\E t \in Submitters : Submit(t)) \/ WorkerStep

\* A submitter that began a call finishes it, the worker thread is scheduled,
\* and the functions it runs return, however often they queue work first.
Fairness ==
    /\ \A t \in Submitters : WF_vars(SetBit(t) \/ QueueWork(t))
    /\ WF_vars(Scan) /\ WF_vars(Take) /\ WF_vars(CondWait)
    /\ SF_vars(FuncReturn)

Spec == Init /\ [][Next]_vars
FairSpec == Spec /\ Fairness

-----------------------------------------------------------------------------
(* What the workqueue promises.                                            *)

\* The rule the rest of the driver must follow for the list to stay whole:
\* an item is queued from one thread only.
SingleSubmitter ==
    \A t, u \in Submitters : \A w \in Works :
        <<t, w>> \in Submits /\ <<u, w>> \in Submits => t = u

\* Every variable has its type, and the worker only ever unlinks or runs an
\* item: its cursor never stops at the list head inside the loop of
\* queue_work_run.
TypeOK ==
    /\ next \in [Node -> Node \cup {Poison}]
    /\ prev \in [Node -> Node \cup {Poison}]
    /\ pending \subseteq Works
    /\ pc \in [Submitters -> {"idle", "set", "add"}]
    /\ arg \in [Submitters -> Works]
    /\ was \in [Submitters -> BOOLEAN]
    /\ wpc \in {"scan", "take", "func", "wait", "asleep"}
    /\ pos \in Node
    /\ nxt \in Node
    /\ wpc \in {"take", "func"} => pos \in Works

\* __queue_work never links an item that is linked already, nor one that
\* another thread is about to link: list_add_tail of a linked entry leaves a
\* list that the worker walks for ever or drops items from.
NoDoubleAdd ==
    \A t \in Submitters : pc[t] = "add" =>
        /\ ~Linked(arg[t])
        /\ \A u \in Submitters \ {t} : pc[u] = "add" => arg[u] # arg[t]

\* An item whose PENDING bit is clear is neither listed nor about to be: the
\* bit that queue_work_on tests is never behind the list.
PendingCoversQueued ==
    \A w \in Works : w \notin pending =>
        /\ ~Linked(w)
        /\ \A t \in Submitters : ~(pc[t] = "add" /\ arg[t] = w)

\* The nodes of the list: the head and the linked items.
Ring == {Head} \cup {w \in Works : Linked(w)}

\* The pointers of the list are inverse to each other and never leave it: what
\* list_add_tail and list_del assume of the entries around the one they touch.
RingOK ==
    \A n \in Ring : /\ next[n] \in Ring /\ prev[next[n]] = n
                    /\ prev[n] \in Ring /\ next[prev[n]] = n

\* The worker unlinks the oldest item only, and the entry it will go to after
\* the function returns is still the oldest on the list then, or the head: the
\* unlocked walk of queue_work_run never follows the pointers of an entry that
\* has left the list.
CursorOK ==
    /\ wpc = "take" => pos = next[Head] /\ nxt \in {Head, next[pos]}
    /\ wpc = "func" => nxt \in {Head, next[Head]}

\* node[i] is the i-th node met from the head: the items in the order in which
\* list_for_each_entry_safe meets them, cut where the walk is back at the head.
Walk ==
    LET node[i \in 0 .. Cardinality(Works) + 1] ==
            IF i = 0 THEN Head ELSE next[node[i - 1]]
        len == CHOOSE k \in 0 .. Cardinality(Works) :
                  /\ node[k + 1] = Head
                  /\ \A i \in 1 .. k : node[i] # Head
    IN  [i \in 1 .. len |-> node[i]]

Running == IF wpc = "func" THEN {pos} ELSE {}

\* The workqueue is a FIFO of items: each item queued with success is run once,
\* in the order of queueing, and none is run that was not queued.
WorkFifo == INSTANCE DeferredWork WITH queue <- Walk, running <- Running
RefinesDeferredWork == WorkFifo!Spec
=============================================================================

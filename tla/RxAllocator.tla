---------------------------- MODULE RxAllocator ----------------------------
(***************************************************************************)
(* Receive buffers of the PCIe transport (iwlwifi/pcie/rx.c), for devices   *)
(* with one receive queue.  The device fills the buffers on the ring;       *)
(* iwl_pcie_rx_handle takes them off and passes them up.  A buffer whose    *)
(* page the stack keeps goes, in batches of Claim, through the background   *)
(* allocator, a work, and comes back with a new page.                       *)
(*                                                                          *)
(* Buffer descriptors are counted, not named: every list is its length.     *)
(* The handler and the allocator interleave at each section under rba->lock *)
(* and at each access to the two atomic counters.                           *)
(***************************************************************************)
EXTENDS Integers

CONSTANTS
    Size,       \* RX_QUEUE_SIZE
    Claim,      \* RX_CLAIM_REQ_ALLOC
    Post,       \* RX_POST_REQ_ALLOC
    Chunk,      \* write_actual is write rounded down to a multiple of this
    Batch,      \* the buffers handled in an emergency between two refills
    Atomic      \* whether atomic_inc and its like are atomic

ASSUME RxAssumption ==
    /\ Size \in Nat /\ Chunk \in Nat \ {0} /\ Batch \in Nat \ {0}
    /\ Claim \in Nat /\ Post \in 1 .. Claim - 1
    /\ Chunk < Size
    /\ Atomic \in BOOLEAN

\* The allocator's own descriptors, for one queue.
Pool == Claim - Post

Handler == "iwl_pcie_rx_handle"
Allocator == "iwl_pcie_rx_allocator"
NotLoaded == -1

VARIABLES
    ring,           \* the descriptors from read to write
    lag,            \* write - write_actual, which the device does not see yet
    free_count, rx_used, used_count,            \* rxq
    rbd_empty, rbd_allocated, req_pending, req_ready,   \* rba
    listed,         \* rx_alloc is queued: PENDING, and on the list
    worker,         \* rba.alloc_wq: looks at the list, is done with it, or sleeps
    hpc, todo, emergency, count, seen,  \* the handler; seen: req_pending as it read it
    apc, local_empty, pending,          \* the allocator
    loaded          \* what a thread read of the counter it is about to write

deviceVars == <<ring, lag>>
rxqVars == <<free_count, rx_used, used_count>>
rbaVars == <<rbd_empty, rbd_allocated, req_pending, req_ready>>
handlerVars == <<hpc, todo, emergency, count, seen>>
allocatorVars == <<apc, local_empty, pending>>
wqVars == <<listed, worker>>
vars == <<deviceVars, rxqVars, rbaVars, wqVars, handlerVars, allocatorVars, loaded>>

\* _iwl_pcie_rx_init and the first restock.
Init ==
    /\ ring = Size - 1 /\ lag = (Size - 1) % Chunk
    /\ free_count = 1 /\ rx_used = 0 /\ used_count = 0
    /\ rbd_empty = Pool /\ rbd_allocated = 0
    /\ req_pending = 0 /\ req_ready = 0
    /\ listed = FALSE /\ worker = "scan"
    /\ hpc = "idle" /\ todo = 0 /\ emergency = FALSE /\ count = 0 /\ seen = 0
    /\ apc = "idle" /\ local_empty = 0 /\ pending = 0
    /\ loaded = [t \in {Handler, Allocator} |-> NotLoaded]

-----------------------------------------------------------------------------
(* Counters.  An update reads and writes; with Atomic no other comes between, *)
(* as the driver expects; the shim's atomic operations are plain C.          *)

\* A thread that has read the counter writes what it makes of the value.
Write(t, counter, step) ==
    /\ loaded[t] # NotLoaded
    /\ counter' = loaded[t] + step
    /\ loaded' = [loaded EXCEPT ![t] = NotLoaded]

Load(t, counter) ==
    /\ loaded[t] = NotLoaded
    /\ Atomic => \A u \in DOMAIN loaded : loaded[u] = NotLoaded
    /\ loaded' = [loaded EXCEPT ![t] = counter]
    /\ UNCHANGED <<deviceVars, rxqVars, rbaVars, wqVars, handlerVars, allocatorVars>>

-----------------------------------------------------------------------------
(* iwl_pcie_rx_handle                                                      *)

HandlerOnly == UNCHANGED <<allocatorVars, wqVars>>

\* The buffers the device has filled when the handler asks: those it sees, or
\* some of them.
Filled == 0 .. ring - lag

\* An interrupt: the handler reads how far the device is.
Interrupt ==
    /\ hpc = "idle"
    /\ todo' \in Filled
    /\ hpc' = "loop"
    /\ HandlerOnly
    /\ UNCHANGED <<deviceVars, rxqVars, rbaVars, emergency, count, seen, loaded>>

\* Slip: requests are compared with buffers.
TooMany_Requests(requests) == requests >= Size \div 2

\* Half the ring waits for pages.
TooMany(requests) == requests * Claim >= Size \div 2

\* The head of the loop: how many requests are pending.
Peek ==
    /\ hpc = "loop" /\ todo > 0
    /\ seen' = req_pending
    /\ hpc' = IF TooMany(req_pending) /\ ~emergency THEN "enter" ELSE "rb"
    /\ HandlerOnly
    /\ UNCHANGED <<deviceVars, rxqVars, rbaVars, todo, emergency, count, loaded>>

\* iwl_pcie_rx_move_to_allocator
MoveToAllocator == rbd_empty' = rbd_empty + rx_used /\ rx_used' = 0

EnterEmergency ==
    /\ hpc = "enter"
    /\ MoveToAllocator
    /\ emergency' = TRUE
    /\ hpc' = "rb"
    /\ HandlerOnly
    /\ UNCHANGED <<deviceVars, free_count, used_count, rbd_allocated, req_pending,
                   req_ready, todo, count, seen, loaded>>

\* iwl_pcie_rx_handle_rb.  The page of the next buffer stays with it, or is
\* stolen: then, outside an emergency, the descriptor is counted, and the first
\* Post of a batch make a request.
HandleRb(stolen) ==
    /\ hpc = "rb"
    /\ ring' = ring - 1 /\ todo' = todo - 1
    /\ IF stolen
       THEN /\ rx_used' = rx_used + 1
            /\ used_count' = IF emergency THEN used_count ELSE used_count + 1
            /\ UNCHANGED free_count
       ELSE /\ free_count' = free_count + 1
            /\ UNCHANGED <<rx_used, used_count>>
    /\ hpc' = IF stolen /\ ~emergency /\ used_count' % Claim = Post
              THEN "move" ELSE "test"
    /\ HandlerOnly
    /\ UNCHANGED <<lag, rbaVars, emergency, count, seen, loaded>>

\* Slip: the request is posted before the descriptors are there.
PostMove_Keeps ==
    /\ hpc = "move"
    /\ hpc' = "post"
    /\ HandlerOnly
    /\ UNCHANGED <<deviceVars, rxqVars, rbaVars, todo, emergency, count, seen, loaded>>

PostMove ==
    /\ hpc = "move"
    /\ MoveToAllocator
    /\ hpc' = "post"
    /\ HandlerOnly
    /\ UNCHANGED <<deviceVars, free_count, used_count, rbd_allocated, req_pending,
                   req_ready, todo, emergency, count, seen, loaded>>

PostRequest ==
    /\ hpc = "post"
    /\ Write(Handler, req_pending, 1)
    /\ hpc' = "queue"
    /\ HandlerOnly
    /\ UNCHANGED <<deviceVars, rxqVars, rbd_empty, rbd_allocated, req_ready,
                   todo, emergency, count, seen>>

\* Slip: the worker is not woken.
Queue_NoWakeup ==
    /\ hpc = "queue"
    /\ listed' = TRUE
    /\ hpc' = "test"
    /\ UNCHANGED <<deviceVars, rxqVars, rbaVars, worker, todo, emergency, count, seen,
                   allocatorVars, loaded>>

\* queue_work: nothing if the work is PENDING; else it is listed, and the worker
\* is woken if it sleeps by now.  (That the bit is set in two halves is
\* Workqueue's matter; here it is one step.)
Queue ==
    /\ hpc = "queue"
    /\ listed' = TRUE
    /\ worker' = IF ~listed /\ worker = "asleep" THEN "scan" ELSE worker
    /\ hpc' = "test"
    /\ UNCHANGED <<deviceVars, rxqVars, rbaVars, todo, emergency, count, seen,
                   allocatorVars, loaded>>

MayClaim == used_count >= Claim

\* Slip: a counter of zero is decremented too.
Positive_Zero(counter) == counter >= 0

Positive(counter) == counter > 0

\* iwl_pcie_rx_allocator_get, if a batch has been used: atomic_dec_if_positive.
ClaimTest ==
    /\ hpc = "test"
    /\ IF MayClaim /\ Positive(loaded[Handler])
       THEN Write(Handler, req_ready, -1) /\ hpc' = "claim"
       ELSE /\ MayClaim => loaded[Handler] = 0
            /\ loaded' = [loaded EXCEPT ![Handler] = NotLoaded]
            /\ hpc' = "next"
            /\ UNCHANGED req_ready
    /\ HandlerOnly
    /\ UNCHANGED <<deviceVars, rxqVars, rbd_empty, rbd_allocated, req_pending,
                   todo, emergency, count, seen>>

ClaimBatch ==
    /\ hpc = "claim"
    /\ rbd_allocated >= Claim   \* or list_first_entry returns the list head
    /\ rbd_allocated' = rbd_allocated - Claim
    /\ free_count' = free_count + Claim
    /\ used_count' = used_count - Claim
    /\ hpc' = "next"
    /\ HandlerOnly
    /\ UNCHANGED <<deviceVars, rx_used, rbd_empty, req_pending, req_ready, todo,
                   emergency, count, seen, loaded>>

\* The end of the loop's body.  In an emergency, out of the lock after every
\* Batch buffers, and out of the emergency if few requests were pending.
NextRb ==
    /\ hpc = "next"
    /\ IF used_count % Claim = 0 /\ ~emergency
       THEN MoveToAllocator
       ELSE UNCHANGED <<rbd_empty, rx_used>>
    /\ LET refill == emergency /\ count + 1 = Batch IN
       /\ count' = IF refill THEN 0 ELSE IF emergency THEN count + 1 ELSE count
       /\ emergency' = (emergency /\ ~(refill /\ seen * Claim < Size \div 3))
       /\ hpc' = IF refill THEN "refill" ELSE "loop"
    /\ seen' = 0
    /\ HandlerOnly
    /\ UNCHANGED <<deviceVars, free_count, used_count, rbd_allocated, req_pending,
                   req_ready, todo, loaded>>

\* iwl_pcie_rxq_alloc_rbs: a page for each used descriptor, which the shim's
\* alloc_pages and dma_mapping_error never refuse ...
Alloc(rxbs) == rx_used' = rx_used - rxbs

\* Slip: without regard to the room on the ring.
Restock_NoRoom(avail) ==
    /\ ring' = ring + avail
    /\ free_count' = 0
    /\ lag' = (lag + avail) % Chunk

\* ... and iwl_pcie_rxq_restock, of what is on rx_free then.
Restock(avail) ==
    LET room == Size - 1 - ring
        n == IF avail <= room THEN avail ELSE room
    IN  /\ ring' = ring + n
        /\ free_count' = avail - n
        /\ lag' = (lag + n) % Chunk

Refill ==
    /\ hpc = "refill"
    /\ Alloc(rx_used) /\ Restock(free_count + rx_used)
    /\ todo' \in Filled'
    /\ hpc' = "loop"
    /\ HandlerOnly
    /\ UNCHANGED <<used_count, rbaVars, emergency, count, seen, loaded>>

\* Slip: used descriptors of the emergency are left where they are.
Unallocated_None == 0

\* Those that used_count does not know of.
Unallocated == IF emergency /\ count > 0 THEN rx_used ELSE 0

Return ==
    /\ hpc = "loop" /\ todo = 0
    /\ Alloc(Unallocated) /\ Restock(free_count + Unallocated)
    /\ emergency' = FALSE /\ count' = 0
    /\ hpc' = "idle"
    /\ HandlerOnly
    /\ UNCHANGED <<used_count, rbaVars, todo, seen, loaded>>

-----------------------------------------------------------------------------
(* iwl_pcie_rx_allocator                                                   *)

AllocatorOnly == UNCHANGED <<deviceVars, rxqVars, handlerVars>>

\* queue_work_run takes the work off the list, clears PENDING and calls it: read
\* the number of requests.  The next entry was the head, so that after the call
\* the worker does not look at the list again ...
AllocStart ==
    /\ apc = "idle" /\ worker = "scan" /\ listed
    /\ listed' = FALSE /\ worker' = "wait"
    /\ pending' = req_pending
    /\ apc' = "swap"
    /\ AllocatorOnly /\ UNCHANGED <<rbaVars, local_empty, loaded>>

\* ... nor does it if it finds nothing there ...
ScanEmpty ==
    /\ worker = "scan" /\ ~listed
    /\ worker' = "wait"
    /\ AllocatorOnly /\ UNCHANGED <<rbaVars, listed, allocatorVars, loaded>>

\* ... and workqueue_cond_wait sleeps until a wakeup, whatever was listed since.
CondWait ==
    /\ apc = "idle" /\ worker = "wait"
    /\ worker' = "asleep"
    /\ AllocatorOnly /\ UNCHANGED <<rbaVars, listed, allocatorVars, loaded>>

Swap ==
    /\ apc = "swap"
    /\ local_empty' = rbd_empty
    /\ rbd_empty' = 0
    /\ apc' = IF pending = 0 THEN "return" ELSE "alloc"
    /\ AllocatorOnly
    /\ UNCHANGED <<rbd_allocated, req_pending, req_ready, wqVars, pending, loaded>>

\* Pages for one request, each tried until it succeeds.
AllocBatch ==
    /\ apc = "alloc"
    /\ local_empty >= Claim     \* or BUG_ON(list_empty(&local_empty))
    /\ local_empty' = local_empty - Claim
    /\ apc' = "dec"
    /\ AllocatorOnly /\ UNCHANGED <<rbaVars, wqVars, pending, loaded>>

DecPending ==
    /\ apc = "dec"
    /\ Write(Allocator, req_pending, -1)
    /\ apc' = "more"
    /\ AllocatorOnly
    /\ UNCHANGED <<rbd_empty, rbd_allocated, req_ready, wqVars, local_empty, pending>>

More ==
    /\ apc = "more"
    /\ pending' = IF pending > 1 THEN pending - 1 ELSE req_pending
    /\ apc' = "splice"
    /\ AllocatorOnly /\ UNCHANGED <<rbaVars, wqVars, local_empty, loaded>>

Splice ==
    /\ apc = "splice"
    /\ rbd_allocated' = rbd_allocated + Claim
    /\ local_empty' = local_empty + rbd_empty
    /\ rbd_empty' = 0
    /\ apc' = "ready"
    /\ AllocatorOnly
    /\ UNCHANGED <<req_pending, req_ready, wqVars, pending, loaded>>

Ready ==
    /\ apc = "ready"
    /\ Write(Allocator, req_ready, 1)
    /\ apc' = IF pending = 0 THEN "return" ELSE "alloc"
    /\ AllocatorOnly
    /\ UNCHANGED <<rbd_empty, rbd_allocated, req_pending, wqVars, local_empty, pending>>

AllocReturn ==
    /\ apc = "return"
    /\ rbd_empty' = rbd_empty + local_empty
    /\ local_empty' = 0
    /\ apc' = "idle"
    /\ AllocatorOnly
    /\ UNCHANGED <<rbd_allocated, req_pending, req_ready, wqVars, pending, loaded>>

-----------------------------------------------------------------------------
HandlerLoad ==
    \/ hpc = "post" /\ Load(Handler, req_pending)
    \/ hpc = "test" /\ MayClaim /\ Load(Handler, req_ready)

AllocatorLoad ==
    \/ apc = "dec" /\ Load(Allocator, req_pending)
    \/ apc = "ready" /\ Load(Allocator, req_ready)

\* The handler between an interrupt and its return, but for queue_work.
HandlerStep ==
    \/ HandlerLoad
    \/ Peek \/ EnterEmergency
    \/ \E stolen \in BOOLEAN : HandleRb(stolen)
    \/ PostMove \/ PostRequest
    \/ ClaimTest \/ ClaimBatch \/ NextRb \/ Refill \/ Return

\* The allocator from its start to its return.
AllocatorStep ==
    \/ AllocatorLoad
    \/ Swap \/ AllocBatch \/ DecPending \/ More \/ Splice \/ Ready \/ AllocReturn

\* The worker, but for the work it runs.
WorkerStep == AllocStart \/ ScanEmpty \/ CondWait

Next == Interrupt \/ HandlerStep \/ Queue \/ WorkerStep \/ AllocatorStep

\* The two threads run, and an atomic operation comes through however often
\* others do; the device need not do anything.
Fairness ==
    /\ WF_vars(HandlerStep \/ Queue)
    /\ WF_vars(WorkerStep) /\ SF_vars(AllocatorStep)

Spec == Init /\ [][Next]_vars
FairSpec == Spec /\ Fairness

-----------------------------------------------------------------------------
\* The batch the allocator has taken off its list and not put on rbd_allocated.
InHand == IF apc \in {"dec", "more", "splice"} THEN Claim ELSE 0

\* Every variable has its type.
TypeOK ==
    /\ ring \in 0 .. Size - 1 /\ lag \in 0 .. Chunk - 1
    /\ {free_count, rx_used, used_count} \subseteq 0 .. Size
    /\ {rbd_empty, rbd_allocated, local_empty} \subseteq 0 .. Size + Pool
    /\ {req_pending, req_ready, seen, pending} \subseteq 0 .. Size
    /\ listed \in BOOLEAN /\ worker \in {"scan", "wait", "asleep"}
    /\ emergency \in BOOLEAN
    /\ todo \in 0 .. ring /\ count \in 0 .. Batch - 1
    /\ hpc \in {"idle", "loop", "enter", "rb", "move", "post", "queue", "test",
                "claim", "next", "refill"}
    /\ apc \in {"idle", "swap", "alloc", "dec", "more", "splice", "ready", "return"}
    /\ loaded \in [{Handler, Allocator} -> Nat \cup {NotLoaded}]

\* "List should never be empty - each reused RBD is returned to the list, and
\* initial pool covers any possible gap": the allocator has the descriptors of
\* every request it knows of.
BatchAvailable == apc = "alloc" => local_empty >= Claim

\* A batch that is announced is on rbd_allocated: a claim does not run into the
\* end of that list.
ClaimBacked == hpc = "claim" => rbd_allocated >= Claim

\* used_count tells what the queue has lent to the allocator, but for the
\* descriptors on rx_used that are counted and not yet moved: none is "handed to
\* the allocator with no tracking", where it would never be claimed back.
Accounted ==
    rbd_empty + local_empty + InHand + rbd_allocated
        = Pool + used_count - (IF emergency \/ hpc = "refill" THEN 0 ELSE rx_used)

\* Whatever the stack keeps, and however late the allocator runs, the device has
\* buffers when the handler returns: without any, no interrupt would come, and
\* the batches that wait to be claimed would not be.
NeverStarved == hpc = "idle" => ring - lag > 0

\* A request posted while the worker sleeps is served: queue_work wakes it, and no
\* step of the allocator in progress takes its place.
ServedIfAsleep ==
    (hpc = "queue" /\ ~listed /\ worker = "asleep" /\ req_pending > 0) ~> apc = "ready"

\* "Work is then scheduled for the allocator to start allocating" (rx.c:119): a
\* request that has been posted is served.  It need not be: a work listed while the
\* worker is between its look at the list and its sleep is left there, and since it
\* stays PENDING, and is the only one on this workqueue, no queue_work wakes the
\* worker again.
RequestServed == req_pending > 0 ~> apc = "ready"
=============================================================================

------------------------- MODULE RxAllocatorProofs -------------------------
(***************************************************************************)
(* The receive buffers' descriptors are accounted for, and each request the *)
(* allocator knows of has its descriptors, for any size of the ring and of  *)
(* the batches.                                                             *)
(***************************************************************************)
EXTENDS RxAllocator, TLAPS

-----------------------------------------------------------------------------
(* Accounting, whether or not the counters are atomic.                      *)

Counts ==
    /\ rx_used \in Nat /\ used_count \in Int
    /\ rbd_empty \in Int /\ rbd_allocated \in Int /\ local_empty \in Int
    /\ count \in Nat /\ emergency \in BOOLEAN

\* In an emergency rx_used holds descriptors that used_count does not know of;
\* iwl_pcie_rx_handle recognises them by count, which starts at 0 with an empty
\* rx_used and is 0 outside an emergency.
EmergencyOK ==
    /\ ~emergency => count = 0
    /\ emergency /\ count = 0 /\ hpc = "loop" => rx_used = 0
    /\ hpc \in {"idle", "enter", "move", "post", "queue"} => ~emergency

\* The allocator keeps no descriptors when it returns.
LocalOK == apc \in {"idle", "swap"} => local_empty = 0

AccountInv == Counts /\ EmergencyOK /\ LocalOK /\ Accounted

\* _iwl_pcie_rx_init lends nothing but the allocator's own pool.
LEMMA InitAccount == Init => AccountInv
<1> SUFFICES ASSUME Init PROVE AccountInv
  OBVIOUS
<1>1. Pool \in Int
  BY RxAssumption DEF Pool
<1>2. /\ rx_used = 0 /\ used_count = 0 /\ rbd_empty = Pool /\ rbd_allocated = 0
      /\ local_empty = 0 /\ count = 0 /\ hpc = "idle" /\ apc = "idle"
  BY DEF Init
<1>3. emergency \in BOOLEAN /\ ~emergency
  BY Zenon DEF Init
<1> QED BY <1>1, <1>2, <1>3 DEF AccountInv, Counts, EmergencyOK, LocalOK, Accounted, InHand

\* What the handler does between an interrupt and its return keeps the account.
LEMMA HandlerAccount ==
    ASSUME AccountInv, Interrupt \/ HandlerStep \/ Queue PROVE AccountInv'
<1> USE RxAssumption DEF AccountInv, Counts, EmergencyOK, LocalOK, Accounted, InHand, Pool,
        HandlerOnly, deviceVars, rxqVars, rbaVars, handlerVars, allocatorVars
<1>1. CASE Interrupt
  BY <1>1 DEF Interrupt
<1>2. CASE HandlerLoad
  BY <1>2 DEF HandlerLoad, Load
<1>3. CASE Peek
  BY <1>3 DEF Peek
<1>4. CASE EnterEmergency
  BY <1>4 DEF EnterEmergency, MoveToAllocator
<1>5. CASE \E stolen \in BOOLEAN : HandleRb(stolen)
  BY <1>5 DEF HandleRb
<1>6. CASE PostMove
  BY <1>6 DEF PostMove, MoveToAllocator
<1>7. CASE PostRequest
  BY <1>7 DEF PostRequest
<1>8. CASE ClaimTest
  BY <1>8 DEF ClaimTest
<1>9. CASE ClaimBatch
  BY <1>9 DEF ClaimBatch
<1>10. CASE NextRb
  BY <1>10 DEF NextRb, MoveToAllocator
<1>11. CASE Refill
  BY <1>11 DEF Refill, Alloc, Restock
<1>12. CASE Return
  <2>1. emergency' \in BOOLEAN /\ ~emergency'
    BY <1>12, Zenon DEF Return
  <2>2. /\ hpc = "loop" /\ hpc' = "idle" /\ count' = 0
        /\ rx_used' = rx_used - Unallocated /\ used_count' = used_count
        /\ UNCHANGED <<apc, rbd_empty, rbd_allocated, local_empty>>
    BY <1>12 DEF Return, Alloc
  <2> QED BY <2>1, <2>2 DEF Unallocated
<1>13. CASE Queue
  BY <1>13 DEF Queue
<1> QED BY <1>1, <1>2, <1>3, <1>4, <1>5, <1>6, <1>7, <1>8, <1>9, <1>10, <1>11,
           <1>12, <1>13 DEF HandlerStep

\* So does the allocator, which moves descriptors from one list to another.
LEMMA AllocatorAccount ==
    ASSUME AccountInv, WorkerStep \/ AllocatorStep PROVE AccountInv'
<1> USE RxAssumption DEF AccountInv, Counts, EmergencyOK, LocalOK, Accounted, InHand, Pool,
        AllocatorOnly, deviceVars, rxqVars, rbaVars, handlerVars
<1>1. CASE AllocStart
  BY <1>1 DEF AllocStart
<1>2. CASE AllocatorLoad
  BY <1>2 DEF AllocatorLoad, Load, allocatorVars
<1>3. CASE Swap
  BY <1>3 DEF Swap
<1>4. CASE AllocBatch
  BY <1>4 DEF AllocBatch
<1>5. CASE DecPending
  BY <1>5 DEF DecPending
<1>6. CASE More
  BY <1>6 DEF More
<1>7. CASE Splice
  BY <1>7 DEF Splice
<1>8. CASE Ready
  BY <1>8 DEF Ready
<1>9. CASE AllocReturn
  BY <1>9 DEF AllocReturn
<1>10. CASE ScanEmpty \/ CondWait
  BY <1>10 DEF ScanEmpty, CondWait, rbaVars, allocatorVars
<1> QED BY <1>1, <1>2, <1>3, <1>4, <1>5, <1>6, <1>7, <1>8, <1>9, <1>10
       DEF WorkerStep, AllocatorStep

\* No descriptor is handed to the allocator with no tracking, whatever the stack
\* keeps and whether or not the counters of requests are atomic.
THEOREM DescriptorsAccounted == Spec => []Accounted
<1>1. Init => AccountInv
  BY InitAccount
<1>2. AccountInv /\ [Next]_vars => AccountInv'
  <2> SUFFICES ASSUME AccountInv, [Next]_vars PROVE AccountInv'
    OBVIOUS
  <2>1. CASE Next
    BY <2>1, HandlerAccount, AllocatorAccount DEF Next
  <2>2. CASE UNCHANGED vars
    BY <2>2 DEF AccountInv, Counts, EmergencyOK, LocalOK, Accounted, InHand, vars,
        rxqVars, rbaVars, handlerVars, allocatorVars
  <2> QED BY <2>1, <2>2
<1>3. AccountInv => Accounted
  BY DEF AccountInv
<1> QED BY <1>1, <1>2, <1>3, PTL DEF Spec

-----------------------------------------------------------------------------
(* Batches.  With atomic counters, each request that is posted has the       *)
(* descriptors of a whole batch, wherever they are on their way.             *)

One(b) == IF b THEN 1 ELSE 0

\* The requests the handler has decided on, until it has claimed their batches.
Outstanding ==
    req_pending + req_ready + One(apc \in {"more", "splice", "ready"})
        + One(hpc \in {"move", "post", "claim"})

\* The used descriptors that are counted and not yet moved to the allocator.
Unsent == IF emergency \/ hpc = "refill" THEN 0 ELSE rx_used

Numbers ==
    /\ req_pending \in Nat /\ req_ready \in Nat /\ pending \in Nat
    /\ used_count \in Nat
    /\ loaded \in [{Handler, Allocator} -> Int]
    /\ hpc = "claim" => used_count >= Claim

\* The request of a batch is made when used_count is Post above a multiple of
\* Claim: the first requests of all the batches begun are outstanding.
RequestsOK ==
    /\ Claim * Outstanding <= used_count + Pool
    /\ used_count + Pool < Claim * (Outstanding + 1)
    /\ hpc \in {"move", "post"} => used_count + Pool = Claim * Outstanding

\* The descriptors of a request are moved to the allocator before it is posted.
SentOK == Claim * (Outstanding - One(hpc = "move")) + Unsent <= used_count + Pool

\* rbd_allocated holds the batches that are announced, are about to be, or are
\* being claimed.
ReadyOK ==
    rbd_allocated = Claim * (req_ready + One(apc = "ready") + One(hpc = "claim"))

\* The allocator has taken the descriptors of each request it has read of.
ServeOK ==
    /\ apc = "swap" => pending <= req_pending /\ Claim * pending <= rbd_empty
    /\ apc = "alloc" => pending \in 1 .. req_pending /\ Claim * pending <= local_empty
    /\ apc = "dec" => /\ pending \in 1 .. req_pending
                      /\ Claim * (pending - 1) <= local_empty
    /\ apc = "more" => /\ pending \in 1 .. req_pending + 1
                       /\ Claim * (pending - 1) <= local_empty
    /\ apc = "splice" => /\ pending <= req_pending
                         /\ Claim * pending <= local_empty + rbd_empty
    /\ apc = "ready" => pending <= req_pending /\ Claim * pending <= local_empty

\* What a thread has read of a counter is still its value when it writes.
LoadedOK ==
    /\ loaded[Handler] = NotLoaded \/ loaded[Allocator] = NotLoaded
    /\ loaded[Handler] # NotLoaded =>
          \/ hpc = "post" /\ loaded[Handler] = req_pending
          \/ hpc = "test" /\ loaded[Handler] = req_ready
    /\ loaded[Allocator] # NotLoaded =>
          \/ apc = "dec" /\ loaded[Allocator] = req_pending
          \/ apc = "ready" /\ loaded[Allocator] = req_ready

BatchInv ==
    AccountInv /\ Numbers /\ RequestsOK /\ SentOK /\ ReadyOK /\ ServeOK /\ LoadedOK

\* What RxAssumption says of the batches.
LEMMA Batches ==
    /\ Claim \in Nat /\ Post \in Nat /\ Pool \in Nat /\ 1 <= Post /\ Post < Claim
BY RxAssumption DEF Pool

\* The request for a batch falls due exactly when used_count is Post above a
\* multiple of Claim.
LEMMA Due ==
    ASSUME NEW n \in Nat, NEW q \in Nat,
           Claim * q <= n + Pool, n + Pool < Claim * (q + 1)
    PROVE  IF (n + 1) % Claim = Post THEN n + 1 + Pool = Claim * (q + 1)
                                     ELSE n + 1 + Pool < Claim * (q + 1)
<1> DEFINE d == (n + 1) \div Claim
           r == (n + 1) % Claim
<1>1. d \in Int /\ r \in 0 .. Claim - 1 /\ n + 1 = Claim * d + r
  BY Batches
<1>2. Pool = Claim - Post
  BY DEF Pool
<1> HIDE DEF d, r
<1>3. ASSUME r = Post PROVE n + 1 + Pool = Claim * (q + 1)
  <2>1. n + 1 + Pool = Claim * (d + 1)
    BY <1>1, <1>2, <1>3, Batches
  <2>2. d = q
    BY <2>1, <1>1, Batches
  <2> QED BY <2>1, <2>2
<1>4. ASSUME r # Post PROVE n + 1 + Pool < Claim * (q + 1)
  <2>1. n + 1 + Pool <= Claim * (q + 1)
    BY Batches
  <2>2. SUFFICES ASSUME n + 1 + Pool = Claim * (q + 1) PROVE FALSE
    BY <2>1, Batches
  <2> DEFINE z == q - d
  <2>3. z \in Int /\ Claim * z = r - Post
    BY <2>2, <1>1, <1>2, Batches
  <2>4. r - Post # 0 /\ -Claim < r - Post /\ r - Post < Claim
    BY <1>1, <1>4, Batches
  <2> HIDE DEF z
  <2>5. z = 0 \/ Claim * z >= Claim \/ Claim * z <= -Claim
    BY <2>3, Batches
  <2> QED BY <2>3, <2>4, <2>5, <1>1, Batches
<1> QED BY <1>3, <1>4 DEF r

\* What is with the allocator covers the requests that are posted.
LEMMA PostedBacked ==
    ASSUME BatchInv
    PROVE  Claim * (req_pending - One(apc = "dec")) <= rbd_empty + local_empty
BY Batches DEF BatchInv, AccountInv, Counts, EmergencyOK, Numbers, SentOK, ReadyOK, Accounted,
    InHand, Outstanding, Unsent, One

\* Nothing is outstanding at first.
LEMMA InitBatch == Init => BatchInv
<1> SUFFICES ASSUME Init PROVE BatchInv
  OBVIOUS
<1>1. AccountInv
  BY InitAccount
<1>2. Numbers /\ LoadedOK
  BY DEF Init, Numbers, LoadedOK, NotLoaded, Handler, Allocator
<1>3. /\ rx_used = 0 /\ used_count = 0 /\ rbd_empty = Pool /\ rbd_allocated = 0
      /\ req_pending = 0 /\ req_ready = 0 /\ hpc = "idle" /\ apc = "idle"
  BY DEF Init
<1>4. RequestsOK /\ SentOK /\ ReadyOK /\ ServeOK
  BY <1>3, Batches DEF RequestsOK, SentOK, ReadyOK, ServeOK, Outstanding, Unsent, One, Pool
<1> QED BY <1>1, <1>2, <1>4 DEF BatchInv

\* The end of the handler's loop moves used descriptors, or ends an emergency.
LEMMA NextRbBatch ==
    ASSUME BatchInv, AccountInv', NextRb PROVE BatchInv'
<1>1. /\ hpc = "next" /\ hpc' \in {"refill", "loop"}
      /\ hpc' = "loop" => (emergency' <=> emergency)
      /\ (rx_used' = 0 /\ rbd_empty' = rbd_empty + rx_used)
         \/ UNCHANGED <<rx_used, rbd_empty>>
      /\ UNCHANGED <<used_count, rbd_allocated, req_pending, req_ready, apc, pending,
                     local_empty, loaded>>
  BY DEF NextRb, MoveToAllocator, HandlerOnly, allocatorVars
<1>2. rx_used \in Nat /\ rbd_empty \in Int /\ local_empty \in Int
  BY DEF BatchInv, AccountInv, Counts
<1>3. Numbers' /\ ReadyOK' /\ LoadedOK'
  BY <1>1 DEF BatchInv, Numbers, ReadyOK, LoadedOK, One
<1>4. Outstanding' = Outstanding
  BY <1>1 DEF Outstanding, One
<1>5. Unsent \in Nat /\ Unsent' \in Nat /\ Unsent' <= Unsent
  <2>1. Unsent = IF emergency THEN 0 ELSE rx_used
    BY <1>1 DEF Unsent
  <2>2. hpc' = "refill" => Unsent' = 0
    BY DEF Unsent
  <2>3. hpc' = "loop" => Unsent' = IF emergency THEN 0 ELSE rx_used'
    BY <1>1 DEF Unsent
  <2>4. rx_used' \in Nat /\ rx_used' <= rx_used
    BY <1>1, <1>2
  <2> QED BY <1>1, <1>2, <2>1, <2>2, <2>3, <2>4
<1>6. RequestsOK'
  BY <1>1, <1>4 DEF BatchInv, RequestsOK, Pool
<1>7. SentOK'
  <2>1. Outstanding \in Nat /\ used_count \in Nat
    BY DEF BatchInv, Numbers, Outstanding, One
  <2>2. Claim * Outstanding \in Nat /\ Outstanding - 0 = Outstanding
    BY <2>1, Batches
  <2>3. Claim * Outstanding + Unsent <= used_count + Pool
    BY <2>2, <1>1 DEF BatchInv, SentOK, One
  <2>4. Claim * Outstanding + Unsent' <= used_count + Pool
    <3> DEFINE p == Claim * Outstanding
               n == used_count + Pool
               u == Unsent
               v == Unsent'
    <3>1. p \in Int /\ n \in Int /\ u \in Int /\ v \in Int /\ v <= u /\ p + u <= n
      BY <2>1, <2>2, <2>3, <1>5, Batches
    <3> HIDE DEF p, n, u, v
    <3>2. p + v <= n
      BY <3>1
    <3> QED BY <3>2 DEF p, n, v
  <2> QED BY <1>1, <1>4, <2>2, <2>4 DEF SentOK, One, Pool
<1>8. ServeOK'
  BY <1>1, <1>2, Batches DEF BatchInv, Numbers, ServeOK
<1> QED BY <1>3, <1>6, <1>7, <1>8 DEF BatchInv

\* What the handler does keeps the batches.
LEMMA HandlerBatch ==
    ASSUME Atomic, BatchInv, Interrupt \/ HandlerStep \/ Queue PROVE BatchInv'
<1>0. AccountInv /\ AccountInv'
  BY HandlerAccount DEF BatchInv
<1> USE Batches DEF BatchInv, AccountInv, Counts, EmergencyOK, LocalOK,
        Numbers, RequestsOK, SentOK, ReadyOK, ServeOK, LoadedOK, Outstanding, Unsent, One,
        HandlerOnly, deviceVars, rxqVars, rbaVars, handlerVars, allocatorVars,
        NotLoaded, Handler, Allocator
<1>1. CASE Interrupt
  BY <1>0, <1>1 DEF Interrupt
<1>2. CASE HandlerLoad
  BY <1>0, <1>2 DEF HandlerLoad, Load, MayClaim
<1>3. CASE Peek
  BY <1>0, <1>3 DEF Peek
<1>4. CASE EnterEmergency
  BY <1>0, <1>4 DEF EnterEmergency, MoveToAllocator
<1>5. CASE \E stolen \in BOOLEAN : HandleRb(stolen)
  <2> PICK stolen \in BOOLEAN : HandleRb(stolen)
    BY <1>5
  <2>1. CASE ~stolen \/ emergency
    BY <1>0, <2>1 DEF HandleRb
  <2>2. CASE stolen /\ ~emergency
    <3>1. /\ hpc = "rb" /\ hpc' = IF (used_count + 1) % Claim = Post THEN "move" ELSE "test"
          /\ used_count' = used_count + 1 /\ rx_used' = rx_used + 1
          /\ UNCHANGED <<rbd_allocated, rbd_empty, req_pending, req_ready, apc, pending,
                         local_empty, loaded, emergency>>
      BY <2>2 DEF HandleRb
    <3>2. Outstanding \in Nat
      OBVIOUS
    <3>3. IF (used_count + 1) % Claim = Post
          THEN used_count + 1 + Pool = Claim * (Outstanding + 1)
          ELSE used_count + 1 + Pool < Claim * (Outstanding + 1)
      BY <3>2, Due
    <3>4. CASE (used_count + 1) % Claim = Post
      BY <1>0, <2>2, <3>1, <3>3, <3>4
    <3>5. CASE (used_count + 1) % Claim # Post
      BY <1>0, <2>2, <3>1, <3>3, <3>5
    <3> QED BY <3>4, <3>5
  <2> QED BY <2>1, <2>2
<1>6. CASE PostMove
  BY <1>0, <1>6 DEF PostMove, MoveToAllocator
<1>7. CASE PostRequest
  BY <1>0, <1>7 DEF PostRequest, Write
<1>8. CASE ClaimTest
  BY <1>0, <1>8 DEF ClaimTest, MayClaim, Positive, Write
<1>9. CASE ClaimBatch
  BY <1>0, <1>9 DEF ClaimBatch
<1>10. CASE NextRb
  BY <1>0, <1>10, NextRbBatch
<1>11. CASE Refill
  BY <1>0, <1>11 DEF Refill, Alloc, Restock
<1>12. CASE Return
  BY <1>0, <1>12 DEF Return, Alloc, Restock, Unallocated
<1>13. CASE Queue
  BY <1>0, <1>13 DEF Queue
<1> QED BY <1>1, <1>2, <1>3, <1>4, <1>5, <1>6, <1>7, <1>8, <1>9, <1>10, <1>11, <1>12,
           <1>13 DEF HandlerStep

\* So does what the allocator does.
LEMMA AllocatorBatch ==
    ASSUME Atomic, BatchInv, WorkerStep \/ AllocatorStep PROVE BatchInv'
<1>0. AccountInv /\ AccountInv'
  BY AllocatorAccount DEF BatchInv
<1>00. Claim * (req_pending - One(apc = "dec")) <= rbd_empty + local_empty
  BY PostedBacked
<1> USE Batches DEF BatchInv, AccountInv, Counts, EmergencyOK, LocalOK,
        Numbers, RequestsOK, SentOK, ReadyOK, ServeOK, LoadedOK, Outstanding, Unsent, One,
        AllocatorOnly, deviceVars, rxqVars, rbaVars, handlerVars, allocatorVars,
        NotLoaded, Handler, Allocator
<1>1. CASE AllocStart
  BY <1>0, <1>00, <1>1 DEF AllocStart
<1>2. CASE AllocatorLoad
  BY <1>0, <1>00, <1>2 DEF AllocatorLoad, Load
<1>3. CASE Swap
  BY <1>0, <1>00, <1>3 DEF Swap
<1>4. CASE AllocBatch
  BY <1>0, <1>00, <1>4 DEF AllocBatch
<1>5. CASE DecPending
  BY <1>0, <1>00, <1>5 DEF DecPending, Write
<1>6. CASE More
  BY <1>0, <1>00, <1>6 DEF More
<1>7. CASE Splice
  BY <1>0, <1>00, <1>7 DEF Splice
<1>8. CASE Ready
  BY <1>0, <1>00, <1>8 DEF Ready, Write
<1>9. CASE AllocReturn
  BY <1>0, <1>00, <1>9 DEF AllocReturn
<1>10. CASE ScanEmpty \/ CondWait
  BY <1>0, <1>00, <1>10 DEF ScanEmpty, CondWait, rbaVars, allocatorVars
<1> QED BY <1>1, <1>2, <1>3, <1>4, <1>5, <1>6, <1>7, <1>8, <1>9, <1>10
       DEF WorkerStep, AllocatorStep

LEMMA Multiple == \A n \in Nat : n >= 1 => Claim <= Claim * n
<1> SUFFICES ASSUME NEW n \in Nat, n >= 1 PROVE Claim <= Claim * n
  OBVIOUS
<1>1. n - 1 \in Nat /\ Claim * n = Claim + Claim * (n - 1) /\ Claim * (n - 1) >= 0
  BY Batches
<1> QED BY <1>1, Batches

\* With atomic counters, each step keeps the batches.
THEOREM BatchesHold == Atomic => (Spec => []BatchInv)
<1> SUFFICES ASSUME Atomic PROVE Spec => []BatchInv
  OBVIOUS
<1>1. Init => BatchInv
  BY InitBatch
<1>2. BatchInv /\ [Next]_vars => BatchInv'
  <2> SUFFICES ASSUME BatchInv, [Next]_vars PROVE BatchInv'
    OBVIOUS
  <2>1. CASE Next
    BY <2>1, HandlerBatch, AllocatorBatch DEF Next
  <2>2. CASE UNCHANGED vars
    BY <2>2 DEF BatchInv, AccountInv, Counts, EmergencyOK, LocalOK, Accounted, InHand,
        Numbers, RequestsOK, SentOK, ReadyOK, ServeOK, LoadedOK, Outstanding, Unsent,
        vars, rxqVars, rbaVars, handlerVars, allocatorVars
  <2> QED BY <2>1, <2>2
<1> QED BY <1>1, <1>2, PTL DEF Spec

\* "List should never be empty - each reused RBD is returned to the list, and
\* initial pool covers any possible gap": BUG_ON(list_empty(&local_empty)) in
\* iwl_pcie_rx_allocator does not fire, whatever the size of ring and batches.
THEOREM ListNeverEmpty == Atomic => (Spec => []BatchAvailable)
<1>1. BatchInv => BatchAvailable
  <2> SUFFICES ASSUME BatchInv, apc = "alloc" PROVE local_empty >= Claim
    BY DEF BatchAvailable
  <2>1. /\ pending \in Nat /\ pending >= 1 /\ Claim * pending <= local_empty
        /\ local_empty \in Int
    BY DEF BatchInv, AccountInv, Counts, Numbers, ServeOK
  <2>2. Claim <= Claim * pending
    BY <2>1, Multiple
  <2> QED BY <2>1, <2>2, Batches
<1> QED BY <1>1, BatchesHold, PTL

\* iwl_pcie_rx_allocator_get finds a whole batch on rbd_allocated whenever it has
\* taken a request that is ready.
THEOREM ClaimsAreBacked == Atomic => (Spec => []ClaimBacked)
<1>1. BatchInv => ClaimBacked
  <2> SUFFICES ASSUME BatchInv, hpc = "claim" PROVE rbd_allocated >= Claim
    BY DEF ClaimBacked
  <2> DEFINE n == req_ready + One(apc = "ready") + 1
  <2>1. n \in Nat /\ n >= 1
    BY DEF BatchInv, Numbers, One
  <2>2. rbd_allocated = Claim * n
    BY DEF BatchInv, ReadyOK, One
  <2>3. Claim <= Claim * n
    BY <2>1, Multiple
  <2> QED BY <2>1, <2>2, <2>3, Batches
<1> QED BY <1>1, BatchesHold, PTL

-----------------------------------------------------------------------------
(* Starvation.  With atomic counters, what the queue has lent is bounded by   *)
(* the requests the handler has seen pending, and the rest is on the ring     *)
(* when it returns.                                                           *)

HandlerSteps == {"idle", "loop", "enter", "rb", "move", "post", "queue", "test", "claim",
                 "next", "refill"}
AllocatorSteps == {"idle", "swap", "alloc", "dec", "more", "splice", "ready", "return"}

RingTypes ==
    /\ ring \in 0 .. Size - 1 /\ lag \in 0 .. Chunk - 1 /\ free_count \in Nat
    /\ rbd_empty \in Nat /\ rbd_allocated \in Nat /\ local_empty \in Nat
    /\ seen \in 0 .. Size /\ pending \in 0 .. Size
    /\ listed \in BOOLEAN /\ worker \in {"scan", "wait", "asleep"} /\ count \in 0 .. Batch - 1
    /\ hpc \in HandlerSteps /\ apc \in AllocatorSteps
    /\ loaded \in [{Handler, Allocator} -> Nat \cup {NotLoaded}]

\* The handler takes no more buffers than there are.
TodoOK == todo \in 0 .. ring /\ (hpc \in {"enter", "rb"} => todo > 0)

\* Every descriptor of the queue is on the ring, on rx_free or lent, or is used
\* in an emergency, when it is not counted.
Kept ==
    ring + free_count + used_count + (IF emergency \/ hpc = "refill" THEN rx_used ELSE 0)
        = Size

\* iwl_pcie_rxq_restock has filled the ring, or has used rx_free up.
RestockedOK == hpc = "idle" => ring = Size - 1 \/ free_count = 0

\* A buffer of a descriptor that will be counted is handled only while few
\* requests are pending.
FewOK == hpc \in {"rb", "move", "post", "queue", "test"} /\ ~emergency => ~TooMany(seen)

\* The requests that are not ready: the one the allocator has in hand, too.
Unready == req_pending + One(apc \in {"more", "splice", "ready"})

\* The handler has looked at the requests before it takes a buffer, and only adds
\* its own since: unless a batch is ready, few are lent.
SeenOK ==
    /\ hpc \in {"rb", "move", "post"} /\ ~emergency => Unready <= seen + 1
    /\ hpc \in {"queue", "test"} /\ ~emergency =>
           used_count + Pool <= Claim * (seen + 2 + req_ready)

\* The most that is lent when the handler is through with a buffer.
MostLent == (Size \div 2) + Claim + Post - 1

LentOK ==
    used_count <=
        MostLent + One(~emergency /\ hpc \in {"move", "post", "queue", "test", "claim"})

RingInv == RingTypes /\ TodoOK /\ Kept /\ RestockedOK /\ FewOK /\ SeenOK /\ LentOK

\* What RxAssumption says of the ring.
LEMMA Sizes ==
    /\ Size \in Nat /\ Chunk \in Nat /\ Batch \in Nat /\ 1 <= Chunk /\ Chunk < Size /\ 1 <= Batch
    /\ \A n \in Int : n % Chunk \in 0 .. Chunk - 1
BY RxAssumption

LEMMA Monotone == \A m, n \in Nat : m <= n => Claim * m <= Claim * n
<1> SUFFICES ASSUME NEW m \in Nat, NEW n \in Nat, m <= n PROVE Claim * m <= Claim * n
  OBVIOUS
<1> DEFINE d == n - m
<1>1. d \in Nat /\ n = m + d
  OBVIOUS
<1> HIDE DEF d
<1>2. Claim * n = Claim * m + Claim * d /\ Claim * d >= 0
  BY <1>1, Batches
<1> DEFINE x == Claim * m
           y == Claim * d
<1>3. x \in Int /\ y \in Int /\ y >= 0 /\ Claim * n = x + y
  BY <1>1, <1>2, Batches
<1> HIDE DEF x, y
<1>4. x <= Claim * n
  BY <1>3
<1> QED BY <1>4 DEF x

\* There are never more requests than descriptors on the ring.
LEMMA RequestsBounded ==
    ASSUME BatchInv, RingInv, Claim <= Size
    PROVE  /\ used_count \in 0 .. Size /\ free_count \in 0 .. Size
           /\ Outstanding \in 0 .. Size /\ req_pending \in 0 .. Size /\ req_ready \in 0 .. Size
<1>1. /\ ring \in Nat /\ free_count \in Nat /\ used_count \in Nat /\ rx_used \in Nat
      /\ req_pending \in Nat /\ req_ready \in Nat
  BY Sizes DEF BatchInv, AccountInv, Counts, Numbers, RingInv, RingTypes
<1>2. used_count <= Size /\ free_count <= Size
  BY <1>1, Sizes DEF RingInv, Kept
<1>3. Outstanding \in Nat /\ req_pending <= Outstanding /\ req_ready <= Outstanding
  BY <1>1 DEF Outstanding, One
<1>4. Claim * Outstanding <= used_count + Pool
  BY DEF BatchInv, RequestsOK
<1>5. 2 * Outstanding <= Claim * Outstanding
  <2>1. Claim * Outstanding = 2 * Outstanding + (Claim - 2) * Outstanding
        /\ (Claim - 2) * Outstanding >= 0
    BY <1>3, Batches
  <2> DEFINE x == (Claim - 2) * Outstanding
             y == Claim * Outstanding
  <2>2. x \in Int /\ y \in Int /\ y = 2 * Outstanding + x /\ x >= 0
    BY <2>1, <1>3, Batches
  <2> HIDE DEF x, y
  <2>3. 2 * Outstanding <= y
    BY <2>2, <1>3
  <2> QED BY <2>3 DEF y
<1>6. Pool <= Size
  BY Batches, Sizes DEF Pool
<1>7. Outstanding <= Size
  <2> DEFINE y == Claim * Outstanding
  <2>1. y \in Int /\ y <= used_count + Pool /\ 2 * Outstanding <= y
    BY <1>3, <1>4, <1>5, Batches
  <2> HIDE DEF y
  <2> QED BY <1>1, <1>2, <1>3, <1>6, <2>1, Batches, Sizes
<1> QED BY <1>1, <1>2, <1>3, <1>7, Sizes

\* The first buffers are all on the ring.
LEMMA InitRing == ASSUME Init PROVE RingInv
<1>1. /\ ring = Size - 1 /\ lag = (Size - 1) % Chunk /\ free_count = 1 /\ rx_used = 0
      /\ used_count = 0 /\ rbd_empty = Pool /\ rbd_allocated = 0 /\ local_empty = 0
      /\ hpc = "idle" /\ apc = "idle" /\ todo = 0 /\ count = 0 /\ seen = 0 /\ pending = 0
  BY DEF Init
<1>2. listed \in BOOLEAN /\ worker = "scan" /\ ~emergency
  BY Zenon DEF Init
<1>3. loaded \in [{Handler, Allocator} -> Nat \cup {NotLoaded}]
  BY DEF Init
<1>4. RingTypes
  BY <1>1, <1>2, <1>3, Batches, Sizes DEF RingTypes, HandlerSteps, AllocatorSteps
<1>5. TodoOK /\ Kept /\ RestockedOK /\ FewOK /\ SeenOK /\ LentOK
  BY <1>1, <1>2, Batches, Sizes DEF TodoOK, Kept, RestockedOK, FewOK, SeenOK, LentOK, MostLent, One
<1> QED BY <1>4, <1>5 DEF RingInv

\* The allocator does not touch the ring; a request that it has served is one
\* less to wait for, or one more that is ready.
LEMMA AllocatorRing ==
    ASSUME BatchInv, BatchInv', RingInv, Claim <= Size, WorkerStep \/ AllocatorStep
    PROVE  RingInv'
<1>1. /\ UNCHANGED <<ring, lag, free_count, rx_used, used_count, hpc, todo, emergency, count, seen>>
  BY DEF WorkerStep, AllocStart, ScanEmpty, CondWait, AllocatorStep, AllocatorOnly,
         AllocatorLoad, Load, Swap, AllocBatch, DecPending, More, Splice, Ready, AllocReturn,
         deviceVars, rxqVars, handlerVars
<1>2. TodoOK' /\ Kept' /\ RestockedOK' /\ FewOK' /\ LentOK'
  BY <1>1 DEF RingInv, TodoOK, Kept, RestockedOK, FewOK, LentOK, TooMany
<1>3. /\ rbd_empty' \in Nat /\ rbd_allocated' \in Nat /\ local_empty' \in Nat
      /\ listed' \in BOOLEAN /\ worker' \in {"scan", "wait", "asleep"}
      /\ apc' \in AllocatorSteps
  <2> USE Batches DEF RingInv, RingTypes, AllocatorSteps, rbaVars, allocatorVars, wqVars
  <2>1. CASE AllocStart
    BY <2>1 DEF AllocStart
  <2>2. CASE AllocatorLoad
    BY <2>2 DEF AllocatorLoad, Load
  <2>3. CASE Swap
    BY <2>3 DEF Swap
  <2>4. CASE AllocBatch
    BY <2>4 DEF AllocBatch
  <2>5. CASE DecPending
    BY <2>5 DEF DecPending
  <2>6. CASE More
    BY <2>6 DEF More
  <2>7. CASE Splice
    BY <2>7 DEF Splice
  <2>8. CASE Ready
    BY <2>8 DEF Ready
  <2>9. CASE AllocReturn
    BY <2>9 DEF AllocReturn
  <2>10. CASE ScanEmpty \/ CondWait
    BY <2>10 DEF ScanEmpty, CondWait, rbaVars, allocatorVars
  <2> QED BY <2>1, <2>2, <2>3, <2>4, <2>5, <2>6, <2>7, <2>8, <2>9, <2>10
         DEF WorkerStep, AllocatorStep
<1>4. pending' \in 0 .. Size
  <2>1. req_pending \in 0 .. Size /\ pending \in 0 .. Size
    BY RequestsBounded DEF RingInv, RingTypes
  <2>2. pending' = pending \/ pending' = req_pending \/ (pending > 1 /\ pending' = pending - 1)
    BY DEF WorkerStep, AllocStart, ScanEmpty, CondWait, AllocatorStep, AllocatorLoad, Load,
           Swap, AllocBatch, DecPending, More, Splice, Ready, AllocReturn, allocatorVars
  <2> QED BY <2>1, <2>2, Sizes
<1>5. loaded' \in [{Handler, Allocator} -> Nat \cup {NotLoaded}]
  <2>1. req_pending \in Nat /\ req_ready \in Nat
    BY DEF BatchInv, Numbers
  <2>2. loaded \in [{Handler, Allocator} -> Nat \cup {NotLoaded}]
    BY DEF RingInv, RingTypes
  <2>3. \/ loaded' = loaded
        \/ \E x \in {req_pending, req_ready, NotLoaded} : loaded' = [loaded EXCEPT ![Allocator] = x]
    BY DEF WorkerStep, AllocStart, ScanEmpty, CondWait, AllocatorStep, AllocatorLoad, Load,
           Swap, AllocBatch, DecPending, More, Splice, Ready, AllocReturn, allocatorVars, Write
  <2> QED BY <2>1, <2>2, <2>3
<1>6. RingTypes'
  BY <1>1, <1>3, <1>4, <1>5 DEF RingInv, RingTypes
<1>7. Unready' <= Unready /\ req_ready' >= req_ready
  <2> USE DEF BatchInv, Numbers, Unready, One, rbaVars, LoadedOK, NotLoaded, Handler, Allocator
  <2>1. CASE AllocStart
    BY <2>1 DEF AllocStart
  <2>2. CASE AllocatorLoad
    <3>1. UNCHANGED <<req_pending, req_ready, apc>>
      BY <2>2 DEF AllocatorLoad, Load, allocatorVars
    <3> QED BY <3>1
  <2>3. CASE Swap
    BY <2>3 DEF Swap
  <2>4. CASE AllocBatch
    BY <2>4 DEF AllocBatch
  <2>5. CASE DecPending
    BY <2>5 DEF DecPending, Write
  <2>6. CASE More
    BY <2>6 DEF More
  <2>7. CASE Splice
    BY <2>7 DEF Splice
  <2>8. CASE Ready
    BY <2>8 DEF Ready, Write
  <2>9. CASE AllocReturn
    BY <2>9 DEF AllocReturn
  <2>10. CASE ScanEmpty \/ CondWait
    <3>1. UNCHANGED <<req_pending, req_ready, apc>>
      BY <2>10 DEF ScanEmpty, CondWait, allocatorVars
    <3> QED BY <3>1
  <2> QED BY <2>1, <2>2, <2>3, <2>4, <2>5, <2>6, <2>7, <2>8, <2>9, <2>10
         DEF WorkerStep, AllocatorStep
<1>8. SeenOK'
  <2>1. /\ seen \in Nat /\ used_count \in Nat /\ req_ready \in Nat /\ req_ready' \in Nat
        /\ req_pending \in Nat /\ req_pending' \in Nat
    BY Sizes DEF BatchInv, Numbers, RingInv, RingTypes
  <2>2. Unready \in Nat /\ Unready' \in Nat
    <3>1. One(apc \in {"more", "splice", "ready"}) \in Nat
          /\ One(apc' \in {"more", "splice", "ready"}) \in Nat
      BY DEF One
    <3> QED BY <2>1, <3>1 DEF Unready
  <2>3. Claim * (seen + 2 + req_ready) <= Claim * (seen + 2 + req_ready')
    BY <1>7, <2>1, Monotone
  <2>4. ASSUME hpc \in {"rb", "move", "post"}, ~emergency PROVE Unready' <= seen + 1
    <3>1. Unready <= seen + 1
      BY <2>4 DEF RingInv, SeenOK
    <3> QED BY <1>7, <2>1, <2>2, <3>1
  <2>5. ASSUME hpc \in {"queue", "test"}, ~emergency
        PROVE  used_count + Pool <= Claim * (seen + 2 + req_ready')
    <3>1. used_count + Pool <= Claim * (seen + 2 + req_ready)
      BY <2>5 DEF RingInv, SeenOK
    <3> DEFINE x == Claim * (seen + 2 + req_ready')
               y == Claim * (seen + 2 + req_ready)
    <3>2. x \in Int /\ y \in Int
      BY <2>1, Batches
    <3>3. y <= x /\ used_count + Pool <= y
      BY <2>3, <3>1
    <3> HIDE DEF x, y
    <3>4. used_count + Pool <= x
      BY <2>1, <3>2, <3>3, Batches
    <3> QED BY <3>4 DEF x
  <2> QED BY <1>1, <2>4, <2>5 DEF SeenOK, Pool
<1> QED BY <1>2, <1>6, <1>8 DEF RingInv

\* What the handler reads of a counter is a number of requests.
LEMMA HandlerLoadTyped ==
    ASSUME BatchInv, RingInv, Interrupt \/ HandlerStep \/ Queue
    PROVE  loaded' \in [{Handler, Allocator} -> Nat \cup {NotLoaded}]
<1>1. req_pending \in Nat /\ req_ready \in Nat
  BY DEF BatchInv, Numbers
<1>2. loaded \in [{Handler, Allocator} -> Nat \cup {NotLoaded}]
  BY DEF RingInv, RingTypes
<1>3. \/ loaded' = loaded
      \/ \E x \in {req_pending, req_ready, NotLoaded} : loaded' = [loaded EXCEPT ![Handler] = x]
  BY DEF Interrupt, HandlerStep, HandlerLoad, Load, Peek, EnterEmergency, HandleRb, PostMove,
         PostRequest, Write, ClaimTest, ClaimBatch, NextRb, Refill, Return, Queue
<1> QED BY <1>1, <1>2, <1>3

\* A refill puts on the ring what was used in the emergency, as far as there is room.
LEMMA RefillTypes ==
    ASSUME BatchInv, RingInv, Refill
    PROVE  RingTypes' /\ TodoOK' /\ Kept' /\ RestockedOK'
<1>1. loaded' \in [{Handler, Allocator} -> Nat \cup {NotLoaded}]
  BY HandlerLoadTyped DEF HandlerStep
<1>2. /\ used_count \in Nat /\ rx_used \in Nat /\ free_count \in Nat
      /\ ring \in 0 .. Size - 1 /\ lag \in 0 .. Chunk - 1
  BY DEF BatchInv, AccountInv, Counts, Numbers, RingInv, RingTypes
<1>3. /\ hpc = "refill" /\ hpc' = "loop" /\ rx_used' = 0
      /\ UNCHANGED <<used_count, rbd_empty, rbd_allocated, local_empty, seen, pending, listed,
                     worker, count, apc>>
  BY <1>2 DEF Refill, Alloc, HandlerOnly, rbaVars, allocatorVars, wqVars
<1>4. /\ ring' \in 0 .. Size - 1 /\ lag' \in 0 .. Chunk - 1 /\ free_count' \in Nat
      /\ ring' + free_count' = ring + free_count + rx_used
  BY <1>2, Sizes DEF Refill, Restock
<1>5. Size \in Nat /\ Chunk \in Nat
  BY Sizes
<1>6. todo' \in 0 .. ring'
  <2>1. todo' \in 0 .. (ring' - lag')
    BY Zenon DEF Refill, Filled
  <2>2. PICK r, l, t : r = ring' /\ l = lag' /\ t = todo'
    OBVIOUS
  <2>3. r \in 0 .. Size - 1 /\ l \in 0 .. Chunk - 1 /\ t \in 0 .. (r - l)
    BY <1>4, <2>1, <2>2
  <2>4. t \in 0 .. r
    BY <1>5, <2>3
  <2> QED BY <2>2, <2>4
<1>7. RingTypes' /\ TodoOK' /\ RestockedOK'
  BY <1>1, <1>3, <1>4, <1>6
     DEF RingInv, RingTypes, TodoOK, RestockedOK, HandlerSteps, AllocatorSteps
<1>8. Kept'
  <2>1. ring + free_count + used_count + rx_used = Size
    BY <1>3 DEF RingInv, Kept
  <2>2. PICK r, f : r = ring' /\ f = free_count'
    OBVIOUS
  <2>3. r + f = ring + free_count + rx_used
    BY <1>4, <2>2, Zenon
  <2>4. r \in Nat /\ f \in Nat /\ ring \in Nat
    BY <1>2, <1>4, <1>5, <2>2
  <2>5. r + f + used_count = Size
    BY <1>2, <2>1, <2>3, <2>4
  <2> QED BY <1>2, <1>3, <2>2, <2>4, <2>5 DEF Kept
<1> QED BY <1>7, <1>8

\* The handler takes buffers off the ring and puts others on it.
LEMMA HandlerTypes ==
    ASSUME BatchInv, BatchInv', RingInv, Claim <= Size, Interrupt \/ HandlerStep \/ Queue
    PROVE  RingTypes' /\ TodoOK' /\ Kept' /\ RestockedOK'
<1>1. loaded' \in [{Handler, Allocator} -> Nat \cup {NotLoaded}]
  BY HandlerLoadTyped
<1>2. /\ used_count \in Nat /\ rx_used \in Nat /\ emergency \in BOOLEAN
      /\ used_count' \in Nat /\ rx_used' \in Nat /\ emergency' \in BOOLEAN
      /\ req_pending \in 0 .. Size
      /\ emergency /\ count = 0 /\ hpc = "loop" => rx_used = 0
      /\ hpc \in {"idle", "enter", "move", "post", "queue"} => ~emergency
  BY RequestsBounded DEF BatchInv, AccountInv, Counts, Numbers, EmergencyOK
<1> USE <1>1, <1>2, Sizes, Batches DEF RingInv, RingTypes, TodoOK, Kept, RestockedOK,
        HandlerSteps, AllocatorSteps, HandlerOnly, deviceVars, rxqVars, rbaVars,
        handlerVars, allocatorVars, wqVars
<1>3. CASE Interrupt
  BY <1>3 DEF Interrupt, Filled
<1>4. CASE HandlerLoad
  BY <1>4 DEF HandlerLoad, Load
<1>5. CASE Peek
  BY <1>5 DEF Peek
<1>6. CASE EnterEmergency
  BY <1>6 DEF EnterEmergency, MoveToAllocator
<1>7. CASE \E stolen \in BOOLEAN : HandleRb(stolen)
  <2>1. PICK stolen \in BOOLEAN : HandleRb(stolen)
    BY <1>7
  <2>2. /\ hpc = "rb" /\ hpc' \in {"move", "test"} /\ ring' = ring - 1 /\ todo' = todo - 1
        /\ UNCHANGED <<lag, rbd_empty, rbd_allocated, local_empty, seen, pending, listed,
                       worker, count, apc, emergency>>
    BY <2>1 DEF HandleRb
  <2>3. CASE stolen
    <3>1. /\ rx_used' = rx_used + 1 /\ free_count' = free_count
          /\ used_count' = IF emergency THEN used_count ELSE used_count + 1
      BY <2>1, <2>3 DEF HandleRb
    <3> QED BY <2>2, <3>1
  <2>4. CASE ~stolen
    <3>1. free_count' = free_count + 1 /\ UNCHANGED <<rx_used, used_count>>
      BY <2>1, <2>4 DEF HandleRb
    <3> QED BY <2>2, <3>1
  <2> QED BY <2>3, <2>4
<1>8. CASE PostMove
  BY <1>8 DEF PostMove, MoveToAllocator
<1>9. CASE PostRequest
  BY <1>9 DEF PostRequest
<1>10. CASE ClaimTest
  BY <1>10 DEF ClaimTest
<1>11. CASE ClaimBatch
  BY <1>11 DEF ClaimBatch
<1>12. CASE NextRb
  <2>1. /\ hpc = "next" /\ seen' = 0
        /\ UNCHANGED <<ring, lag, free_count, used_count, rbd_allocated, local_empty, todo,
                       pending, listed, worker, apc>>
    BY <1>12 DEF NextRb
  <2>2. /\ rbd_empty' = rbd_empty + rx_used /\ rx_used' = 0 /\ ~emergency
        \/ UNCHANGED <<rbd_empty, rx_used>>
    BY <1>12 DEF NextRb, MoveToAllocator
  <2>3. \/ /\ emergency /\ count + 1 = Batch /\ count' = 0 /\ hpc' = "refill"
        \/ /\ count' = (IF emergency THEN count + 1 ELSE count) /\ hpc' = "loop"
           /\ (emergency' <=> emergency) /\ ~(emergency /\ count + 1 = Batch)
    BY <1>12 DEF NextRb
  <2>4. count' \in 0 .. Batch - 1 /\ hpc' \in {"refill", "loop"}
    BY <2>3
  <2>5. RingTypes' /\ TodoOK' /\ RestockedOK'
    BY <2>1, <2>2, <2>4
  <2>6. CASE emergency
    <3>1. UNCHANGED rx_used /\ (emergency' \/ hpc' = "refill")
      BY <2>2, <2>3, <2>6
    <3> QED BY <2>1, <2>5, <2>6, <3>1
  <2>7. CASE ~emergency
    <3>1. ~emergency' /\ hpc' = "loop"
      BY <2>3, <2>7
    <3> QED BY <2>1, <2>5, <2>7, <3>1
  <2> QED BY <2>6, <2>7
<1>13. CASE Refill
  BY <1>13, RefillTypes
<1>14. CASE Return
  BY <1>14 DEF Return, Alloc, Restock, Unallocated
<1>15. CASE Queue
  BY <1>15 DEF Queue
<1> QED BY <1>3, <1>4, <1>5, <1>6, <1>7, <1>8, <1>9, <1>10, <1>11, <1>12, <1>13, <1>14,
           <1>15 DEF HandlerStep

\* What the handler has seen, and what it has added since.
LEMMA HandlerSeen ==
    ASSUME BatchInv, BatchInv', RingInv, Interrupt \/ HandlerStep \/ Queue
    PROVE  FewOK' /\ SeenOK'
<1>1. /\ req_pending \in Nat /\ req_ready \in Nat /\ used_count \in Nat /\ seen \in Nat
      /\ req_pending' \in Nat /\ req_ready' \in Nat /\ used_count' \in Nat
      /\ emergency \in BOOLEAN /\ emergency' \in BOOLEAN
      /\ hpc \in {"enter", "move", "post", "queue"} => ~emergency
  BY Sizes DEF BatchInv, AccountInv, Counts, Numbers, EmergencyOK, RingInv, RingTypes
<1>2. FewOK /\ SeenOK
  BY DEF RingInv
<1>3. ASSUME hpc' \notin {"rb", "move", "post", "queue", "test"} \/ emergency'
      PROVE  FewOK' /\ SeenOK'
  BY <1>3 DEF FewOK, SeenOK
<1>4. ASSUME UNCHANGED <<hpc, emergency, seen, used_count, req_pending, req_ready, apc>>
      PROVE  FewOK' /\ SeenOK'
  BY <1>2, <1>4 DEF FewOK, SeenOK, TooMany, Unready, One, Pool
<1>5. CASE Interrupt \/ EnterEmergency \/ ClaimTest \/ ClaimBatch \/ NextRb \/ Refill \/ Return
  BY <1>3, <1>5 DEF Interrupt, EnterEmergency, ClaimTest, ClaimBatch, NextRb, Refill, Return
<1>6. CASE HandlerLoad
  BY <1>4, <1>6 DEF HandlerLoad, Load, rxqVars, rbaVars, handlerVars, allocatorVars
<1>7. CASE Peek
  <2>1. /\ seen' = req_pending /\ (emergency' <=> emergency)
        /\ hpc' = IF TooMany(req_pending) /\ ~emergency THEN "enter" ELSE "rb"
        /\ req_pending' = req_pending /\ apc' = apc
    BY <1>7 DEF Peek, HandlerOnly, rbaVars, allocatorVars
  <2>2. hpc' = "rb" /\ ~emergency' => ~TooMany(seen')
    BY <2>1
  <2>3. Unready' <= seen' + 1
    BY <1>1, <2>1 DEF Unready, One
  <2> QED BY <1>1, <2>1, <2>2, <2>3 DEF FewOK, SeenOK, TooMany
<1>8. CASE \E stolen \in BOOLEAN : HandleRb(stolen)
  <2>1. /\ hpc = "rb" /\ hpc' \in {"move", "test"} /\ (emergency' <=> emergency)
        /\ UNCHANGED <<seen, req_pending, req_ready, apc>>
    BY <1>8 DEF HandleRb, HandlerOnly, rbaVars, allocatorVars
  <2>2. CASE emergency
    BY <1>3, <2>1, <2>2
  <2>3. CASE ~emergency
    <3>1. Unready <= seen + 1 /\ ~TooMany(seen)
      BY <1>2, <2>1, <2>3 DEF SeenOK, FewOK
    <3>2. Unready' = Unready /\ FewOK'
      BY <2>1, <3>1 DEF Unready, FewOK, TooMany
    <3>3. ASSUME hpc' = "test" PROVE used_count' + Pool <= Claim * (seen + 2 + req_ready)
      <4>1. used_count' + Pool < Claim * (Outstanding' + 1)
        BY DEF BatchInv, RequestsOK, Pool
      <4>2. Outstanding' = Unready + req_ready /\ Unready \in Nat
        BY <1>1, <2>1, <3>3 DEF Outstanding, Unready, One
      <4>3. Claim * (Outstanding' + 1) <= Claim * (seen + 2 + req_ready)
        BY <1>1, <3>1, <4>2, Monotone
      <4>4. PICK x \in Int : x = Claim * (Outstanding' + 1)
        BY <1>1, <4>2, Batches
      <4>5. PICK y \in Int : y = Claim * (seen + 2 + req_ready)
        BY <1>1, Batches
      <4>6. PICK n : n = used_count' + Pool
        OBVIOUS
      <4>7. n \in Int /\ n < x /\ x <= y
        <5>1. used_count' \in Int /\ Pool \in Int
          BY <1>1, Batches
        <5> QED BY <4>1, <4>3, <4>4, <4>5, <4>6, <5>1
      <4> QED BY <4>5, <4>6, <4>7
    <3> QED BY <2>1, <3>1, <3>2, <3>3 DEF SeenOK, Pool
  <2> QED BY <2>2, <2>3
<1>9. CASE PostMove
  <2>1. /\ hpc = "move" /\ hpc' = "post" /\ UNCHANGED <<emergency, seen, req_pending, apc>>
    BY <1>9 DEF PostMove, HandlerOnly, allocatorVars
  <2> QED BY <1>1, <1>2, <2>1 DEF SeenOK, FewOK, TooMany, Unready
<1>10. CASE PostRequest
  <2>1. /\ hpc = "post" /\ hpc' = "queue"
        /\ UNCHANGED <<emergency, seen, used_count, req_ready, apc>>
    BY <1>10 DEF PostRequest, HandlerOnly, rxqVars, allocatorVars
  <2>2. used_count + Pool = Claim * Outstanding
    BY <2>1 DEF BatchInv, RequestsOK
  <2>3. Unready <= seen + 1 /\ ~TooMany(seen)
    BY <1>1, <1>2, <2>1 DEF SeenOK, FewOK
  <2>4. Outstanding = Unready + req_ready + 1 /\ Unready \in Nat
    BY <1>1, <2>1 DEF Outstanding, Unready, One
  <2>5. Claim * Outstanding <= Claim * (seen + 2 + req_ready)
    BY <1>1, <2>3, <2>4, Monotone
  <2>6. used_count + Pool <= Claim * (seen + 2 + req_ready)
    BY <2>2, <2>5
  <2> QED BY <2>1, <2>3, <2>6 DEF SeenOK, FewOK, TooMany, Pool
<1>11. CASE Queue
  <2>1. /\ hpc = "queue" /\ hpc' = "test"
        /\ UNCHANGED <<emergency, seen, used_count, req_ready>>
    BY <1>11 DEF Queue, rxqVars, rbaVars
  <2> QED BY <1>2, <2>1 DEF SeenOK, FewOK, TooMany, Pool
<1> QED BY <1>5, <1>6, <1>7, <1>8, <1>9, <1>10, <1>11 DEF HandlerStep

\* A handler that finds nothing to claim has not lent much: either few requests
\* are pending or it is in an emergency, and lends nothing.
LEMMA HandlerLent ==
    ASSUME BatchInv, RingInv, Interrupt \/ HandlerStep \/ Queue PROVE LentOK'
<1>1. /\ used_count \in Nat /\ seen \in Nat /\ emergency \in BOOLEAN
      /\ hpc \in {"enter", "move", "post", "queue"} => ~emergency
      /\ hpc = "claim" => used_count >= Claim
  BY Sizes DEF BatchInv, AccountInv, Counts, Numbers, EmergencyOK, RingInv, RingTypes
<1>2. MostLent \in Nat /\ MostLent >= Claim
  BY Batches, Sizes DEF MostLent
<1>3. LentOK
  BY DEF RingInv
<1> HIDE DEF MostLent
<1>4. CASE Interrupt \/ HandlerLoad \/ Peek \/ NextRb \/ Refill \/ Return
  <2>1. /\ hpc \in {"idle", "loop", "next", "refill"} \/ UNCHANGED <<hpc, emergency>>
        /\ used_count' = used_count
    BY <1>4 DEF Interrupt, HandlerLoad, Load, Peek, NextRb, Refill, Return, rxqVars, handlerVars
  <2> QED BY <1>1, <1>2, <1>3, <2>1 DEF LentOK, One, MostLent
<1>5. CASE EnterEmergency \/ PostMove \/ PostRequest \/ Queue
  <2>1. /\ used_count' = used_count
        /\ \/ hpc = "enter"
           \/ /\ hpc \in {"move", "post", "queue"} /\ hpc' \in {"post", "queue", "test"}
              /\ emergency' = emergency
    BY <1>5 DEF EnterEmergency, PostMove, PostRequest, Queue, rxqVars
  <2> QED BY <1>1, <1>2, <1>3, <2>1 DEF LentOK, One, MostLent
<1>6. CASE \E stolen \in BOOLEAN : HandleRb(stolen)
  <2>1. /\ hpc = "rb" /\ hpc' \in {"move", "test"} /\ emergency' = emergency
        /\ used_count' = used_count \/ (~emergency /\ used_count' = used_count + 1)
    BY <1>6 DEF HandleRb
  <2> QED BY <1>1, <1>2, <1>3, <2>1 DEF LentOK, One, MostLent
<1>7. CASE ClaimTest
  <2>1. /\ hpc = "test" /\ hpc' \in {"claim", "next"} /\ UNCHANGED <<used_count, emergency>>
        /\ hpc' = "next" => used_count < Claim \/ loaded[Handler] = 0
    BY <1>1, <1>7, Batches DEF ClaimTest, MayClaim, rxqVars
  <2>2. CASE hpc' = "claim" \/ emergency
    BY <1>1, <1>2, <1>3, <2>1, <2>2 DEF LentOK, One, MostLent
  <2>3. CASE used_count < Claim
    BY <1>1, <1>2, <2>3, <2>1, Batches DEF LentOK, One, MostLent
  <2>4. CASE loaded[Handler] = 0 /\ ~emergency
    <3>1. req_ready = 0
      BY <2>1, <2>4 DEF BatchInv, LoadedOK, NotLoaded
    <3>2. used_count + Pool <= Claim * (seen + 2 + req_ready) /\ ~TooMany(seen)
      BY <2>1, <2>4 DEF RingInv, SeenOK, FewOK
    <3> DEFINE x == Claim * seen
    <3>3. x \in Nat /\ Claim * (seen + 2 + req_ready) = x + 2 * Claim /\ seen * Claim = x
      BY <1>1, <3>1, Batches
    <3>4. x < Size \div 2
      BY <1>1, <3>2, <3>3, Sizes DEF TooMany
    <3> HIDE DEF x
    <3>5. used_count + Claim - Post <= x + 2 * Claim
      BY <3>2, <3>3 DEF Pool
    <3>6. used_count <= MostLent
      BY <1>1, <3>3, <3>4, <3>5, Batches, Sizes DEF MostLent
    <3> QED BY <1>1, <1>2, <2>1, <3>6 DEF LentOK, One, MostLent
  <2> QED BY <1>1, <2>1, <2>2, <2>3, <2>4
<1>8. CASE ClaimBatch
  <2>1. hpc = "claim" /\ used_count' = used_count - Claim
    BY <1>8 DEF ClaimBatch
  <2> QED BY <1>1, <1>2, <1>3, <2>1, Batches DEF LentOK, One, MostLent
<1> QED BY <1>4, <1>5, <1>6, <1>7, <1>8 DEF HandlerStep

\* With atomic counters and a batch no longer than the ring, each step keeps what
\* is lent within bounds.
THEOREM RingHolds == Atomic /\ Claim <= Size => (Spec => [](BatchInv /\ RingInv))
<1> SUFFICES ASSUME Atomic, Claim <= Size PROVE Spec => [](BatchInv /\ RingInv)
  OBVIOUS
<1>1. Init => BatchInv /\ RingInv
  BY InitBatch, InitRing
<1>2. BatchInv /\ RingInv /\ [Next]_vars => BatchInv' /\ RingInv'
  <2> SUFFICES ASSUME BatchInv, RingInv, [Next]_vars PROVE BatchInv' /\ RingInv'
    OBVIOUS
  <2>1. CASE Interrupt \/ HandlerStep \/ Queue
    <3>1. BatchInv'
      BY <2>1, HandlerBatch
    <3> QED BY <2>1, <3>1, HandlerTypes, HandlerSeen, HandlerLent DEF RingInv
  <2>2. CASE WorkerStep \/ AllocatorStep
    <3>1. BatchInv'
      BY <2>2, AllocatorBatch
    <3> QED BY <2>2, <3>1, AllocatorRing
  <2>3. CASE UNCHANGED vars
    <3>1. BatchInv'
      BY <2>3 DEF BatchInv, AccountInv, Counts, EmergencyOK, LocalOK, Accounted, InHand,
          Numbers, RequestsOK, SentOK, ReadyOK, ServeOK, LoadedOK, Outstanding, Unsent,
          vars, rxqVars, rbaVars, handlerVars, allocatorVars
    <3>2. RingInv'
      BY <2>3 DEF RingInv, RingTypes, TodoOK, Kept, RestockedOK, FewOK, SeenOK, LentOK, Unready,
          TooMany, vars, deviceVars, rxqVars, rbaVars, handlerVars, allocatorVars, wqVars, Pool,
          MostLent
    <3> QED BY <3>1, <3>2
  <2> QED BY <2>1, <2>2, <2>3 DEF Next
<1> QED BY <1>1, <1>2, PTL DEF Spec

\* The counters, lists and requests of the receive queue stay within the ring and
\* the allocator's pool: there are never more requests than descriptors.
THEOREM RxTypeCorrect == Atomic /\ Claim <= Size => (Spec => []TypeOK)
<1> SUFFICES ASSUME Atomic, Claim <= Size PROVE Spec => []TypeOK
  OBVIOUS
<1>1. BatchInv /\ RingInv => TypeOK
  <2> SUFFICES ASSUME BatchInv, RingInv PROVE TypeOK
    OBVIOUS
  <2>1. /\ used_count \in 0 .. Size /\ free_count \in 0 .. Size
        /\ Outstanding \in 0 .. Size /\ req_pending \in 0 .. Size /\ req_ready \in 0 .. Size
    BY RequestsBounded
  <2>2. /\ rx_used \in Nat /\ emergency \in BOOLEAN /\ Pool \in Nat /\ Accounted
        /\ rbd_empty \in Nat /\ rbd_allocated \in Nat /\ local_empty \in Nat /\ ring \in Nat
    BY Batches, Sizes DEF BatchInv, AccountInv, Counts, RingInv, RingTypes
  <2>3. rx_used <= Size
    <3>1. CASE emergency \/ hpc = "refill"
      BY <2>1, <2>2, <3>1, Sizes DEF RingInv, Kept
    <3>2. CASE ~(emergency \/ hpc = "refill")
      <4> DEFINE n == Outstanding - One(hpc = "move")
      <4>1. n \in Nat
        BY <2>1 DEF Outstanding, One, BatchInv, Numbers
      <4>2. Claim * n + rx_used <= used_count + Pool
        BY <3>2 DEF BatchInv, SentOK, Unsent
      <4>3. CASE n >= 1
        <5>1. Claim <= Claim * n /\ Pool <= Claim
          BY <4>1, <4>3, Multiple, Batches DEF Pool
        <5>2. PICK x : x = Claim * n
          OBVIOUS
        <5>3. x \in Int
          BY <4>1, <5>2, Batches
        <5> HIDE DEF n
        <5> QED BY <2>1, <2>2, <4>2, <5>1, <5>2, <5>3, Batches, Sizes
      <4>4. CASE n = 0
        <5>1. Claim * n = 0
          BY <4>4, Batches
        <5>2. used_count + Pool <= Claim
          <6>1. CASE hpc = "move"
            <7>1. Outstanding = 1
              BY <2>1, <4>4, <6>1 DEF One
            <7> QED BY <6>1, <7>1, Batches DEF BatchInv, RequestsOK
          <6>2. CASE hpc # "move"
            <7>1. Outstanding = 0
              BY <2>1, <4>4, <6>2 DEF One
            <7> QED BY <2>1, <7>1, Batches DEF BatchInv, RequestsOK
          <6> QED BY <6>1, <6>2
        <5> HIDE DEF n
        <5> QED BY <2>1, <2>2, <4>2, <5>1, <5>2, Batches, Sizes
      <4> QED BY <4>1, <4>3, <4>4
    <3> QED BY <3>1, <3>2
  <2>4. {rbd_empty, rbd_allocated, local_empty} \subseteq 0 .. Size + Pool
    <3>1. InHand \in Nat
      BY Batches DEF InHand
    <3> QED BY <2>1, <2>2, <3>1, Sizes DEF Accounted
  <2> QED BY <2>1, <2>2, <2>3, <2>4, Sizes DEF RingInv, RingTypes, TodoOK, TypeOK, HandlerSteps,
             AllocatorSteps
<1> QED BY <1>1, RingHolds, PTL

\* The ring has room for what is lent: with the driver's sizes (256 or more, 8, 2
\* and 8) there is far more of it than needed.
Headroom == Claim + Post + Chunk <= Size - (Size \div 2) + 1

\* The device has buffers whenever iwl_pcie_rx_handle returns, whatever the stack
\* keeps and however late the allocator runs: the emergency begins in time, as
\* long as half the ring is more than a batch, a request and a step of the write
\* pointer.
THEOREM DeviceNeverStarved == Atomic /\ Headroom => (Spec => []NeverStarved)
<1> SUFFICES ASSUME Atomic, Headroom PROVE Spec => []NeverStarved
  OBVIOUS
<1>1. Claim <= Size
  BY Batches, Sizes DEF Headroom
<1>2. BatchInv /\ RingInv => NeverStarved
  <2> SUFFICES ASSUME BatchInv, RingInv, hpc = "idle" PROVE ring - lag > 0
    BY DEF NeverStarved
  <2>1. ~emergency /\ used_count \in Nat
    BY DEF BatchInv, AccountInv, EmergencyOK, Numbers
  <2>2. ring \in Nat /\ lag \in 0 .. Chunk - 1 /\ free_count \in Nat
    BY Sizes DEF RingInv, RingTypes
  <2>3. ring + free_count + used_count = Size /\ used_count <= MostLent
    <3>1. ring + free_count + used_count = Size
      BY <2>1, <2>2 DEF RingInv, Kept
    <3>2. MostLent \in Int
      BY Batches, Sizes DEF MostLent
    <3>3. used_count <= MostLent + 0
      BY <2>1 DEF RingInv, LentOK, One
    <3> QED BY <2>1, <3>1, <3>2, <3>3
  <2>4. ring = Size - 1 \/ free_count = 0
    BY DEF RingInv, RestockedOK
  <2> QED BY <2>1, <2>2, <2>3, <2>4, Batches, Sizes DEF Headroom, MostLent
<1>3. Spec => [](BatchInv /\ RingInv)
  BY <1>1, RingHolds
<1> QED BY <1>2, <1>3, PTL
=============================================================================

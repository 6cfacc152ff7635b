-------------------------- MODULE WorkqueueProofs --------------------------
(***************************************************************************)
(* The workqueue's list stays whole, for any number of items and threads,   *)
(* as long as each item is queued from one thread.  Delayed items keep it   *)
(* so as long as none is modified while it waits.  Either way the list is a *)
(* queue: what is added is run once, in its order.                          *)
(***************************************************************************)
EXTENDS DelayedWork, TLAPS, FiniteSetTheorems

\* A submitter inside queue_work_on holds an item it may queue.  Between the
\* two halves of test_and_set_bit the bit it read clear is still clear: only
\* this thread sets it.
CallOK ==
    \A t \in Submitters :
        /\ pc[t] # "idle" => <<t, arg[t]>> \in Submits
        /\ pc[t] = "set" /\ ~was[t] => arg[t] \notin pending

IInv ==
    /\ TypeOK
    /\ RingOK
    /\ CursorOK
    /\ CallOK
    /\ PendingCoversQueued
    /\ NoDoubleAdd

-----------------------------------------------------------------------------
(* list.h on a whole ring *)

ListType == next \in [Node -> Node \cup {Poison}] /\ prev \in [Node -> Node \cup {Poison}]

\* Adding an unlinked item at the tail keeps the ring and adds just that item.
LEMMA AddTailKeepsRing ==
    ASSUME ListType, RingOK, NEW w \in Works, ~Linked(w), ListAddTail(w)
    PROVE  /\ ListType'
           /\ \A x \in Works : Linked(x)' <=> Linked(x) \/ x = w
           /\ RingOK'
           /\ next'[Head] = IF next[Head] = Head THEN w ELSE next[Head]
           /\ \A x \in Ring \ {Head} : next'[x] = next[x] \/ next[x] = Head
<1> DEFINE last == prev[Head]
<1>1. last \in Ring /\ next[last] = Head /\ last # w /\ w # Head /\ last \in Node
  BY ConstantsAssumption DEF RingOK, Ring, ListType, Node
<1>2. /\ next' = [next EXCEPT ![w] = Head, ![last] = w]
      /\ prev' = [prev EXCEPT ![Head] = w, ![w] = last]
  BY DEF ListAddTail
<1>3. /\ next'[w] = Head /\ next'[last] = w
      /\ prev'[Head] = w /\ prev'[w] = last
      /\ \A x \in Node \ {w, last} : next'[x] = next[x]
      /\ \A x \in Node \ {w, Head} : prev'[x] = prev[x]
  BY <1>1, <1>2 DEF ListType, Node
<1>4. ListType'
  BY <1>1, <1>2 DEF ListType, Node
<1>5. \A x \in Works : Linked(x)' <=> Linked(x) \/ x = w
  <2> SUFFICES ASSUME NEW x \in Works PROVE Linked(x)' <=> Linked(x) \/ x = w
    OBVIOUS
  <2>1. CASE x = w
    BY <2>1, <1>1, <1>3, ConstantsAssumption DEF Linked, Node
  <2>2. CASE x = last
    BY <2>2, <1>1, <1>3, ConstantsAssumption DEF Linked, Ring, Node
  <2>3. CASE x # w /\ x # last
    BY <2>3, <1>3 DEF Linked, Node
  <2> QED BY <2>1, <2>2, <2>3
<1>6. Ring' = Ring \cup {w}
  BY <1>5 DEF Ring
<1>7. RingOK'
  <2> SUFFICES ASSUME NEW n \in Ring \cup {w}
               PROVE  /\ next'[n] \in Ring \cup {w} /\ prev'[next'[n]] = n
                      /\ prev'[n] \in Ring \cup {w} /\ next'[prev'[n]] = n
    BY <1>6 DEF RingOK
  <2>1. CASE n = w
    BY <2>1, <1>1, <1>3 DEF Ring
  <2>2. ASSUME n # w PROVE next'[n] \in Ring \cup {w} /\ prev'[next'[n]] = n
    <3>1. CASE n = last
      BY <3>1, <1>3
    <3>2. CASE n # last
      <4>1. n \in Node /\ next[n] \in Ring /\ next[n] \in Node /\ prev[next[n]] = n
        BY <2>2 DEF RingOK, Ring, Node
      <4>2. next[n] # Head /\ next[n] # w
        BY <4>1, <3>2 DEF Ring
      <4> QED BY <4>1, <4>2, <2>2, <3>2, <1>3
    <3> QED BY <3>1, <3>2
  <2>3. ASSUME n # w PROVE prev'[n] \in Ring \cup {w} /\ next'[prev'[n]] = n
    <3>1. CASE n = Head
      BY <3>1, <1>3
    <3>2. CASE n # Head
      <4>1. n \in Node /\ prev[n] \in Ring /\ prev[n] \in Node /\ next[prev[n]] = n
        BY <2>3 DEF RingOK, Ring, Node
      <4>2. prev[n] # last /\ prev[n] # w
        BY <4>1, <3>2, <1>1 DEF Ring
      <4> QED BY <4>1, <4>2, <2>3, <3>2, <1>3
    <3> QED BY <3>1, <3>2
  <2> QED BY <2>1, <2>2, <2>3
<1>8. next'[Head] = IF next[Head] = Head THEN w ELSE next[Head]
  <2>1. next[Head] = Head <=> last = Head
    BY <1>1 DEF RingOK, Ring
  <2> QED BY <2>1, <1>1, <1>3 DEF Node
<1>9. \A x \in Ring \ {Head} : next'[x] = next[x] \/ next[x] = Head
  BY <1>1, <1>3 DEF Ring, Node
<1> QED BY <1>4, <1>5, <1>7, <1>8, <1>9

\* Unlinking the oldest item keeps the ring of the others.
LEMMA DelFirstKeepsRing ==
    ASSUME ListType, RingOK, NEW w \in Works, w = next[Head], ListDel(w)
    PROVE  /\ ListType'
           /\ \A x \in Works : Linked(x)' <=> Linked(x) /\ x # w
           /\ RingOK'
           /\ next'[Head] = next[w]
<1> DEFINE second == next[w]
<1>1. /\ w \in Ring /\ w # Head /\ prev[w] = Head /\ prev[second] = w
      /\ second \in Ring /\ second # w /\ second \in Node /\ w \in Node /\ Head \in Node
  <2>1. w \in Ring /\ w # Head /\ prev[w] = Head /\ prev[second] = w /\ second \in Ring
    BY ConstantsAssumption DEF RingOK, Ring, Node
  <2>2. second # w
    BY <2>1 DEF Ring, Linked
  <2> QED BY <2>1, <2>2 DEF Ring, Node
<1>2. /\ next' = [next EXCEPT ![Head] = second, ![w] = Poison]
      /\ prev' = [prev EXCEPT ![second] = Head, ![w] = Poison]
  BY <1>1 DEF ListDel
<1>3. /\ next'[Head] = second /\ next'[w] = Poison
      /\ prev'[second] = Head /\ prev'[w] = Poison
      /\ \A x \in Node \ {w, Head} : next'[x] = next[x]
      /\ \A x \in Node \ {w, second} : prev'[x] = prev[x]
  BY <1>1, <1>2 DEF ListType
<1>4. ListType'
  BY <1>1, <1>2 DEF ListType
<1>5. \A x \in Works : Linked(x)' <=> Linked(x) /\ x # w
  BY <1>1, <1>3, ConstantsAssumption DEF Linked, Node
<1>6. Ring' = Ring \ {w}
  BY <1>1, <1>5 DEF Ring
<1>7. RingOK'
  <2> SUFFICES ASSUME NEW n \in Ring, n # w
               PROVE  /\ next'[n] \in Ring \ {w} /\ prev'[next'[n]] = n
                      /\ prev'[n] \in Ring \ {w} /\ next'[prev'[n]] = n
    BY <1>6 DEF RingOK
  <2>0. n \in Node
    BY DEF Ring, Node
  <2>1. next'[n] \in Ring \ {w} /\ prev'[next'[n]] = n
    <3>1. CASE n = Head
      BY <3>1, <1>1, <1>3
    <3>2. CASE n # Head
      <4>1. next[n] \in Ring /\ prev[next[n]] = n /\ next[n] \in Node
        BY DEF RingOK, Ring, Node
      <4>2. next[n] # w /\ next[n] # second
        BY <4>1, <3>2, <1>1
      <4> QED BY <4>1, <4>2, <3>2, <2>0, <1>3
    <3> QED BY <3>1, <3>2
  <2>2. prev'[n] \in Ring \ {w} /\ next'[prev'[n]] = n
    <3>1. CASE n = second
      BY <3>1, <1>1, <1>3 DEF Ring
    <3>2. CASE n # second
      <4>1. prev[n] \in Ring /\ next[prev[n]] = n /\ prev[n] \in Node
        BY DEF RingOK, Ring, Node
      <4>2. prev[n] # w /\ prev[n] # Head
        BY <4>1, <3>2
      <4> QED BY <4>1, <4>2, <3>2, <2>0, <1>3
    <3> QED BY <3>1, <3>2
  <2> QED BY <2>1, <2>2
<1> QED BY <1>3, <1>4, <1>5, <1>7

-----------------------------------------------------------------------------
(* The inductive invariant.                                                  *)
(*                                                                           *)
(* NoDoubleAdd is not inductive: what makes it so is that the PENDING bit    *)
(* covers everything listed or about to be (PendingCoversQueued), that       *)
(* nobody can set the bit between the two halves of a thread's               *)
(* test_and_set_bit on it (CallOK, which is where SingleSubmitter is used),  *)
(* and that the worker clears the bit only of an item that is on the list    *)
(* and is the first there (RingOK, CursorOK), and so of none being added.    *)

\* INIT_LIST_HEAD in alloc_workqueue establishes the invariant: an empty ring,
\* every bit clear, nobody inside queue_work_on.
LEMMA InitIInv == Init => IInv
<1> SUFFICES ASSUME Init PROVE IInv
  OBVIOUS
<1> USE ConstantsAssumption DEF Init
<1>1. \A w \in Works : ~Linked(w)
  BY DEF Linked, Node
<1>2. TypeOK
  BY DEF TypeOK, Node, Submitters
<1>3. RingOK
  BY <1>1 DEF RingOK, Ring, Node
<1>4. CursorOK
  BY DEF CursorOK
<1>5. CallOK
  BY DEF CallOK
<1>6. PendingCoversQueued
  BY <1>1 DEF PendingCoversQueued
<1>7. NoDoubleAdd
  BY DEF NoDoubleAdd
<1> QED BY <1>2, <1>3, <1>4, <1>5, <1>6, <1>7 DEF IInv

\* The steps that leave the list and the worker's cursors alone.
LEMMA ListUnchanged ==
    ASSUME RingOK, CursorOK, UNCHANGED listVars, UNCHANGED workerVars
    PROVE  /\ RingOK' /\ CursorOK'
           /\ \A w \in Works : Linked(w)' <=> Linked(w)
BY DEF RingOK, Ring, Linked, CursorOK, listVars, workerVars

\* Reading the PENDING bit in queue_work_on keeps the invariant: the bit that
\* is read clear belongs to an item that is neither listed nor held.
LEMMA TestBitIInv ==
    ASSUME IInv, NEW t \in Submitters, NEW w \in Works, TestBit(t, w) PROVE IInv'
<1>0. /\ pc[t] = "idle" /\ <<t, w>> \in Submits
      /\ pc' = [pc EXCEPT ![t] = "set"] /\ arg' = [arg EXCEPT ![t] = w]
      /\ was' = [was EXCEPT ![t] = w \in pending]
      /\ UNCHANGED listVars /\ pending' = pending /\ UNCHANGED workerVars
      /\ pc \in [Submitters -> {"idle", "set", "add"}]
      /\ arg \in [Submitters -> Works] /\ was \in [Submitters -> BOOLEAN]
  BY DEF TestBit, MayCall, IInv, TypeOK
<1>1. TypeOK'
  BY <1>0 DEF IInv, TypeOK, listVars, workerVars
<1>2. RingOK' /\ CursorOK' /\ \A x \in Works : Linked(x)' <=> Linked(x)
  BY <1>0, ListUnchanged DEF IInv
<1>3. CallOK'
  <2> SUFFICES ASSUME NEW u \in Submitters
               PROVE  /\ pc'[u] # "idle" => <<u, arg'[u]>> \in Submits
                      /\ pc'[u] = "set" /\ ~was'[u] => arg'[u] \notin pending'
    BY DEF CallOK
  <2>1. CASE u = t
    BY <2>1, <1>0
  <2>2. CASE u # t
    BY <2>2, <1>0 DEF IInv, CallOK
  <2> QED BY <2>1, <2>2
<1>4. \A u \in Submitters : pc'[u] = "add" => u # t /\ pc[u] = "add" /\ arg'[u] = arg[u]
  BY <1>0
<1>5. PendingCoversQueued'
  BY <1>0, <1>2, <1>4 DEF IInv, PendingCoversQueued
<1>6. NoDoubleAdd'
  <2>1. \A u \in Submitters : arg[u] \in Works
    BY <1>0
  <2> QED BY <2>1, <1>2, <1>4 DEF IInv, NoDoubleAdd
<1> QED BY <1>1, <1>2, <1>3, <1>5, <1>6 DEF IInv

\* Setting the PENDING bit keeps the invariant: under SingleSubmitter the bit
\* that was read clear is still clear.
LEMMA SetBitIInv ==
    ASSUME SingleSubmitter, IInv, NEW t \in Submitters, SetBit(t) PROVE IInv'
<1>0. /\ pc[t] = "set" /\ pending' = pending \cup {arg[t]}
      /\ pc' = [pc EXCEPT ![t] = IF was[t] THEN "idle" ELSE "add"]
      /\ was' = [was EXCEPT ![t] = FALSE]
      /\ UNCHANGED listVars /\ arg' = arg /\ UNCHANGED workerVars
      /\ pc \in [Submitters -> {"idle", "set", "add"}]
      /\ arg \in [Submitters -> Works] /\ was \in [Submitters -> BOOLEAN]
      /\ pending \subseteq Works
  BY DEF SetBit, IInv, TypeOK
<1>1. TypeOK'
  BY <1>0 DEF IInv, TypeOK, listVars, workerVars
<1>2. RingOK' /\ CursorOK' /\ \A x \in Works : Linked(x)' <=> Linked(x)
  BY <1>0, ListUnchanged DEF IInv
<1>3. CallOK'
  <2> SUFFICES ASSUME NEW u \in Submitters
               PROVE  /\ pc'[u] # "idle" => <<u, arg[u]>> \in Submits
                      /\ pc'[u] = "set" /\ ~was[u] => arg[u] \notin pending'
    <3>1. \A v \in Submitters : v # t => was'[v] = was[v]
      BY <1>0
    <3>2. pc'[t] # "set"
      BY <1>0
    <3> QED BY <3>1, <3>2, <1>0 DEF CallOK
  <2>1. CASE u = t
    BY <2>1, <1>0 DEF IInv, CallOK
  <2>2. CASE u # t
    <3>1. pc'[u] = pc[u]
      BY <2>2, <1>0
    <3>2. pc[u] = "set" => arg[u] # arg[t]
      BY <2>2, <1>0 DEF IInv, CallOK, SingleSubmitter
    <3> QED BY <3>1, <3>2, <1>0 DEF IInv, CallOK
  <2> QED BY <2>1, <2>2
<1>4. \A u \in Submitters : pc'[u] = "add" =>
          \/ u # t /\ pc[u] = "add"
          \/ u = t /\ ~was[t]
  BY <1>0
<1>5. PendingCoversQueued'
  BY <1>0, <1>2, <1>4 DEF IInv, PendingCoversQueued
<1>6. ~was[t] => /\ ~Linked(arg[t])
                 /\ \A u \in Submitters : pc[u] = "add" => arg[u] # arg[t]
  BY <1>0 DEF IInv, CallOK, PendingCoversQueued
<1>7. NoDoubleAdd'
  <2> SUFFICES ASSUME NEW u \in Submitters, pc'[u] = "add"
               PROVE  /\ ~Linked(arg[u])
                      /\ \A v \in Submitters \ {u} : pc'[v] = "add" => arg[v] # arg[u]
    <3>1. \A u \in Submitters : arg[u] \in Works
      BY <1>0
    <3> QED BY <3>1, <1>0, <1>2 DEF NoDoubleAdd
  <2>1. ~Linked(arg[u])
    BY <1>4, <1>6 DEF IInv, NoDoubleAdd
  <2>2. ASSUME NEW v \in Submitters \ {u}, pc'[v] = "add" PROVE arg[v] # arg[u]
    <3>1. CASE u # t /\ v # t
      BY <3>1, <2>2, <1>4 DEF IInv, NoDoubleAdd
    <3>2. CASE u = t
      BY <3>2, <2>2, <1>4, <1>6
    <3>3. CASE v = t
      BY <3>3, <2>2, <1>4, <1>6
    <3> QED BY <3>1, <3>2, <3>3
  <2> QED BY <2>1, <2>2
<1> QED BY <1>1, <1>2, <1>3, <1>5, <1>7 DEF IInv

\* __queue_work keeps the invariant: the item it adds is not on the list.
LEMMA QueueWorkIInv ==
    ASSUME IInv, NEW t \in Submitters, QueueWork(t) PROVE IInv'
<1> DEFINE w == arg[t]
<1>0. /\ pc[t] = "add" /\ ListAddTail(w)
      /\ wpc' = IF wpc = "asleep" THEN "scan" ELSE wpc
      /\ pc' = [pc EXCEPT ![t] = "idle"]
      /\ pending' = pending /\ arg' = arg /\ was' = was /\ pos' = pos /\ nxt' = nxt
      /\ pc \in [Submitters -> {"idle", "set", "add"}]
      /\ arg \in [Submitters -> Works]
      /\ wpc \in {"scan", "take", "func", "wait", "asleep"}
  BY DEF QueueWork, IInv, TypeOK
<1>1. w \in Works /\ ~Linked(w) /\ ListType /\ RingOK
  BY <1>0 DEF IInv, NoDoubleAdd, TypeOK, ListType
<1>2. /\ ListType'
      /\ \A x \in Works : Linked(x)' <=> Linked(x) \/ x = w
      /\ RingOK'
      /\ next'[Head] = IF next[Head] = Head THEN w ELSE next[Head]
      /\ \A x \in Ring \ {Head} : next'[x] = next[x] \/ next[x] = Head
  BY <1>0, <1>1, AddTailKeepsRing
<1>3. TypeOK'
  BY <1>0, <1>2 DEF IInv, TypeOK, ListType
<1>4. CursorOK'
  <2>1. ASSUME wpc' = "take" PROVE pos' = next'[Head] /\ nxt' \in {Head, next'[pos']}
    <3>1. wpc = "take" /\ pos = next[Head] /\ nxt \in {Head, next[pos]} /\ pos \in Works
      BY <2>1, <1>0 DEF IInv, CursorOK, TypeOK
    <3>2. pos \in Ring \ {Head}
      BY <3>1, <1>1, ConstantsAssumption DEF RingOK, Ring
    <3> QED BY <3>1, <3>2, <1>0, <1>2
  <2>2. ASSUME wpc' = "func" PROVE nxt' \in {Head, next'[Head]}
    BY <2>2, <1>0, <1>2 DEF IInv, CursorOK
  <2> QED BY <2>1, <2>2 DEF CursorOK
<1>5. CallOK'
  BY <1>0 DEF IInv, CallOK
<1>6. \A u \in Submitters : pc'[u] = "add" => u # t /\ pc[u] = "add"
  BY <1>0
<1>7. PendingCoversQueued'
  BY <1>0, <1>1, <1>2, <1>6 DEF IInv, PendingCoversQueued
<1>8. NoDoubleAdd'
  <2>1. \A u \in Submitters : arg[u] \in Works
    BY <1>0
  <2> QED BY <2>1, <1>0, <1>2, <1>6 DEF IInv, NoDoubleAdd
<1> QED BY <1>2, <1>3, <1>4, <1>5, <1>7, <1>8 DEF IInv

\* The entry after an item on the ring is not the item itself.
LEMMA NextOnRing ==
    ASSUME RingOK, NEW n \in Ring
    PROVE  next[n] \in Ring /\ next[n] \in Node /\ (n # Head => n \in Works /\ next[n] # n)
BY DEF RingOK, Ring, Linked, Node

\* The worker's step to the entry it saved keeps the invariant.
LEMMA WalkIInv ==
    ASSUME IInv, Scan \/ FuncReturn PROVE IInv'
<1>0. UNCHANGED <<listVars, pending, submitVars>>
  BY DEF Scan, FuncReturn
<1>1. \A x \in Works : Linked(x)' <=> Linked(x)
  BY <1>0 DEF Linked, listVars
<1>2. /\ wpc' = IF pos' = Head THEN "wait" ELSE "take"
      /\ pos' = next[Head] \/ pos' = Head
      /\ nxt' = next[pos'] /\ pos' \in Ring
  <2>1. next[Head] \in Ring /\ Head \in Ring
    BY DEF IInv, RingOK, Ring
  <2> QED BY <2>1 DEF Scan, FuncReturn, Visit, IInv, CursorOK
<1>3. TypeOK'
  <2>1. pos' \in Node /\ nxt' \in Node /\ (pos' # Head => pos' \in Works)
    BY <1>2, NextOnRing DEF IInv, Ring, Node
  <2> QED BY <2>1, <1>0, <1>2 DEF IInv, TypeOK, listVars, submitVars
<1>4. RingOK' /\ CursorOK'
  BY <1>0, <1>2 DEF IInv, RingOK, Ring, Linked, CursorOK, listVars
<1>5. CallOK' /\ PendingCoversQueued' /\ NoDoubleAdd'
  BY <1>0, <1>1 DEF IInv, CallOK, PendingCoversQueued, NoDoubleAdd, Linked, listVars, submitVars
<1> QED BY <1>3, <1>4, <1>5 DEF IInv

\* Unlinking an item, clearing its bit and calling its function keep the
\* invariant: the item is the oldest on the ring.
LEMMA TakeIInv ==
    ASSUME IInv, Take PROVE IInv'
<1>0. /\ wpc = "take" /\ ListDel(pos) /\ pending' = pending \ {pos} /\ wpc' = "func"
      /\ UNCHANGED submitVars /\ pos' = pos /\ nxt' = nxt
  BY DEF Take
<1>1. pos \in Works /\ pos = next[Head] /\ nxt \in {Head, next[pos]} /\ ListType /\ RingOK
  BY <1>0 DEF IInv, TypeOK, CursorOK, ListType
<1>2. /\ ListType'
      /\ \A x \in Works : Linked(x)' <=> Linked(x) /\ x # pos
      /\ RingOK'
      /\ next'[Head] = next[pos]
  BY <1>0, <1>1, DelFirstKeepsRing
<1>3. Linked(pos)
  <2>1. next[Head] \in Ring /\ Head \notin Works
    BY <1>1, ConstantsAssumption DEF RingOK, Ring
  <2> QED BY <2>1, <1>1 DEF Ring
<1>4. TypeOK'
  BY <1>0, <1>1, <1>2 DEF IInv, TypeOK, ListType, submitVars
<1>5. CursorOK'
  BY <1>0, <1>1, <1>2 DEF CursorOK
<1>6. CallOK'
  BY <1>0 DEF IInv, CallOK, submitVars
<1>7. \A u \in Submitters : pc[u] = "add" => arg[u] # pos
  BY <1>3 DEF IInv, NoDoubleAdd
<1>8. PendingCoversQueued'
  BY <1>0, <1>2, <1>7 DEF IInv, PendingCoversQueued, submitVars
<1>9. NoDoubleAdd'
  <2>1. \A u \in Submitters : arg[u] \in Works
    BY DEF IInv, TypeOK
  <2> QED BY <2>1, <1>0, <1>2 DEF IInv, NoDoubleAdd, submitVars
<1> QED BY <1>2, <1>4, <1>5, <1>6, <1>8, <1>9 DEF IInv

\* workqueue_cond_wait, and a signal that ends it, keep the invariant.
LEMMA CondWaitIInv ==
    ASSUME IInv, CondWait \/ UNCHANGED vars PROVE IInv'
<1>0. /\ UNCHANGED <<listVars, pending, submitVars, pos, nxt>>
      /\ wpc' = "asleep" \/ wpc' = wpc
  BY DEF CondWait, vars, listVars, submitVars
<1>1. TypeOK'
  BY <1>0 DEF IInv, TypeOK, listVars, submitVars
<1>2. RingOK' /\ CursorOK'
  BY <1>0 DEF IInv, RingOK, Ring, Linked, CursorOK, listVars
<1>3. CallOK' /\ PendingCoversQueued' /\ NoDoubleAdd'
  BY <1>0 DEF IInv, CallOK, PendingCoversQueued, NoDoubleAdd, Linked, listVars, submitVars
<1> QED BY <1>1, <1>2, <1>3 DEF IInv

\* The strengthening, inductive under SingleSubmitter.
THEOREM IInvHolds == SingleSubmitter => (Spec => []IInv)
<1> SUFFICES ASSUME SingleSubmitter PROVE Spec => []IInv
  OBVIOUS
<1>1. Init => IInv
  BY InitIInv
<1>2. IInv /\ [Next]_vars => IInv'
  <2> SUFFICES ASSUME IInv, [Next]_vars PROVE IInv'
    OBVIOUS
  <2>1. ASSUME NEW t \in Submitters, Submit(t) PROVE IInv'
    BY <2>1, TestBitIInv, SetBitIInv, QueueWorkIInv DEF Submit
  <2>2. CASE WorkerStep
    BY <2>2, WalkIInv, TakeIInv, CondWaitIInv DEF WorkerStep
  <2>3. CASE UNCHANGED vars
    BY <2>3, CondWaitIInv
  <2> QED BY <2>1, <2>2, <2>3 DEF Next
<1> QED BY <1>1, <1>2, PTL DEF Spec

\* queue_work_run only ever unlinks and runs an item, whatever is queued.
THEOREM TypeCorrect == SingleSubmitter => (Spec => []TypeOK)
<1>1. IInv => TypeOK
  BY DEF IInv
<1> QED BY <1>1, IInvHolds, PTL

\* No thread ever gives list_add_tail an item that is on the list, or that
\* another thread is about to add.
THEOREM NeverAddedTwice == SingleSubmitter => (Spec => []NoDoubleAdd)
<1>1. IInv => NoDoubleAdd
  BY DEF IInv
<1> QED BY <1>1, IInvHolds, PTL

\* An item queue_work_on would accept is never on the list already.
THEOREM PendingNeverBehind == SingleSubmitter => (Spec => []PendingCoversQueued)
<1>1. IInv => PendingCoversQueued
  BY DEF IInv
<1> QED BY <1>1, IInvHolds, PTL

\* The list is a ring whenever a thread or the worker looks at it.
THEOREM ListNeverCorrupted == SingleSubmitter => (Spec => []RingOK)
<1>1. IInv => RingOK
  BY DEF IInv
<1> QED BY <1>1, IInvHolds, PTL

\* The unlocked walk of queue_work_run stays on the list.
THEOREM WalkStaysOnList == SingleSubmitter => (Spec => []CursorOK)
<1>1. IInv => CursorOK
  BY DEF IInv
<1> QED BY <1>1, IInvHolds, PTL

-----------------------------------------------------------------------------
(* Delayed items                                                           *)

Sq == INSTANCE Sequences

\* Each item is queued from one thread, and mod_delayed_work_on finds its item idle.
\* mvm/tdls.c, net/mac80211/offchannel.c and net/wireless/reg.c do not see to the
\* second: they modify items whose timer may be set, and what is proved here is then
\* false (OneQueueing is violated, and NoDoubleAdd after it).
Disciplined == SingleSubmitter /\ ModFrom \subseteq {"idle"}

\* The thread is past test_and_set_bit with the item: it will add it to the list
\* or set its timer.
Carries(t, w) == pc[t] \in {"add", "arm"} /\ arg[t] = w

\* Between the two halves of test_and_set_bit a thread holds an item it may
\* queue, whose bit is still clear if it was read clear.  mod_delayed_work_on,
\* which goes on whatever it has read, has read it clear.
DCallOK ==
    \A t \in Submitters :
        /\ pc[t] = "set" => <<t, arg[t]>> \in Submits
        /\ pc[t] = "set" /\ ~was[t] => arg[t] \notin pending
        /\ pc[t] = "arm" => arg[t] \in Delayed
        /\ mod[t] => pc[t] = "set" /\ ~was[t] /\ arg[t] \in Delayed

\* An item is listed, on its timer or carried, one of them, and PENDING if it is
\* any.
Exclusive ==
    \A w \in Works :
        /\ Linked(w) => w \notin armed /\ w \in pending
        /\ w \in armed => w \in pending
        /\ \A t \in Submitters : Carries(t, w) =>
              /\ ~Linked(w) /\ w \notin armed /\ w \in pending
              /\ \A u \in Submitters \ {t} : ~Carries(u, w)

DInv ==
    /\ DTypeOK
    /\ RingOK
    /\ CursorOK
    /\ DCallOK
    /\ Exclusive

-----------------------------------------------------------------------------
\* No thread adds an item that is listed or that another thread is adding.
LEMMA NoDoubleAddFromExclusive == DTypeOK /\ Exclusive => NoDoubleAdd
BY DEF DTypeOK, Exclusive, Carries, NoDoubleAdd

\* alloc_workqueue, INIT_DELAYED_WORK and timer_setup establish the invariant.
LEMMA InitDInv == DInit => DInv
<1> SUFFICES ASSUME DInit PROVE DInv
  OBVIOUS
<1> USE ConstantsAssumption, DelayedAssumption
<1>1. \A w \in Works : ~Linked(w)
  BY DEF DInit, Init, Linked, Node
<1>2. DTypeOK
  BY DEF DInit, Init, DTypeOK, Node, Submitters
<1>3. RingOK /\ CursorOK
  BY <1>1 DEF DInit, Init, RingOK, CursorOK, Ring, Node
<1>4. DCallOK /\ Exclusive
  BY <1>1 DEF DInit, Init, DCallOK, Exclusive, Carries
<1> QED BY <1>2, <1>3, <1>4 DEF DInv

\* The first half of test_and_set_bit, of queue_work_on and of both delayed
\* forms: the item read clear is in none of the places, and nothing moves.
LEMMA TestBitDInv ==
    ASSUME Disciplined, DInv, NEW t \in Submitters, NEW w \in Works, TestBit(t, w),
           armed' = armed,
           NEW m \in BOOLEAN, mod' = mod \/ mod' = [mod EXCEPT ![t] = m],
           m => w \in Delayed /\ Place(w) \in ModFrom,
           NEW d \in {0, 1}, delay' = delay \/ delay' = [delay EXCEPT ![t] = d]
    PROVE  DInv'
<1>0. /\ pc[t] = "idle" /\ <<t, w>> \in Submits
      /\ pc' = [pc EXCEPT ![t] = "set"] /\ arg' = [arg EXCEPT ![t] = w]
      /\ was' = [was EXCEPT ![t] = w \in pending]
      /\ UNCHANGED listVars /\ pending' = pending /\ UNCHANGED workerVars
      /\ pc \in [Submitters -> {"idle", "set", "add", "arm"}]
      /\ arg \in [Submitters -> Works] /\ was \in [Submitters -> BOOLEAN]
      /\ mod \in [Submitters -> BOOLEAN] /\ delay \in [Submitters -> {0, 1}]
  BY DEF TestBit, MayCall, DInv, DTypeOK
<1>1. DTypeOK'
  BY <1>0 DEF DInv, DTypeOK, listVars, workerVars
<1>2. RingOK' /\ CursorOK' /\ \A x \in Works : Linked(x)' <=> Linked(x)
  BY <1>0, ListUnchanged DEF DInv
<1>3. \A u \in Submitters \ {t} :
          pc'[u] = pc[u] /\ arg'[u] = arg[u] /\ was'[u] = was[u] /\ mod'[u] = mod[u]
  BY <1>0
<1>4. /\ pc'[t] = "set" /\ arg'[t] = w /\ (was'[t] <=> w \in pending)
      /\ mod'[t] => w \in Delayed /\ w \notin pending
  <2>1. pc'[t] = "set" /\ arg'[t] = w /\ (was'[t] <=> w \in pending) /\ ~mod[t]
    BY <1>0 DEF DInv, DCallOK
  <2>2. Place(w) \in ModFrom => w \notin pending
    BY DEF Disciplined, Place
  <2> QED BY <2>1, <2>2, <1>0
<1>5. DCallOK'
  <2> SUFFICES ASSUME NEW u \in Submitters
               PROVE  /\ pc'[u] = "set" => <<u, arg'[u]>> \in Submits
                      /\ pc'[u] = "set" /\ ~was'[u] => arg'[u] \notin pending'
                      /\ pc'[u] = "arm" => arg'[u] \in Delayed
                      /\ mod'[u] => pc'[u] = "set" /\ ~was'[u] /\ arg'[u] \in Delayed
    BY DEF DCallOK
  <2>1. CASE u = t
    BY <2>1, <1>0, <1>4
  <2>2. CASE u # t
    BY <2>2, <1>0, <1>3 DEF DInv, DCallOK
  <2> QED BY <2>1, <2>2
<1>6. \A u \in Submitters, x \in Works : Carries(u, x)' => Carries(u, x)
  BY <1>3, <1>4 DEF Carries
<1>7. Exclusive'
  BY <1>0, <1>2, <1>6 DEF DInv, Exclusive
<1> QED BY <1>1, <1>2, <1>5, <1>7 DEF DInv

\* The second half, whether it goes on to link the item, to set its timer or to
\* return: the item it goes on with was in none of the places.
LEMMA SetBitDInv ==
    ASSUME Disciplined, DInv, NEW t \in Submitters, pc[t] = "set",
           pending' = pending \cup {arg[t]},
           was' = [was EXCEPT ![t] = FALSE],
           UNCHANGED <<listVars, arg, workerVars, armed>>,
           NEW to \in {"idle", "add", "arm"}, pc' = [pc EXCEPT ![t] = to],
           to # "idle" => ~was[t],
           to = "arm" => arg[t] \in Delayed,
           mod' = [mod EXCEPT ![t] = FALSE],
           delay' = [delay EXCEPT ![t] = 0] \/ delay' = delay
    PROVE  DInv'
<1>0. /\ UNCHANGED listVars /\ arg' = arg /\ UNCHANGED workerVars /\ armed' = armed
      /\ pc \in [Submitters -> {"idle", "set", "add", "arm"}]
      /\ arg \in [Submitters -> Works] /\ was \in [Submitters -> BOOLEAN]
      /\ mod \in [Submitters -> BOOLEAN] /\ delay \in [Submitters -> {0, 1}]
      /\ pending \subseteq Works
  BY DEF DInv, DTypeOK
<1>1. DTypeOK'
  BY <1>0 DEF DInv, DTypeOK, listVars, workerVars
<1>2. RingOK' /\ CursorOK' /\ \A x \in Works : Linked(x)' <=> Linked(x)
  BY <1>0, ListUnchanged DEF DInv
<1>3. /\ \A u \in Submitters \ {t} : pc'[u] = pc[u] /\ was'[u] = was[u] /\ mod'[u] = mod[u]
      /\ pc'[t] = to /\ ~mod'[t]
  BY <1>0
<1>4. DCallOK'
  <2> SUFFICES ASSUME NEW u \in Submitters
               PROVE  /\ pc'[u] = "set" => <<u, arg[u]>> \in Submits
                      /\ pc'[u] = "set" /\ ~was'[u] => arg[u] \notin pending'
                      /\ pc'[u] = "arm" => arg[u] \in Delayed
                      /\ mod'[u] => pc'[u] = "set" /\ ~was'[u] /\ arg[u] \in Delayed
    BY <1>0 DEF DCallOK
  <2>1. CASE u = t
    BY <2>1, <1>3
  <2>2. CASE u # t
    <3>1. pc[u] = "set" => arg[u] # arg[t]
      BY <2>2, <1>0 DEF DInv, DCallOK, Disciplined, SingleSubmitter
    <3> QED BY <2>2, <3>1, <1>3 DEF DInv, DCallOK
  <2> QED BY <2>1, <2>2
<1>5. \A u \in Submitters, x \in Works :
          Carries(u, x)' => Carries(u, x) \/ (u = t /\ x = arg[t] /\ arg[t] \notin pending)
  BY <1>0, <1>3 DEF Carries, DInv, DCallOK
<1>6. Exclusive'
  <2> SUFFICES ASSUME NEW w \in Works
               PROVE  /\ Linked(w) => w \notin armed /\ w \in pending'
                      /\ w \in armed => w \in pending'
                      /\ \A u \in Submitters : Carries(u, w)' =>
                            /\ ~Linked(w) /\ w \notin armed /\ w \in pending'
                            /\ \A v \in Submitters \ {u} : ~Carries(v, w)'
    BY <1>0, <1>2 DEF Exclusive
  <2>1. /\ Linked(w) => w \notin armed /\ w \in pending'
        /\ w \in armed => w \in pending'
    BY DEF DInv, Exclusive
  <2>2. ASSUME NEW u \in Submitters, Carries(u, w)'
        PROVE  /\ ~Linked(w) /\ w \notin armed /\ w \in pending'
               /\ \A v \in Submitters \ {u} : ~Carries(v, w)'
    <3>1. CASE w = arg[t] /\ arg[t] \notin pending
      <4>1. \A v \in Submitters : ~Carries(v, w)
        BY <3>1 DEF DInv, Exclusive
      <4> QED BY <2>2, <3>1, <4>1, <1>5 DEF DInv, Exclusive
    <3>2. CASE ~(w = arg[t] /\ arg[t] \notin pending)
      BY <2>2, <3>2, <1>5 DEF DInv, Exclusive
    <3> QED BY <3>1, <3>2
  <2> QED BY <2>1, <2>2
<1> QED BY <1>1, <1>2, <1>4, <1>6 DEF DInv

\* __queue_work of a carried item keeps the invariant: it is not on the list.
LEMMA QueueWorkDInv ==
    ASSUME DInv, NEW t \in Submitters, QueueWork(t), UNCHANGED dvars PROVE DInv'
<1> DEFINE w == arg[t]
<1>0. /\ pc[t] = "add" /\ ListAddTail(w)
      /\ wpc' = IF wpc = "asleep" THEN "scan" ELSE wpc
      /\ pc' = [pc EXCEPT ![t] = "idle"]
      /\ pending' = pending /\ arg' = arg /\ was' = was /\ pos' = pos /\ nxt' = nxt
      /\ armed' = armed /\ mod' = mod /\ delay' = delay
      /\ pc \in [Submitters -> {"idle", "set", "add", "arm"}]
      /\ arg \in [Submitters -> Works]
      /\ wpc \in {"scan", "take", "func", "wait", "asleep"}
  BY DEF QueueWork, DInv, DTypeOK, dvars
<1>1. w \in Works /\ ListType /\ RingOK /\ Carries(t, w)
  BY <1>0 DEF DInv, DTypeOK, ListType, Carries
<1>2. ~Linked(w) /\ w \notin armed /\ w \in pending
  BY <1>1 DEF DInv, Exclusive
<1>3. /\ ListType'
      /\ \A x \in Works : Linked(x)' <=> Linked(x) \/ x = w
      /\ RingOK'
      /\ next'[Head] = IF next[Head] = Head THEN w ELSE next[Head]
      /\ \A x \in Ring \ {Head} : next'[x] = next[x] \/ next[x] = Head
  BY <1>0, <1>1, <1>2, AddTailKeepsRing
<1>4. DTypeOK'
  BY <1>0, <1>3 DEF DInv, DTypeOK, ListType
<1>5. CursorOK'
  <2>1. ASSUME wpc' = "take" PROVE pos' = next'[Head] /\ nxt' \in {Head, next'[pos']}
    <3>1. wpc = "take" /\ pos = next[Head] /\ nxt \in {Head, next[pos]} /\ pos \in Works
      BY <2>1, <1>0 DEF DInv, CursorOK, DTypeOK
    <3>2. pos \in Ring \ {Head}
      BY <3>1, <1>1, ConstantsAssumption DEF RingOK, Ring
    <3> QED BY <3>1, <3>2, <1>0, <1>3
  <2>2. ASSUME wpc' = "func" PROVE nxt' \in {Head, next'[Head]}
    BY <2>2, <1>0, <1>3 DEF DInv, CursorOK
  <2> QED BY <2>1, <2>2 DEF CursorOK
<1>6. DCallOK'
  BY <1>0 DEF DInv, DCallOK
<1>7. \A u \in Submitters, x \in Works : Carries(u, x)' => Carries(u, x) /\ x # w
  BY <1>0, <1>1 DEF DInv, Exclusive, Carries
<1>8. Exclusive'
  BY <1>0, <1>2, <1>3, <1>7 DEF DInv, Exclusive
<1> QED BY <1>3, <1>4, <1>5, <1>6, <1>8 DEF DInv

\* add_timer of a carried item keeps the invariant: it moves to its timer.
LEMMA AddTimerDInv ==
    ASSUME DInv, NEW t \in Submitters, AddTimer(t) PROVE DInv'
<1>0. /\ pc[t] = "arm" /\ armed' = armed \cup {arg[t]}
      /\ pc' = [pc EXCEPT ![t] = "idle"]
      /\ UNCHANGED listVars /\ UNCHANGED workerVars
      /\ pending' = pending /\ arg' = arg /\ was' = was /\ mod' = mod /\ delay' = delay
      /\ pc \in [Submitters -> {"idle", "set", "add", "arm"}]
      /\ arg \in [Submitters -> Works]
  BY DEF AddTimer, DInv, DTypeOK
<1>1. RingOK' /\ CursorOK' /\ \A x \in Works : Linked(x)' <=> Linked(x)
  BY <1>0, ListUnchanged DEF DInv
<1>2. DTypeOK'
  BY <1>0 DEF DInv, DTypeOK, DCallOK, listVars, workerVars
<1>3. DCallOK'
  BY <1>0 DEF DInv, DCallOK
<1>4. Carries(t, arg[t]) /\ arg[t] \in Works
  BY <1>0 DEF Carries
<1>5. \A u \in Submitters, x \in Works : Carries(u, x)' => Carries(u, x) /\ x # arg[t]
  BY <1>0, <1>4 DEF DInv, Exclusive, Carries
<1>6. Exclusive'
  BY <1>0, <1>1, <1>4, <1>5 DEF DInv, Exclusive
<1> QED BY <1>1, <1>2, <1>3, <1>6 DEF DInv

\* A timer that fires keeps the invariant: the item moves into the hands of the
\* workloop's thread, which was free.
LEMMA TimerFiresDInv ==
    ASSUME DInv, NEW w \in Works, TimerFires(w) PROVE DInv'
<1>0. /\ w \in armed /\ pc[Workloop] = "idle" /\ armed' = armed \ {w}
      /\ pc' = [pc EXCEPT ![Workloop] = "add"]
      /\ arg' = [arg EXCEPT ![Workloop] = w]
      /\ UNCHANGED listVars /\ UNCHANGED workerVars
      /\ pending' = pending /\ was' = was /\ mod' = mod /\ delay' = delay
      /\ pc \in [Submitters -> {"idle", "set", "add", "arm"}]
      /\ arg \in [Submitters -> Works] /\ Workloop \in Submitters
  BY DelayedAssumption DEF TimerFires, DInv, DTypeOK, Submitters
<1>1. RingOK' /\ CursorOK' /\ \A x \in Works : Linked(x)' <=> Linked(x)
  BY <1>0, ListUnchanged DEF DInv
<1>2. DTypeOK'
  BY <1>0 DEF DInv, DTypeOK, listVars, workerVars
<1>3. /\ \A u \in Submitters \ {Workloop} : pc'[u] = pc[u] /\ arg'[u] = arg[u]
      /\ pc'[Workloop] = "add" /\ arg'[Workloop] = w
  BY <1>0
<1>4. DCallOK'
  BY <1>0, <1>3 DEF DInv, DCallOK
<1>5. \A u \in Submitters, x \in Works :
          Carries(u, x)' => IF u = Workloop THEN x = w ELSE Carries(u, x)
  BY <1>3 DEF Carries
<1>6. ~Linked(w) /\ w \in pending /\ \A u \in Submitters : ~Carries(u, w)
  BY <1>0 DEF DInv, Exclusive
<1>7. Exclusive'
  BY <1>0, <1>1, <1>5, <1>6 DEF DInv, Exclusive
<1> QED BY <1>1, <1>2, <1>4, <1>7 DEF DInv

\* The worker's step to the entry it saved keeps the invariant.
LEMMA WalkDInv ==
    ASSUME DInv, Scan \/ FuncReturn, UNCHANGED dvars PROVE DInv'
<1>0. /\ UNCHANGED <<listVars, pending, submitVars>>
      /\ armed' = armed /\ mod' = mod /\ delay' = delay
  BY DEF Scan, FuncReturn, dvars
<1>1. /\ wpc' = IF pos' = Head THEN "wait" ELSE "take"
      /\ pos' = next[Head] \/ pos' = Head
      /\ nxt' = next[pos'] /\ pos' \in Ring
  <2>1. next[Head] \in Ring /\ Head \in Ring
    BY DEF DInv, RingOK, Ring
  <2> QED BY <2>1 DEF Scan, FuncReturn, Visit, DInv, CursorOK
<1>2. DTypeOK'
  <2>1. pos' \in Node /\ nxt' \in Node /\ (pos' # Head => pos' \in Works)
    BY <1>1, NextOnRing DEF DInv, Ring, Node
  <2> QED BY <2>1, <1>0, <1>1 DEF DInv, DTypeOK, listVars, submitVars
<1>3. RingOK' /\ CursorOK'
  BY <1>0, <1>1 DEF DInv, RingOK, Ring, Linked, CursorOK, listVars
<1>4. DCallOK'
  BY <1>0 DEF DInv, DCallOK, submitVars
<1>5. Exclusive'
  BY <1>0 DEF DInv, Exclusive, Carries, Linked, listVars, submitVars
<1> QED BY <1>2, <1>3, <1>4, <1>5 DEF DInv

\* Unlinking an item and clearing its bit keep the invariant: it is listed, and
\* so neither on its timer nor carried.
LEMMA TakeDInv ==
    ASSUME DInv, Take, UNCHANGED dvars PROVE DInv'
<1>0. /\ wpc = "take" /\ ListDel(pos) /\ pending' = pending \ {pos} /\ wpc' = "func"
      /\ UNCHANGED submitVars /\ pos' = pos /\ nxt' = nxt
      /\ armed' = armed /\ mod' = mod /\ delay' = delay
  BY DEF Take, dvars
<1>1. pos \in Works /\ pos = next[Head] /\ nxt \in {Head, next[pos]} /\ ListType /\ RingOK
  BY <1>0 DEF DInv, DTypeOK, CursorOK, ListType
<1>2. /\ ListType'
      /\ \A x \in Works : Linked(x)' <=> Linked(x) /\ x # pos
      /\ RingOK'
      /\ next'[Head] = next[pos]
  BY <1>0, <1>1, DelFirstKeepsRing
<1>3. Linked(pos)
  <2>1. next[Head] \in Ring /\ Head \notin Works
    BY <1>1, ConstantsAssumption DEF RingOK, Ring
  <2> QED BY <2>1, <1>1 DEF Ring
<1>4. DTypeOK'
  BY <1>0, <1>1, <1>2 DEF DInv, DTypeOK, ListType, submitVars
<1>5. CursorOK'
  BY <1>0, <1>1, <1>2 DEF CursorOK
<1>6. DCallOK'
  BY <1>0 DEF DInv, DCallOK, submitVars
<1>7. Exclusive'
  BY <1>0, <1>1, <1>2, <1>3 DEF DInv, Exclusive, Carries, submitVars
<1> QED BY <1>2, <1>4, <1>5, <1>6, <1>7 DEF DInv

\* workqueue_cond_wait, and a step of something else, keep the invariant.
LEMMA CondWaitDInv ==
    ASSUME DInv, CondWait \/ UNCHANGED vars, UNCHANGED dvars PROVE DInv'
<1>0. /\ UNCHANGED <<listVars, pending, submitVars, pos, nxt>>
      /\ wpc' = "asleep" \/ wpc' = wpc
      /\ armed' = armed /\ mod' = mod /\ delay' = delay
  BY DEF CondWait, vars, listVars, submitVars, dvars
<1>1. DTypeOK'
  BY <1>0 DEF DInv, DTypeOK, listVars, submitVars
<1>2. RingOK' /\ CursorOK'
  BY <1>0 DEF DInv, RingOK, Ring, Linked, CursorOK, listVars
<1>3. DCallOK' /\ Exclusive'
  BY <1>0 DEF DInv, DCallOK, Exclusive, Carries, Linked, listVars, submitVars
<1> QED BY <1>1, <1>2, <1>3 DEF DInv

\* The calls on plain items, and __queue_work of any.
LEMMA PlainSubmitDInv ==
    ASSUME Disciplined, DInv, NEW t \in Submitters, PlainSubmit(t) PROVE DInv'
<1>0. UNCHANGED dvars /\ armed' = armed /\ mod' = mod /\ delay' = delay
  BY DEF PlainSubmit, dvars
<1>1. ASSUME NEW w \in Works \ Delayed, TestBit(t, w) PROVE DInv'
  BY <1>0, <1>1, TestBitDInv
<1>2. CASE arg[t] \notin Delayed /\ SetBit(t)
  <2> DEFINE to == IF was[t] THEN "idle" ELSE "add"
  <2>1. /\ pc[t] = "set" /\ pending' = pending \cup {arg[t]}
        /\ pc' = [pc EXCEPT ![t] = to] /\ was' = [was EXCEPT ![t] = FALSE]
        /\ UNCHANGED <<listVars, arg, workerVars, armed>>
    BY <1>0, <1>2 DEF SetBit
  <2>2. mod' = [mod EXCEPT ![t] = FALSE]
    <3>1. mod \in [Submitters -> BOOLEAN] /\ ~mod[t]
      BY <1>2 DEF DInv, DTypeOK, DCallOK
    <3> QED BY <1>0, <3>1
  <2>3. to \in {"idle", "add", "arm"} /\ (to # "idle" => ~was[t]) /\ to # "arm"
    OBVIOUS
  <2> HIDE DEF to
  <2> QED BY <1>0, <2>1, <2>2, <2>3, SetBitDInv
<1>3. CASE QueueWork(t)
  BY <1>0, <1>3, QueueWorkDInv
<1> QED BY <1>1, <1>2, <1>3 DEF PlainSubmit

\* queue_delayed_work_on, mod_delayed_work_on and add_timer.
LEMMA DelayedSubmitDInv ==
    ASSUME Disciplined, DInv, NEW t \in Submitters, DelayedSubmit(t) PROVE DInv'
<1>1. ASSUME NEW w \in Delayed, NEW d \in {0, 1}, QueueDelayed(t, w, d) \/ ModDelayed(t, w, d)
      PROVE  DInv'
  <2>1. PICK m \in BOOLEAN : /\ mod' = [mod EXCEPT ![t] = m]
                             /\ m => w \in Delayed /\ Place(w) \in ModFrom
    BY <1>1 DEF QueueDelayed, ModDelayed
  <2>2. TestBit(t, w) /\ armed' = armed /\ delay' = [delay EXCEPT ![t] = d] /\ w \in Works
    BY <1>1, DelayedAssumption DEF QueueDelayed, ModDelayed
  <2> QED BY <2>1, <2>2, TestBitDInv
<1>2. CASE SetDelayedBit(t)
  <2> DEFINE to == IF was[t] /\ ~mod[t] THEN "idle" ELSE IF delay[t] = 0 THEN "add" ELSE "arm"
  <2>1. /\ pc[t] = "set" /\ pending' = pending \cup {arg[t]} /\ arg[t] \in Delayed
        /\ pc' = [pc EXCEPT ![t] = to] /\ was' = [was EXCEPT ![t] = FALSE]
        /\ mod' = [mod EXCEPT ![t] = FALSE] /\ delay' = [delay EXCEPT ![t] = 0]
        /\ UNCHANGED <<listVars, arg, workerVars, armed>>
    BY <1>2 DEF SetDelayedBit
  <2>2. to \in {"idle", "add", "arm"} /\ (to # "idle" => ~was[t])
    BY DEF DInv, DCallOK
  <2> HIDE DEF to
  <2> QED BY <2>1, <2>2, SetBitDInv
<1>3. CASE AddTimer(t)
  BY <1>3, AddTimerDInv
<1> QED BY <1>1, <1>2, <1>3 DEF DelayedSubmit

\* No step of a caller, of the workloop's timers or of the worker breaks it.
LEMMA StepDInv == Disciplined /\ DInv /\ [DNext]_allVars => DInv'
<1> SUFFICES ASSUME Disciplined, DInv, [DNext]_allVars PROVE DInv'
  OBVIOUS
<1>1. ASSUME NEW t \in Submitters, PlainSubmit(t) \/ DelayedSubmit(t) PROVE DInv'
  BY <1>1, PlainSubmitDInv, DelayedSubmitDInv
<1>2. ASSUME NEW w \in Works, TimerFires(w) PROVE DInv'
  BY <1>2, TimerFiresDInv
<1>3. CASE WorkerStep /\ UNCHANGED dvars
  BY <1>3, WalkDInv, TakeDInv, CondWaitDInv DEF WorkerStep
<1>4. CASE UNCHANGED allVars
  BY <1>4, CondWaitDInv DEF allVars
<1> QED BY <1>1, <1>2, <1>3, <1>4 DEF DNext

\* The strengthening, inductive when callers keep to the discipline.
THEOREM DInvHolds == Disciplined => (DSpec => []DInv)
<1> SUFFICES ASSUME Disciplined PROVE DSpec => []DInv
  OBVIOUS
<1>1. DInv /\ [DNext]_allVars => DInv'
  BY StepDInv
<1> QED BY <1>1, InitDInv, PTL DEF DSpec

\* The variables of the workqueue and of the timers keep their types; only a
\* delayed item is ever on a timer.
THEOREM DelayedTypeCorrect == Disciplined => (DSpec => []DTypeOK)
<1>1. DInv => DTypeOK
  BY DEF DInv
<1> QED BY <1>1, DInvHolds, PTL

\* With timers too, list_add_tail is never given an item that is on the list or
\* that another thread is about to add.
THEOREM DelayedNeverAddedTwice == Disciplined => (DSpec => []NoDoubleAdd)
<1>1. DInv => NoDoubleAdd
  BY NoDoubleAddFromExclusive DEF DInv
<1> QED BY <1>1, DInvHolds, PTL

\* With timers too, the list is a ring and the worker's unlocked walk stays on it.
THEOREM DelayedListWhole == Disciplined => (DSpec => [](RingOK /\ CursorOK))
<1>1. DInv => RingOK /\ CursorOK
  BY DEF DInv
<1> QED BY <1>1, DInvHolds, PTL

-----------------------------------------------------------------------------
(* The queue that the list stands for.                                       *)
(*                                                                           *)
(* RingOK alone lets the pointers of the items form several rings.  That all *)
(* the linked items are on the ring of the head, in an order that list_add   *)
(* and list_del change at its ends only, is what makes the list a queue:     *)
(* Chain(n, s) says that s[1] .. s[n] are the items met from the head.       *)

Chain(n, s) ==
    /\ \A i, j \in 1 .. n : s[i] = s[j] => i = j
    /\ \A w \in Works : Linked(w) <=> \E i \in 1 .. n : s[i] = w
    /\ next[Head] = IF n = 0 THEN Head ELSE s[1]
    /\ \A i \in 1 .. n : next[s[i]] = IF i = n THEN Head ELSE s[i + 1]

OneRing == \E n \in Nat : \E s \in [1 .. n -> Works] : Chain(n, s)

\* A set of natural numbers that is not empty has a least element.
LEMMA LeastNat ==
    ASSUME NEW S \in SUBSET Nat, S # {}
    PROVE  \E m \in S : \A k \in S : m <= k
<1> DEFINE R == OpToRel(<, Nat)
<1>1. IsWellFoundedOn(R, Nat)
  BY NatLessThanWellFounded
<1>2. \A x, y \in Nat : y < x => <<y, x>> \in R
  BY DEF OpToRel
<1> HIDE DEF R
<1>3. PICK m \in S : \A k \in S : ~(<<k, m>> \in R)
  BY <1>1, WFMin
<1>4. \A k \in S : ~(k < m)
  BY <1>2, <1>3
<1> QED BY <1>4

\* f[0] .. f[n] are met when the pointer g is followed from start.
Follows(f, g, start, n) == f[0] = start /\ \A i \in 1 .. n : f[i] = g[f[i - 1]]

\* Following a pointer n times from a start defines a function.
LEMMA NodesExist ==
    ASSUME NEW R, NEW g \in [R -> R], NEW start \in R, NEW n \in Nat
    PROVE  \E f \in [0 .. n -> R] : Follows(f, g, start, n)
<1> DEFINE Bad == {k \in Nat : ~\E f \in [0 .. k -> R] : Follows(f, g, start, k)}
<1>1. ASSUME Bad # {} PROVE FALSE
  <2>1. PICK m \in Bad : \A k \in Bad : m <= k
    <3>1. Bad \in SUBSET Nat
      OBVIOUS
    <3> HIDE DEF Bad
    <3> QED BY <1>1, <3>1, LeastNat
  <2>2. CASE m = 0
    <3>1. [i \in 0 .. 0 |-> start] \in [0 .. 0 -> R] /\ Follows([i \in 0 .. 0 |-> start], g, start, 0)
      BY DEF Follows
    <3> QED BY <2>1, <2>2, <3>1
  <2>3. CASE m # 0
    <3>1. m - 1 \in Nat /\ m - 1 \notin Bad
      <4>1. m \in Nat
        OBVIOUS
      <4> HIDE DEF Bad
      <4> QED BY <4>1, <2>1, <2>3
    <3>2. PICK f \in [0 .. m - 1 -> R] : Follows(f, g, start, m - 1)
      BY <3>1
    <3> DEFINE e == [i \in 0 .. m |-> IF i = m THEN g[f[m - 1]] ELSE f[i]]
    <3>3. m \in Nat /\ f[m - 1] \in R
      BY <2>1, <3>1, <3>2
    <3>4. e \in [0 .. m -> R]
      BY <3>2, <3>3
    <3>5. e[0] = start
      BY <2>3, <3>2, <3>3 DEF Follows
    <3>6. ASSUME NEW i \in 1 .. m PROVE e[i] = g[e[i - 1]]
      <4>1. i - 1 \in 0 .. m - 1 /\ e[i - 1] = f[i - 1]
        BY <3>3
      <4>2. CASE i = m
        BY <4>1, <4>2, <3>3
      <4>3. CASE i # m
        <5>1. i \in 1 .. m - 1 /\ e[i] = f[i]
          BY <4>3, <3>3
        <5> QED BY <5>1, <4>1, <3>2 DEF Follows
      <4> QED BY <4>2, <4>3
    <3>7. Follows(e, g, start, m)
      BY <3>5, <3>6 DEF Follows
    <3> HIDE DEF e
    <3> QED BY <2>1, <3>4, <3>7
  <2> QED BY <2>2, <2>3
<1> QED BY <1>1

\* Following next from the head of a ring never leaves it.
LEMMA NodesOfList ==
    ASSUME RingOK, NEW n \in Nat
    PROVE  \E f \in [0 .. n -> Ring] : Follows(f, next, Head, n)
<1>1. PICK g : g \in [Ring -> Ring] /\ \A x \in Ring : g[x] = next[x]
  <2> DEFINE h == [x \in Ring |-> next[x]]
  <2>1. h \in [Ring -> Ring] /\ \A x \in Ring : h[x] = next[x]
    BY DEF RingOK
  <2> HIDE DEF h
  <2> QED BY <2>1
<1>2. Head \in Ring
  BY DEF Ring
<1>3. PICK f \in [0 .. n -> Ring] : Follows(f, g, Head, n)
  BY <1>1, <1>2, NodesExist
<1>4. ASSUME NEW i \in 1 .. n PROVE f[i] = next[f[i - 1]]
  <2>1. i - 1 \in 0 .. n
    OBVIOUS
  <2> QED BY <2>1, <1>1, <1>3 DEF Follows
<1>5. Follows(f, next, Head, n)
  BY <1>3, <1>4 DEF Follows
<1> QED BY <1>3, <1>5

\* A chain has no more items than there are.
LEMMA ChainLength ==
    ASSUME NEW n \in Nat, NEW s \in [1 .. n -> Works], \A i, j \in 1 .. n : s[i] = s[j] => i = j
    PROVE  Cardinality(Works) \in Nat /\ n <= Cardinality(Works)
<1>1. s \in Injection(1 .. n, Works)
  BY DEF Injection, IsInjective
<1>2. Cardinality(1 .. n) = n
  BY FS_Interval
<1>3. Cardinality(1 .. n) <= Cardinality(Works)
  BY <1>1, FS_Injection, ConstantsAssumption
<1>4. Cardinality(Works) \in Nat
  BY FS_CardinalityType, ConstantsAssumption
<1> QED BY <1>2, <1>3, <1>4

\* What list_for_each_entry_safe meets from the head is the chain.
LEMMA WalkIsChain ==
    \A n \in Nat : \A s \in [1 .. n -> Works] : RingOK /\ Chain(n, s) => Walk = s
<1> SUFFICES ASSUME NEW n \in Nat, NEW s \in [1 .. n -> Works], RingOK, Chain(n, s)
             PROVE  Walk = s
  OBVIOUS
<1> DEFINE N == Cardinality(Works)
           node == CHOOSE f : f = [i \in 0 .. N + 1 |-> IF i = 0 THEN Head ELSE next[f[i - 1]]]
           len == CHOOSE k \in 0 .. N : /\ node[k + 1] = Head
                                        /\ \A i \in 1 .. k : node[i] # Head
<1>1. N \in Nat /\ n <= N
  BY ChainLength DEF Chain
<1>2. node = [i \in 0 .. N + 1 |-> IF i = 0 THEN Head ELSE next[node[i - 1]]]
  <2>1. N + 1 \in Nat
    BY <1>1
  <2>2. PICK f \in [0 .. N + 1 -> Ring] : Follows(f, next, Head, N + 1)
    <3> HIDE DEF N
    <3> QED BY <2>1, NodesOfList
  <2>4. f = [i \in 0 .. N + 1 |-> IF i = 0 THEN Head ELSE next[f[i - 1]]]
    BY <2>2, <1>1 DEF Follows
  <2> QED BY <2>4
<1> HIDE DEF node, N
<1>3. node[0] = Head /\ \A i \in 1 .. N + 1 : node[i] = next[node[i - 1]]
  BY <1>1, <1>2
<1>4. \A i \in 1 .. n : node[i] = s[i]
  <2> DEFINE Off == {i \in 1 .. n : node[i] # s[i]}
  <2>1. ASSUME Off # {} PROVE FALSE
    <3>1. PICK m \in Off : \A k \in Off : m <= k
      <4>1. Off \in SUBSET Nat
        OBVIOUS
      <4> HIDE DEF Off
      <4> QED BY <2>1, <4>1, LeastNat
    <3>2. m \in 1 .. n /\ node[m] = next[node[m - 1]]
      BY <1>1, <1>3, <3>1
    <3>3. CASE m = 1
      BY <3>1, <3>2, <3>3, <1>3 DEF Chain
    <3>4. CASE m # 1
      <4>1. m - 1 \in 1 .. n /\ m - 1 # n /\ m - 1 + 1 = m /\ m - 1 \notin Off
        BY <3>1, <3>2, <3>4
      <4>2. node[m - 1] = s[m - 1] /\ next[s[m - 1]] = s[m]
        BY <4>1 DEF Chain
      <4> QED BY <3>1, <3>2, <4>2
    <3> QED BY <3>3, <3>4
  <2> QED BY <2>1
<1>5. node[n + 1] = Head /\ \A i \in 1 .. n : node[i] # Head
  <2>1. node[n + 1] = next[node[n]]
    BY <1>1, <1>3
  <2>2. node[n + 1] = Head
    BY <2>1, <1>3, <1>4 DEF Chain
  <2> QED BY <2>2, <1>4, ConstantsAssumption
<1>6. len = n
  <2>1. n \in 0 .. N
    BY <1>1
  <2>2. \A k \in 0 .. N : node[k + 1] = Head /\ (\A i \in 1 .. k : node[i] # Head) => k = n
    BY <1>5, <1>1
  <2> QED BY <2>1, <2>2, <1>5
<1>7. Walk = [i \in 1 .. len |-> node[i]]
  BY DEF Walk, node, N
<1> QED BY <1>4, <1>6, <1>7

\* The same of the list after a step.
LEMMA WalkIsChainNext ==
    \A n \in Nat : \A s \in [1 .. n -> Works] : RingOK' /\ Chain(n, s)' => Walk' = s
<1>1. (\A n \in Nat : \A s \in [1 .. n -> Works] : RingOK /\ Chain(n, s) => Walk = s)'
  BY WalkIsChain, PTL
<1> QED BY <1>1

\* An empty list is the chain of no items.
LEMMA InitChain == Init => OneRing
<1> SUFFICES ASSUME Init PROVE OneRing
  OBVIOUS
<1> DEFINE s == [i \in 1 .. 0 |-> CHOOSE w \in Works : TRUE]
<1>1. s \in [1 .. 0 -> Works]
  OBVIOUS
<1>2. Chain(0, s)
  BY ConstantsAssumption DEF Chain, Init, Linked, Node
<1> QED BY <1>1, <1>2 DEF OneRing

\* list_add_tail of an unlinked item makes it the last of the chain.
LEMMA AddTailChain ==
    ASSUME ListType, RingOK, NEW n \in Nat, NEW s \in [1 .. n -> Works], Chain(n, s),
           NEW w \in Works, ~Linked(w), ListAddTail(w)
    PROVE  Chain(n + 1, [i \in 1 .. n + 1 |-> IF i = n + 1 THEN w ELSE s[i]])'
<1> DEFINE last == prev[Head]
           e == [i \in 1 .. n + 1 |-> IF i = n + 1 THEN w ELSE s[i]]
<1>1. last = (IF n = 0 THEN Head ELSE s[n]) /\ last \in Node
  <2>1. Head \in Ring /\ \A i \in 1 .. n : s[i] \in Ring
    BY DEF Ring, Chain
  <2>2. next[IF n = 0 THEN Head ELSE s[n]] = Head
    BY DEF Chain
  <2> QED BY <2>1, <2>2 DEF RingOK, Ring, Node
<1>2. /\ \A i \in 1 .. n : s[i] # w
      /\ \A i \in 1 .. n : s[i] \in Node /\ s[i] # Head
      /\ w # Head /\ w \in Node /\ Head \in Node
  BY ConstantsAssumption DEF Chain, Node
<1>3. next'[w] = Head /\ next'[last] = w /\ \A x \in Node \ {w, last} : next'[x] = next[x]
  BY <1>1, <1>2 DEF ListAddTail, ListType
<1>4. \A i, j \in 1 .. n + 1 : e[i] = e[j] => i = j
  BY <1>2 DEF Chain
<1>5. \A x \in Works : Linked(x)' <=> \E i \in 1 .. n + 1 : e[i] = x
  <2>1. \A x \in Works : Linked(x)' <=> Linked(x) \/ x = w
    BY AddTailKeepsRing
  <2> SUFFICES ASSUME NEW x \in Works
               PROVE  Linked(x) \/ x = w <=> \E i \in 1 .. n + 1 : e[i] = x
    BY <2>1
  <2>2. e[n + 1] = w /\ \A i \in 1 .. n : i \in 1 .. n + 1 /\ e[i] = s[i]
    OBVIOUS
  <2>3. \A i \in 1 .. n + 1 : i = n + 1 \/ i \in 1 .. n
    OBVIOUS
  <2>4. n + 1 \in 1 .. n + 1
    OBVIOUS
  <2> HIDE DEF e
  <2> QED BY <2>2, <2>3, <2>4 DEF Chain
<1>6. next'[Head] = e[1]
  BY <1>1, <1>2, <1>3 DEF Chain
<1>7. ASSUME NEW i \in 1 .. n + 1 PROVE next'[e[i]] = IF i = n + 1 THEN Head ELSE e[i + 1]
  <2>1. CASE i = n + 1
    BY <2>1, <1>3
  <2>2. CASE i = n
    BY <2>2, <1>1, <1>3
  <2>3. CASE i \in 1 .. n /\ i # n
    <3>1. e[i] = s[i] /\ e[i + 1] = s[i + 1] /\ s[i] # s[n]
      BY <2>3 DEF Chain
    <3>2. next'[s[i]] = next[s[i]]
      BY <2>3, <3>1, <1>1, <1>2, <1>3
    <3> QED BY <2>3, <3>1, <3>2 DEF Chain
  <2> QED BY <2>1, <2>2, <2>3
<1>8. n + 1 # 0
  OBVIOUS
<1> HIDE DEF e
<1>9. Chain(n + 1, e)'
  BY <1>4, <1>5, <1>6, <1>7, <1>8 DEF Chain
<1> QED BY <1>9 DEF e

\* list_del of the oldest item takes the first off the chain.
LEMMA DelFirstChain ==
    ASSUME ListType, RingOK, NEW n \in Nat, NEW s \in [1 .. n -> Works], Chain(n, s),
           NEW w \in Works, w = next[Head], ListDel(w)
    PROVE  /\ n # 0 /\ w = s[1]
           /\ Chain(n - 1, [i \in 1 .. n - 1 |-> s[i + 1]])'
<1> DEFINE e == [i \in 1 .. n - 1 |-> s[i + 1]]
<1>1. n # 0 /\ w = s[1] /\ n - 1 \in Nat
  BY ConstantsAssumption DEF Chain
<1>2. \A i \in 1 .. n - 1 : i + 1 \in 1 .. n /\ i \in 1 .. n /\ i # n /\ e[i] = s[i + 1]
  OBVIOUS
<1>3. next'[Head] = next[w] /\ \A x \in Works : Linked(x)' <=> Linked(x) /\ x # w
  BY DelFirstKeepsRing
<1>4. \A x \in Works \ {w} : next'[x] = next[x]
  <2>1. prev[w] = Head
    BY DEF RingOK, Ring
  <2> QED BY <2>1, ConstantsAssumption DEF ListDel, ListType, Node
<1>5. \A i, j \in 1 .. n - 1 : e[i] = e[j] => i = j
  <2> SUFFICES ASSUME NEW i \in 1 .. n - 1, NEW j \in 1 .. n - 1, s[i + 1] = s[j + 1]
               PROVE  i = j
    OBVIOUS
  <2>1. i + 1 = j + 1
    BY <1>2 DEF Chain
  <2> QED BY <2>1
<1>6. \A x \in Works : Linked(x)' <=> \E i \in 1 .. n - 1 : e[i] = x
  <2> SUFFICES ASSUME NEW x \in Works
               PROVE  Linked(x) /\ x # s[1] <=> \E i \in 1 .. n - 1 : e[i] = x
    BY <1>1, <1>3
  <2>1. ASSUME NEW i \in 1 .. n - 1, e[i] = x PROVE Linked(x) /\ x # s[1]
    <3>1. i + 1 \in 1 .. n /\ 1 \in 1 .. n /\ i + 1 # 1 /\ s[i + 1] = x
      BY <2>1
    <3> QED BY <3>1 DEF Chain
  <2>2. ASSUME Linked(x), x # s[1] PROVE \E i \in 1 .. n - 1 : e[i] = x
    <3>1. PICK k \in 1 .. n : s[k] = x
      BY <2>2 DEF Chain
    <3>2. k # 1
      BY <2>2, <3>1
    <3>3. k - 1 \in 1 .. n - 1 /\ e[k - 1] = x
      BY <3>1, <3>2
    <3> HIDE DEF e
    <3> QED BY <3>3
  <2> QED BY <2>1, <2>2
<1>7. next'[Head] = IF n - 1 = 0 THEN Head ELSE e[1]
  BY <1>1, <1>3 DEF Chain
<1>8. ASSUME NEW i \in 1 .. n - 1 PROVE next'[e[i]] = IF i = n - 1 THEN Head ELSE e[i + 1]
  <2>1. i + 1 \in 1 .. n /\ e[i] = s[i + 1] /\ s[i + 1] \in Works /\ s[i + 1] # s[1]
    BY <1>1 DEF Chain
  <2>2. next'[e[i]] = IF i + 1 = n THEN Head ELSE s[i + 1 + 1]
    BY <2>1, <1>1, <1>4 DEF Chain
  <2> QED BY <2>1, <2>2
<1> QED BY <1>1, <1>5, <1>6, <1>7, <1>8 DEF Chain

-----------------------------------------------------------------------------
(* Each step of the workqueue is a step of the queue of DeferredWork, or none. *)

\* Two sequences are one if they agree at each place.
LEMMA SameItems ==
    ASSUME NEW n \in Nat, NEW f \in [1 .. n -> Works],
           NEW t, t \in Sq!Seq(Works), Sq!Len(t) = n, \A i \in 1 .. n : t[i] = f[i]
    PROVE  t = f
OBVIOUS

\* __queue_work is Enqueue.
LEMMA QueueWorkFifo ==
    ASSUME ListType, RingOK, RingOK', OneRing,
           NEW t \in Submitters, arg[t] \in Works, ~Linked(arg[t]), QueueWork(t)
    PROVE  OneRing' /\ WorkFifo!Enqueue(arg[t])
<1> DEFINE w == arg[t]
<1>1. PICK n \in Nat : \E s \in [1 .. n -> Works] : Chain(n, s)
  BY DEF OneRing
<1>2. PICK s \in [1 .. n -> Works] : Chain(n, s)
  BY <1>1
<1> DEFINE e == [i \in 1 .. n + 1 |-> IF i = n + 1 THEN w ELSE s[i]]
<1>3. ListAddTail(w) /\ Running' = Running
  BY DEF QueueWork, Running
<1>4. PICK v \in Works : v = w
  OBVIOUS
<1>5. PICK f : f = [i \in 1 .. n + 1 |-> IF i = n + 1 THEN v ELSE s[i]]
  OBVIOUS
<1>6. Chain(n + 1, f)'
  BY <1>2, <1>3, <1>4, <1>5, AddTailChain
<1>7. f \in [1 .. n + 1 -> Works] /\ n + 1 \in Nat
  BY <1>5
<1>8. Walk = s /\ Walk' = f
  BY <1>2, <1>6, <1>7, WalkIsChain, WalkIsChainNext
<1>9. OneRing'
  BY <1>6, <1>7 DEF OneRing
<1>10. \A i \in 1 .. n : s[i] # v
  BY <1>2, <1>4 DEF Chain
<1>11. f = Sq!Append(s, v)
  BY <1>1, <1>2, <1>4, <1>5
<1>12. WorkFifo!Enqueue(v)
  BY <1>3, <1>8, <1>10, <1>11 DEF WorkFifo!Enqueue
<1> QED BY <1>4, <1>9, <1>12

\* Taking an item off the list and calling its function is Start.
LEMMA TakeFifo ==
    ASSUME ListType, RingOK, RingOK', CursorOK, OneRing, pos \in Works, Take
    PROVE  OneRing' /\ WorkFifo!Start
<1>1. PICK n \in Nat : \E s \in [1 .. n -> Works] : Chain(n, s)
  BY DEF OneRing
<1>2. PICK s \in [1 .. n -> Works] : Chain(n, s)
  BY <1>1
<1>3. /\ wpc = "take" /\ wpc' = "func" /\ pos' = pos /\ ListDel(pos) /\ pos = next[Head]
  BY DEF Take, CursorOK
<1>4. Running = {} /\ Running' = {pos}
  BY <1>3 DEF Running
<1>5. PICK f : f = [i \in 1 .. n - 1 |-> s[i + 1]]
  OBVIOUS
<1>6. n # 0 /\ pos = s[1] /\ Chain(n - 1, f)'
  <2>1. PICK v \in Works : v = pos
    OBVIOUS
  <2> QED BY <2>1, <1>2, <1>3, <1>5, DelFirstChain
<1>7. f \in [1 .. n - 1 -> Works] /\ n - 1 \in Nat
  BY <1>5, <1>6
<1>8. Walk = s /\ Walk' = f
  BY <1>2, <1>6, <1>7, WalkIsChain, WalkIsChainNext
<1>9. OneRing'
  BY <1>6, <1>7 DEF OneRing
<1>10. s # <<>> /\ s \in Sq!Seq(Works) /\ Sq!Len(s) = n
  BY <1>6
<1>11. Sq!Head(s) = s[1]
  BY <1>10, <1>6
<1>12. Sq!Tail(s) = f
  <2>1. Sq!Tail(s) \in Sq!Seq(Works) /\ Sq!Len(Sq!Tail(s)) = n - 1
    BY <1>10, <1>6
  <2>2. \A i \in 1 .. n - 1 : Sq!Tail(s)[i] = s[i + 1]
    BY <1>10, <1>6
  <2>3. \A i \in 1 .. n - 1 : Sq!Tail(s)[i] = f[i]
    BY <2>2, <1>5
  <2> QED BY <2>1, <2>3, <1>7, SameItems
<1>13. WorkFifo!Start
  BY <1>4, <1>6, <1>8, <1>10, <1>11, <1>12 DEF WorkFifo!Start
<1> QED BY <1>9, <1>13

\* The return of a function is Finish.
LEMMA FuncReturnFifo ==
    ASSUME OneRing, FuncReturn PROVE OneRing' /\ WorkFifo!Finish
<1>1. wpc = "func" /\ wpc' # "func" /\ next' = next
  BY DEF FuncReturn, Visit, listVars
<1>2. OneRing' /\ Walk' = Walk
  <2>1. OneRing'
    BY <1>1 DEF OneRing, Chain, Linked
  <2>2. Walk' = Walk
    BY <1>1 DEF Walk
  <2> QED BY <2>1, <2>2
<1>3. Running = {pos} /\ Running' = {}
  BY <1>1 DEF Running
<1> QED BY <1>2, <1>3 DEF WorkFifo!Finish

\* The steps that change neither the list nor what runs are none of the queue's.
LEMMA QuietFifo ==
    ASSUME OneRing, next' = next,
           UNCHANGED <<wpc, pos>> \/ (wpc # "func" /\ wpc' # "func")
    PROVE  OneRing' /\ UNCHANGED WorkFifo!vars
<1>1. OneRing' /\ Walk' = Walk
  <2>1. OneRing'
    BY DEF OneRing, Chain, Linked
  <2>2. Walk' = Walk
    BY DEF Walk
  <2> QED BY <2>1, <2>2
<1>2. Running' = Running
  BY DEF Running
<1> QED BY <1>1, <1>2 DEF WorkFifo!vars

\* Every step of Workqueue is one of the queue's, or none.
LEMMA StepFifo ==
    ASSUME IInv, IInv', OneRing, [Next]_vars
    PROVE  OneRing' /\ [WorkFifo!Next]_(WorkFifo!vars)
<1>1. /\ ListType /\ RingOK /\ RingOK' /\ CursorOK /\ arg \in [Submitters -> Works]
      /\ wpc = "take" => pos \in Works
  BY DEF IInv, TypeOK, ListType
<1>2. ASSUME NEW t \in Submitters, QueueWork(t)
      PROVE  OneRing' /\ WorkFifo!Next
  <2>1. arg[t] \in Works /\ ~Linked(arg[t])
    BY <1>1, <1>2 DEF QueueWork, IInv, NoDoubleAdd
  <2> QED BY <2>1, <1>1, <1>2, QueueWorkFifo DEF WorkFifo!Next
<1>3. CASE Take
  BY <1>1, <1>3, TakeFifo DEF Take, WorkFifo!Next
<1>4. CASE FuncReturn
  BY <1>4, FuncReturnFifo DEF WorkFifo!Next
<1>5. ASSUME \/ \E t \in Submitters : (\E w \in Works : TestBit(t, w)) \/ SetBit(t)
             \/ Scan \/ CondWait \/ UNCHANGED vars
      PROVE  OneRing' /\ UNCHANGED WorkFifo!vars
  <2>1. next' = next /\ (UNCHANGED <<wpc, pos>> \/ (wpc # "func" /\ wpc' # "func"))
    BY <1>5 DEF TestBit, SetBit, Scan, Visit, CondWait, vars, listVars, workerVars
  <2> QED BY <2>1, QuietFifo
<1> QED BY <1>2, <1>3, <1>4, <1>5 DEF Next, Submit, WorkerStep

\* Every step of DelayedWork is one of the queue's, or none.
LEMMA StepDelayedFifo ==
    ASSUME DInv, DInv', OneRing, [DNext]_allVars
    PROVE  OneRing' /\ [WorkFifo!Next]_(WorkFifo!vars)
<1>1. /\ ListType /\ RingOK /\ RingOK' /\ CursorOK /\ arg \in [Submitters -> Works]
      /\ wpc = "take" => pos \in Works
  BY DEF DInv, DTypeOK, ListType
<1>2. ASSUME NEW t \in Submitters, QueueWork(t)
      PROVE  OneRing' /\ WorkFifo!Next
  <2>1. arg[t] \in Works /\ ~Linked(arg[t])
    BY <1>1, <1>2 DEF QueueWork, DInv, Exclusive, Carries
  <2> QED BY <2>1, <1>1, <1>2, QueueWorkFifo DEF WorkFifo!Next
<1>3. CASE Take
  BY <1>1, <1>3, TakeFifo DEF Take, WorkFifo!Next
<1>4. CASE FuncReturn
  BY <1>4, FuncReturnFifo DEF WorkFifo!Next
<1>5. ASSUME \/ \E t \in Submitters :
                    \/ \E w \in Works : TestBit(t, w)
                    \/ SetBit(t) \/ SetDelayedBit(t) \/ AddTimer(t)
             \/ \E w \in Works : TimerFires(w)
             \/ Scan \/ CondWait \/ UNCHANGED vars
      PROVE  OneRing' /\ UNCHANGED WorkFifo!vars
  <2>1. next' = next /\ (UNCHANGED <<wpc, pos>> \/ (wpc # "func" /\ wpc' # "func"))
    BY <1>5 DEF TestBit, SetBit, SetDelayedBit, AddTimer, TimerFires, Scan, Visit, CondWait,
                vars, listVars, workerVars
  <2> QED BY <2>1, QuietFifo
<1>6. ASSUME NEW t \in Submitters, PlainSubmit(t) \/ DelayedSubmit(t)
      PROVE  OneRing' /\ [WorkFifo!Next]_(WorkFifo!vars)
  <2>1. \/ \E w \in Works : TestBit(t, w)
        \/ SetBit(t) \/ SetDelayedBit(t) \/ AddTimer(t)
        \/ QueueWork(t)
    BY <1>6, DelayedAssumption DEF PlainSubmit, DelayedSubmit, QueueDelayed, ModDelayed
  <2> QED BY <2>1, <1>2, <1>5
<1> QED BY <1>3, <1>4, <1>5, <1>6 DEF DNext, WorkerStep, allVars

\* An empty list is an empty queue, and nothing runs.
LEMMA InitFifo == Init => WorkFifo!Init
<1> SUFFICES ASSUME Init PROVE WorkFifo!Init
  OBVIOUS
<1> DEFINE s == [i \in 1 .. 0 |-> CHOOSE w \in Works : TRUE]
<1>1. s \in [1 .. 0 -> Works] /\ s = <<>>
  OBVIOUS
<1>2. Chain(0, s)
  BY ConstantsAssumption DEF Chain, Init, Linked, Node
<1>3. RingOK
  BY InitIInv DEF IInv
<1>4. Walk = s
  BY <1>1, <1>2, <1>3, WalkIsChain
<1> QED BY <1>1, <1>4 DEF WorkFifo!Init, Running, Init

\* The workqueue is a FIFO of items run one at a time, each once per queueing.
THEOREM WorkqueueIsFifo == SingleSubmitter => (Spec => RefinesDeferredWork)
<1> SUFFICES ASSUME SingleSubmitter PROVE Spec => RefinesDeferredWork
  OBVIOUS
<1>1. IInv /\ IInv' /\ OneRing /\ [Next]_vars => OneRing'
  BY StepFifo
<1>2. IInv /\ IInv' /\ OneRing /\ [Next]_vars => [WorkFifo!Next]_(WorkFifo!vars)
  BY StepFifo
<1> QED
  BY <1>1, <1>2, IInvHolds, InitChain, InitFifo, PTL DEF Spec, RefinesDeferredWork, WorkFifo!Spec

\* With delayed items queued from timers, it still is.
THEOREM DelayedWorkIsFifo == Disciplined => (DSpec => RefinesDeferredWork)
<1> SUFFICES ASSUME Disciplined PROVE DSpec => RefinesDeferredWork
  OBVIOUS
<1>1. DInv /\ DInv' /\ OneRing /\ [DNext]_allVars => OneRing'
  BY StepDelayedFifo
<1>2. DInv /\ DInv' /\ OneRing /\ [DNext]_allVars => [WorkFifo!Next]_(WorkFifo!vars)
  BY StepDelayedFifo
<1>3. DInit => OneRing /\ WorkFifo!Init
  BY InitChain, InitFifo DEF DInit
<1> QED
  BY <1>1, <1>2, <1>3, DInvHolds, PTL DEF DSpec, RefinesDeferredWork, WorkFifo!Spec
=============================================================================

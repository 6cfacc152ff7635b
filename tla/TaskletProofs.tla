--------------------------- MODULE TaskletProofs ---------------------------
(***************************************************************************)
(* The list of tasklets is sound, and is damaged in one way only, for any   *)
(* number of tasklets and callers, as long as each tasklet is scheduled and *)
(* killed from one thread.                                                  *)
(***************************************************************************)
EXTENDS Tasklet, TLAPS, SequenceTheorems

Types ==
    /\ list \in Seq(Tasklets) /\ sched \subseteq Tasklets /\ corrupt \in BOOLEAN
    /\ pc \in [Callers -> {"idle", "set", "insert", "kill"}]
    /\ arg \in [Callers -> Tasklets] /\ was \in [Callers -> BOOLEAN]
    /\ tpc \in {"loop", "func", "asleep"}
    /\ cur = {} \/ \E k \in Tasklets : cur = {k}
    /\ cur # {} <=> tpc = "func"

\* A caller holds a tasklet of its own.  Between the halves of test_and_set_bit the
\* bit it read clear is still clear; the tasklet it inserts is marked, and on no list.
CallOK ==
    \A t \in Callers :
        /\ pc[t] \in {"set", "insert"} => <<t, arg[t]>> \in Schedules
        /\ pc[t] = "kill" => <<t, arg[t]>> \in Kills
        /\ pc[t] = "set" /\ ~was[t] => arg[t] \notin sched
        /\ pc[t] = "insert" => arg[t] \in sched

TInv == Types /\ CallOK /\ ListSound

-----------------------------------------------------------------------------
(* The list                                                                *)

\* What is on the list, place by place (the TAILQ systq).
LEMMA OnList ==
    ASSUME NEW s \in Seq(Tasklets)
    PROVE  /\ Len(s) \in Nat /\ \A i \in 1 .. Len(s) : s[i] \in Tasklets
           /\ IsInjective(s) <=> \A i, j \in 1 .. Len(s) : s[i] = s[j] => i = j
BY LenProperties, ElementOfSeq DEF IsInjective

\* TAILQ_INSERT_TAIL of a tasklet that is not on the list.
LEMMA Inserted ==
    ASSUME NEW s \in Seq(Tasklets), NEW k \in Tasklets, IsInjective(s), ~Contains(s, k)
    PROVE  /\ Append(s, k) \in Seq(Tasklets) /\ IsInjective(Append(s, k))
           /\ \A m : Contains(Append(s, k), m) <=> Contains(s, m) \/ m = k
<1>1. PICK r \in Seq(Tasklets) : r = Append(s, k)
  BY AppendProperties
<1>2. /\ Len(s) \in Nat /\ Len(r) = Len(s) + 1 /\ r[Len(s) + 1] = k
      /\ \A i \in 1 .. Len(s) : r[i] = s[i]
  BY <1>1, AppendProperties, LenProperties
<1>3. \A m : Contains(r, m) <=> Contains(s, m) \/ m = k
  BY <1>2 DEF Contains
<1>4. \A i, j \in 1 .. Len(r) : r[i] = r[j] => i = j
  BY <1>2, OnList DEF Contains
<1> QED BY <1>1, <1>3, <1>4, OnList

\* What is before a place of the list, and what is after it.
LEMMA Parts ==
    ASSUME NEW s \in Seq(Tasklets), NEW p \in 1 .. Len(s)
    PROVE  /\ SubSeq(s, 1, p - 1) \in Seq(Tasklets) /\ Len(SubSeq(s, 1, p - 1)) = p - 1
           /\ \A i \in 1 .. p - 1 : SubSeq(s, 1, p - 1)[i] = s[i]
           /\ SubSeq(s, p + 1, Len(s)) \in Seq(Tasklets)
           /\ Len(SubSeq(s, p + 1, Len(s))) = Len(s) - p
           /\ \A i \in 1 .. Len(s) - p : SubSeq(s, p + 1, Len(s))[i] = s[p + i]
<1>1. PICK n \in Nat : n = Len(s)
  BY OnList
<1>2. p \in 1 .. n /\ \A i \in 1 .. n : s[i] \in Tasklets
  BY <1>1, OnList
<1>3. PICK h \in Int : h = p - 1
  BY <1>1, <1>2
<1>4. \A i \in 1 .. h : s[i] \in Tasklets
  BY <1>1, <1>2, <1>3
<1>5. /\ SubSeq(s, 1, h) \in Seq(Tasklets)
      /\ Len(SubSeq(s, 1, h)) = (IF 1 <= h THEN h - 1 + 1 ELSE 0)
      /\ \A i \in 1 .. h - 1 + 1 : SubSeq(s, 1, h)[i] = s[1 + i - 1]
  BY <1>4, SubSeqProperties
<1>6. Len(SubSeq(s, 1, h)) = h /\ \A i \in 1 .. h : SubSeq(s, 1, h)[i] = s[i]
  <2>1. h - 1 + 1 = h /\ (IF 1 <= h THEN h - 1 + 1 ELSE 0) = h
        /\ \A i \in 1 .. h : 1 + i - 1 = i
    BY <1>1, <1>2, <1>3
  <2> QED BY <1>5, <2>1
<1>7. PICK m \in Int : m = p + 1
  BY <1>1, <1>2
<1>8. \A i \in m .. n : s[i] \in Tasklets
  BY <1>1, <1>2, <1>7
<1>9. /\ SubSeq(s, m, n) \in Seq(Tasklets)
      /\ Len(SubSeq(s, m, n)) = (IF m <= n THEN n - m + 1 ELSE 0)
      /\ \A i \in 1 .. n - m + 1 : SubSeq(s, m, n)[i] = s[m + i - 1]
  BY <1>8, SubSeqProperties
<1>10. Len(SubSeq(s, m, n)) = n - p /\ \A i \in 1 .. n - p : SubSeq(s, m, n)[i] = s[p + i]
  <2>1. n - m + 1 = n - p /\ (IF m <= n THEN n - m + 1 ELSE 0) = n - p
        /\ \A i \in 1 .. n - p : m + i - 1 = p + i
    BY <1>1, <1>2, <1>7
  <2> QED BY <1>9, <2>1
<1> QED BY <1>1, <1>3, <1>5, <1>6, <1>7, <1>9, <1>10

\* TAILQ_REMOVE of the entry at a place of the list.
LEMMA Removed ==
    ASSUME NEW s \in Seq(Tasklets), NEW p \in 1 .. Len(s), IsInjective(s)
    PROVE  /\ RemoveAt(s, p) \in Seq(Tasklets) /\ IsInjective(RemoveAt(s, p))
           /\ \A m : Contains(RemoveAt(s, p), m) => Contains(s, m) /\ m # s[p]
<1>1. Len(s) \in Nat /\ \A i, j \in 1 .. Len(s) : s[i] = s[j] => i = j
  BY OnList
<1>2. PICK a \in Seq(Tasklets) : /\ a = SubSeq(s, 1, p - 1) /\ Len(a) = p - 1
                                /\ \A i \in 1 .. p - 1 : a[i] = s[i]
  BY <1>1, Parts
<1>4. PICK b \in Seq(Tasklets) : /\ b = SubSeq(s, p + 1, Len(s)) /\ Len(b) = Len(s) - p
                                /\ \A i \in 1 .. Len(s) - p : b[i] = s[p + i]
  BY <1>1, Parts
<1>6. PICK r \in Seq(Tasklets) : r = RemoveAt(s, p) /\ r = a \o b
  BY <1>2, <1>4, ConcatProperties DEF RemoveAt
<1>7. /\ Len(r) = Len(a) + Len(b)
      /\ \A i \in 1 .. Len(a) + Len(b) : r[i] = IF i <= Len(a) THEN a[i] ELSE b[i - Len(a)]
  BY <1>6, ConcatProperties
<1>8. /\ Len(r) = Len(s) - 1
      /\ \A i \in 1 .. Len(r) : r[i] = s[IF i < p THEN i ELSE i + 1]
  <2>1. Len(r) = Len(s) - 1
    BY <1>1, <1>2, <1>4, <1>7
  <2>2. ASSUME NEW i \in 1 .. Len(r) PROVE r[i] = s[IF i < p THEN i ELSE i + 1]
    <3> DEFINE n == Len(s)
               la == Len(a)
               lb == Len(b)
    <3>0. /\ n \in Nat /\ p \in Nat /\ 1 <= p /\ p <= n /\ i \in Nat /\ 1 <= i /\ i <= n - 1
          /\ la = p - 1 /\ lb = n - p
      BY <2>1, <1>1, <1>2, <1>4
    <3>1. CASE i < p
      <4>1. i \in 1 .. p - 1 /\ i <= Len(a) /\ i \in 1 .. Len(a) + Len(b)
        <5> HIDE DEF n, la, lb
        <5>1. i <= la /\ i <= p - 1 /\ i <= la + lb
          BY <3>0, <3>1
        <5> QED BY <5>1, <3>0 DEF la, lb
      <4> QED BY <3>1, <4>1, <1>2, <1>7
    <3>2. CASE i >= p
      <4>1. /\ i - (p - 1) \in 1 .. Len(s) - p /\ p + (i - (p - 1)) = i + 1
            /\ ~(i <= Len(a)) /\ i \in 1 .. Len(a) + Len(b)
        <5> HIDE DEF n, la, lb
        <5>1. /\ i - (p - 1) \in 1 .. n - p /\ p + (i - (p - 1)) = i + 1
              /\ ~(i <= la) /\ i \in 1 .. la + lb
          BY <3>0, <3>2
        <5> QED BY <5>1 DEF n, la, lb
      <4>2. r[i] = b[i - (p - 1)] /\ b[i - (p - 1)] = s[p + (i - (p - 1))]
        BY <4>1, <1>2, <1>4, <1>7
      <4> QED BY <3>2, <4>1, <4>2, <1>1
    <3> QED BY <3>1, <3>2, <2>1, <1>1
  <2> QED BY <2>1, <2>2
<1>9. \A i \in 1 .. Len(r) : /\ (IF i < p THEN i ELSE i + 1) \in 1 .. Len(s)
                             /\ (IF i < p THEN i ELSE i + 1) # p
  BY <1>1, <1>8
<1>10. \A i, j \in 1 .. Len(r) : r[i] = r[j] => i = j
  <2>1. \A i, j \in 1 .. Len(r) :
            (IF i < p THEN i ELSE i + 1) = (IF j < p THEN j ELSE j + 1) => i = j
    BY <1>1, <1>8
  <2> QED BY <2>1, <1>1, <1>8, <1>9
<1>11. \A m : Contains(r, m) => Contains(s, m) /\ m # s[p]
  BY <1>1, <1>8, <1>9 DEF Contains
<1> QED BY <1>6, <1>10, <1>11, OnList

\* The thread takes the first tasklet off the list.
LEMMA FirstTaken ==
    ASSUME NEW s \in Seq(Tasklets), IsInjective(s), s # <<>>
    PROVE  /\ Head(s) \in Tasklets /\ Contains(s, Head(s))
           /\ Tail(s) \in Seq(Tasklets) /\ IsInjective(Tail(s))
           /\ \A m : Contains(Tail(s), m) => Contains(s, m) /\ m # Head(s)
<1>1. Len(s) \in Nat /\ \A i, j \in 1 .. Len(s) : s[i] = s[j] => i = j
  BY OnList
<1>2. /\ Head(s) = s[1] /\ Len(s) >= 1 /\ Head(s) \in Tasklets
  BY <1>1, EmptySeq, OnList
<1>3. PICK r \in Seq(Tasklets) : r = Tail(s)
  BY HeadTailProperties
<1>4. Len(r) = Len(s) - 1 /\ \A i \in 1 .. Len(s) - 1 : r[i] = s[i + 1]
  BY <1>3, HeadTailProperties
<1>5. \A i, j \in 1 .. Len(r) : r[i] = r[j] => i = j
  BY <1>1, <1>4
<1>6. \A m : Contains(r, m) => Contains(s, m) /\ m # Head(s)
  BY <1>1, <1>2, <1>4 DEF Contains
<1>7. IsInjective(r)
  BY <1>5, OnList
<1>8. Contains(s, Head(s))
  BY <1>1, <1>2 DEF Contains
<1> QED BY <1>2, <1>3, <1>6, <1>7, <1>8

\* TAILQ_REMOVE of a tasklet, wherever it is on the list.
LEMMA TakenOff ==
    ASSUME Types, IsInjective(list), NEW k \in Tasklets
    PROVE  /\ Without(k) \in Seq(Tasklets) /\ IsInjective(Without(k))
           /\ \A m : Contains(Without(k), m) => Listed(m) /\ m # k
<1>1. list \in Seq(Tasklets)
  BY DEF Types
<1>2. CASE Listed(k)
  <2>1. PICK p \in 1 .. Len(list) : p = CHOOSE i \in 1 .. Len(list) : list[i] = k
    BY <1>2 DEF Listed, Contains
  <2>2. list[p] = k
    BY <1>2, <2>1 DEF Listed, Contains
  <2>3. Without(k) = RemoveAt(list, p)
    BY <1>2, <2>1 DEF Without
  <2> QED BY <1>1, <2>2, <2>3, Removed DEF Listed
<1>3. CASE ~Listed(k)
  BY <1>1, <1>3 DEF Without, Listed
<1> QED BY <1>2, <1>3

-----------------------------------------------------------------------------
(* The inductive invariant.                                                *)
(*                                                                         *)
(* ListSound alone is not inductive: that nobody inserts what is listed    *)
(* needs that whoever has read the bit clear still finds it so when it     *)
(* sets it, for only its own thread sets it (SingleCaller), and that the   *)
(* bit covers what is on the list and what is about to be, so that systq,  *)
(* which clears it of what it takes off, uncovers nothing.                 *)

\* TInv at the start, with no tasklet marked.
LEMMA InitTInv == Init => TInv
<1> SUFFICES ASSUME Init PROVE TInv
  OBVIOUS
<1>1. list = <<>> /\ list \in Seq(Tasklets) /\ Len(list) = 0
  BY EmptySeq DEF Init
<1>2. Types
  BY <1>1 DEF Init, Types
<1>3. CallOK
  BY DEF Init, CallOK
<1>4. IsInjective(list) /\ \A k : ~Listed(k)
  <2>1. 1 .. Len(list) = {}
    BY <1>1
  <2>2. IsInjective(list)
    BY <1>1, <2>1, OnList
  <2>3. \A k : ~Listed(k)
    BY <2>1 DEF Listed, Contains
  <2> QED BY <2>2, <2>3
<1>5. ListSound
  BY <1>4 DEF Init, ListSound
<1> QED BY <1>2, <1>3, <1>5 DEF TInv

\* A tasklet in two callers' hands is in those of one.
LEMMA OneCaller ==
    ASSUME SingleCaller, TInv, NEW t \in Callers, NEW u \in Callers, arg[u] = arg[t],
           pc[t] \in {"set", "insert", "kill"}, pc[u] \in {"set", "insert", "kill"}
    PROVE  u = t
<1>1. arg[t] \in Tasklets
  BY DEF TInv, Types
<1>2. /\ <<t, arg[t]>> \in Schedules \cup Kills
      /\ <<u, arg[t]>> \in Schedules \cup Kills
  BY DEF TInv, CallOK
<1> QED BY <1>1, <1>2 DEF SingleCaller

\* The first half of tasklet_schedule's test_and_set_bit.
LEMMA TestSchedTInv ==
    ASSUME TInv, NEW t \in Callers, NEW k \in Tasklets, TestSched(t, k)
    PROVE  TInv'
<1>1. Types'
  BY DEF TInv, Types, TestSched, Call
<1>2. /\ pc' = [pc EXCEPT ![t] = "set"] /\ arg' = [arg EXCEPT ![t] = k]
      /\ was' = [was EXCEPT ![t] = k \in sched] /\ UNCHANGED <<list, sched>>
      /\ <<t, k>> \in Schedules
  BY DEF TestSched, Call
<1>3. CallOK'
  BY <1>2 DEF TInv, Types, CallOK
<1>4. ListSound'
  BY <1>2 DEF TInv, Types, ListSound, Listed
<1> QED BY <1>1, <1>3, <1>4 DEF TInv

\* The second half: only this thread marks the tasklet.
LEMMA SetSchedTInv ==
    ASSUME SingleCaller, TInv, NEW t \in Callers, SetSched(t)
    PROVE  TInv'
<1>1. Types'
  BY DEF TInv, Types, SetSched
<1>2. /\ pc[t] = "set" /\ pc' = [pc EXCEPT ![t] = IF was[t] THEN "idle" ELSE "insert"]
      /\ was' = [was EXCEPT ![t] = FALSE] /\ sched' = sched \cup {arg[t]}
      /\ UNCHANGED <<list, arg>>
  BY DEF SetSched
<1>3. \A u \in Callers : u # t /\ pc[u] = "set" => arg[u] # arg[t]
  BY <1>2, OneCaller DEF TInv, CallOK
<1>4. CallOK'
  BY <1>2, <1>3 DEF TInv, Types, CallOK
<1>5. ~was[t] => ~Listed(arg[t])
  BY <1>2 DEF TInv, Types, CallOK, ListSound
<1>6. ListSound'
  BY <1>2, <1>5 DEF TInv, Types, ListSound, Listed
<1> QED BY <1>1, <1>4, <1>6 DEF TInv

\* __tasklet_schedule inserts a tasklet that is not on the list, and wakes systq.
LEMMA InsertTInv ==
    ASSUME SingleCaller, TInv, NEW t \in Callers, Insert(t)
    PROVE  TInv' /\ corrupt' = corrupt
<1> DEFINE k == arg[t]
<1>1. /\ pc[t] = "insert" /\ pc' = [pc EXCEPT ![t] = "idle"]
      /\ k \in Tasklets /\ k \in sched /\ ~Listed(k) /\ list' = Append(list, k)
      /\ UNCHANGED <<sched, arg, was, cur>> /\ corrupt' = corrupt
      /\ tpc' = IF tpc = "asleep" THEN "loop" ELSE tpc
  BY DEF Insert, TInv, Types, CallOK, ListSound
<1>2. /\ list' \in Seq(Tasklets) /\ IsInjective(list')
      /\ \A m : Listed(m)' <=> Listed(m) \/ m = k
  BY <1>1, Inserted DEF TInv, Types, ListSound, Listed
<1>3. Types'
  BY <1>1, <1>2 DEF TInv, Types
<1>4. CallOK'
  BY <1>1 DEF TInv, Types, CallOK
<1>5. \A u \in Callers : u # t /\ pc[u] = "insert" => arg[u] # k
  BY <1>1, OneCaller DEF TInv, CallOK
<1>6. ListSound'
  BY <1>1, <1>2, <1>5 DEF TInv, Types, ListSound
<1> QED BY <1>1, <1>3, <1>4, <1>6 DEF TInv

\* The test of the bit that tasklet_kill makes without the mutex.
LEMMA KillTestTInv ==
    ASSUME TInv, NEW t \in Callers, NEW k \in Tasklets, KillTest(t, k)
    PROVE  TInv'
<1>1. Types'
  BY DEF TInv, Types, KillTest, Call
<1>2. /\ pc' = [pc EXCEPT ![t] = "kill"] /\ arg' = [arg EXCEPT ![t] = k]
      /\ UNCHANGED <<list, sched, was>> /\ <<t, k>> \in Kills
  BY DEF KillTest, Call
<1>3. CallOK'
  BY <1>2 DEF TInv, Types, CallOK
<1>4. ListSound'
  BY <1>2 DEF TInv, Types, ListSound, Listed
<1> QED BY <1>1, <1>3, <1>4 DEF TInv

\* tasklet_kill, under the mutex: nobody else is about to insert the tasklet.
LEMMA KillRemoveTInv ==
    ASSUME SingleCaller, TInv, NEW t \in Callers, KillRemove(t)
    PROVE  TInv'
<1> DEFINE k == arg[t]
<1>1. /\ pc[t] = "kill" /\ pc' = [pc EXCEPT ![t] = "idle"] /\ k \in Tasklets
      /\ UNCHANGED <<arg, was, tpc, cur>> /\ <<t, k>> \in Kills
  BY DEF KillRemove, TInv, Types, CallOK
<1>2. CASE UNCHANGED <<list, corrupt, sched>>
  <2>1. Types'
    BY <1>1, <1>2 DEF TInv, Types
  <2>2. CallOK' /\ ListSound'
    BY <1>1, <1>2 DEF TInv, Types, CallOK, ListSound, Listed
  <2> QED BY <2>1, <2>2 DEF TInv
<1>3. CASE list' = Without(k) /\ sched' = sched \ {k} /\ corrupt' = (corrupt \/ ~Listed(k))
  <2>1. /\ list' \in Seq(Tasklets) /\ IsInjective(list')
        /\ \A m : Listed(m)' => Listed(m) /\ m # k
    BY <1>1, <1>3, TakenOff DEF TInv, ListSound, Listed
  <2>2. Types'
    BY <1>1, <1>3, <2>1 DEF TInv, Types
  <2>3. \A u \in Callers : pc[u] = "insert" => arg[u] # k
    BY <1>1, OneCaller DEF TInv, CallOK
  <2>4. CallOK'
    BY <1>1, <1>3, <2>3 DEF TInv, Types, CallOK
  <2>5. ListSound'
    BY <1>1, <1>3, <2>1 DEF TInv, Types, ListSound
  <2> QED BY <2>2, <2>4, <2>5 DEF TInv
<1> QED BY <1>2, <1>3 DEF KillRemove

\* tasklet_action_common takes the first tasklet, and clears its bit.
LEMMA TakeTInv ==
    ASSUME TInv, Take
    PROVE  TInv'
<1>1. /\ list # <<>> /\ list' = Tail(list) /\ sched' = sched \ {Head(list)}
      /\ cur' = {Head(list)} /\ tpc' = "func" /\ UNCHANGED <<corrupt, pc, arg, was>>
  BY DEF Take, callVars
<1>2. /\ Head(list) \in Tasklets /\ Listed(Head(list))
      /\ list' \in Seq(Tasklets) /\ IsInjective(list')
      /\ \A m : Listed(m)' => Listed(m) /\ m # Head(list)
  BY <1>1, FirstTaken DEF TInv, Types, ListSound, Listed
<1>3. Types'
  BY <1>1, <1>2 DEF TInv, Types
<1>4. CallOK'
  BY <1>1, <1>2 DEF TInv, Types, CallOK, ListSound
<1>5. ListSound'
  BY <1>1, <1>2 DEF TInv, Types, ListSound
<1> QED BY <1>3, <1>4, <1>5 DEF TInv

\* What leaves the list and the bits alone.
LEMMA QuietTInv ==
    ASSUME TInv, Wait \/ FuncReturn \/ UNCHANGED vars
    PROVE  TInv'
<1>1. UNCHANGED <<list, corrupt, sched, pc, arg, was>>
  BY DEF Wait, FuncReturn, callVars, vars
<1>2. Types'
  BY <1>1 DEF TInv, Types, Wait, FuncReturn, vars
<1>3. CallOK' /\ ListSound'
  BY <1>1 DEF TInv, CallOK, ListSound, Listed
<1> QED BY <1>2, <1>3 DEF TInv

\* Every step of the callers and of systq keeps TInv.
LEMMA NextTInv ==
    ASSUME SingleCaller, TInv, [Next]_vars
    PROVE  TInv'
BY TestSchedTInv, SetSchedTInv, InsertTInv, KillTestTInv, KillRemoveTInv, TakeTInv, QuietTInv
   DEF Next, CallStep

\* TInv holds throughout, if each tasklet is scheduled and killed from one thread.
THEOREM TInvHolds == SingleCaller => (Spec => []TInv)
<1>1. CASE SingleCaller
  <2>1. SingleCaller /\ TInv /\ [Next]_vars => TInv'
    BY NextTInv
  <2> QED BY <1>1, <2>1, InitTInv, PTL DEF Spec
<1> QED BY <1>1

\* The variables of the tasklet code have their types, and systq has a current tasklet
\* exactly while it runs one.
THEOREM TaskletTypeCorrect == SingleCaller => (Spec => []TypeOK)
<1>1. TInv => TypeOK
  <2> SUFFICES ASSUME TInv PROVE TypeOK
    OBVIOUS
  <2>1. \E S \in {{}} \cup {{k} : k \in Tasklets} : cur = S
    BY DEF TInv, Types
  <2> QED BY <2>1 DEF TInv, Types, TypeOK
<1> QED BY <1>1, TInvHolds, PTL

\* tasklet_schedule inserts no tasklet that is on the list already, and everything on
\* the list is marked, whatever tasklet_kill and systq do meanwhile.
THEOREM ListStaysSound == SingleCaller => (Spec => []ListSound)
<1>1. TInv => ListSound
  BY DEF TInv
<1> QED BY <1>1, TInvHolds, PTL

\* The only way to damage the TAILQ is a tasklet_kill that trusts a bit nobody stands
\* for any more.
THEOREM DamageByStuckBit == SingleCaller => (Spec => CorruptByStuckBit)
<1> DEFINE Damage == corrupt' /\ ~corrupt => \E t \in Threads : KillRemove(t) /\ Stuck(arg[t])
<1>1. ASSUME SingleCaller, TInv, [Next]_vars PROVE Damage
  <2> SUFFICES ASSUME corrupt', ~corrupt
               PROVE  \E t \in Threads : KillRemove(t) /\ Stuck(arg[t])
    OBVIOUS
  <2>1. PICK t \in Callers : KillRemove(t)
    BY <1>1, InsertTInv DEF Next, CallStep, TestSched, KillTest, SetSched, Wait, Take, FuncReturn,
       vars
  <2>2. /\ pc[t] = "kill" /\ <<t, arg[t]>> \in Kills /\ arg[t] \in sched /\ ~Listed(arg[t])
    BY <1>1, <2>1 DEF KillRemove, TInv, CallOK
  <2>3. t \in Threads
    BY <2>2, TaskletAssumption
  <2>4. \A u \in Callers : arg[u] = arg[t] => pc[u] # "insert"
    BY <1>1, <2>2, OneCaller DEF TInv, CallOK
  <2> QED BY <2>1, <2>2, <2>3, <2>4 DEF Stuck
<1>2. CASE SingleCaller
  <2>1. SingleCaller /\ TInv /\ [Next]_vars => Damage
    BY <1>1
  <2>2. Spec => [][Damage]_vars
    BY <1>2, <2>1, TInvHolds, PTL DEF Spec
  <2> QED BY <2>2 DEF CorruptByStuckBit
<1> QED BY <1>2
=============================================================================

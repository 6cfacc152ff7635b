------------------------------ MODULE Tasklet ------------------------------
(***************************************************************************)
(* The tasklets of the Linux shim (include/linux/task.c and task.h): one    *)
(* queue, systq, and one thread, tasklet_action_common, that runs what is   *)
(* scheduled.                                                               *)
(*                                                                          *)
(* The list is a sequence here, for the thread and the callers only touch   *)
(* it under tq->mtx and the thread looks at it again whenever it wakes (the *)
(* workqueue does neither).  What a TAILQ does when an entry is inserted    *)
(* twice, or removed when it is not on it, is undefined: from then on the   *)
(* list is corrupt, and nothing is said of it but that.                     *)
(***************************************************************************)
EXTENDS Naturals, FiniteSets, SequencesExt

CONSTANTS
    Tasklets,
    Threads,    \* the threads that schedule and kill, but for systq's own
    Systq,      \* the thread taskletq_create starts
    Schedules,  \* the pairs <<thread, tasklet>> of the calls of tasklet_schedule
    Kills       \* the same for tasklet_kill

Callers == Threads \cup {Systq}

ASSUME TaskletAssumption ==
    /\ Systq \notin Threads
    /\ Schedules \subseteq Callers \X Tasklets
    /\ Kills \subseteq Threads \X Tasklets

VARIABLES
    list,       \* tq->list
    corrupt,    \* the TAILQ's pointers have been damaged
    sched,      \* the tasklets whose TASKLET_STATE_SCHED bit is set
    pc, arg,    \* where each caller is, and the tasklet it calls for
    was,        \* the bit test_and_set_bit read
    tpc,        \* where tasklet_action_common is
    cur         \* the tasklet it is running, as a set of at most one

callVars == <<pc, arg, was>>
vars == <<list, corrupt, sched, pc, arg, was, tpc, cur>>

Init ==
    /\ list = <<>>
    /\ corrupt = FALSE
    /\ sched = {}
    /\ pc = [t \in Callers |-> "idle"]
    /\ \E k \in Tasklets : arg = [t \in Callers |-> k]
    /\ was = [t \in Callers |-> FALSE]
    /\ tpc = "loop"
    /\ cur = {}

Listed(k) == Contains(list, k)

\* TAILQ_REMOVE of an entry that is on the list.
Without(k) ==
    IF Listed(k) THEN RemoveAt(list, CHOOSE i \in 1 .. Len(list) : list[i] = k) ELSE list

\* tasklet_action_common calls only from the functions it runs.
MayCall(t) == pc[t] = "idle" /\ (t = Systq => tpc = "func")

Call(t, k, step) ==
    /\ MayCall(t)
    /\ pc' = [pc EXCEPT ![t] = step]
    /\ arg' = [arg EXCEPT ![t] = k]

-----------------------------------------------------------------------------
(* tasklet_schedule                                                        *)

\* test_and_set_bit reads the bit ...
TestSched(t, k) ==
    /\ <<t, k>> \in Schedules
    /\ Call(t, k, "set")
    /\ was' = [was EXCEPT ![t] = k \in sched]
    /\ UNCHANGED <<list, corrupt, sched, tpc, cur>>

\* Slip: every call finds the bit clear.
SetSched_Untested(t) ==
    /\ pc[t] = "set"
    /\ sched' = sched \cup {arg[t]}
    /\ pc' = [pc EXCEPT ![t] = "insert"]
    /\ was' = [was EXCEPT ![t] = FALSE]
    /\ UNCHANGED <<list, corrupt, arg, tpc, cur>>

\* ... and sets it, whatever it read.
SetSched(t) ==
    /\ pc[t] = "set"
    /\ sched' = sched \cup {arg[t]}
    /\ pc' = [pc EXCEPT ![t] = IF was[t] THEN "idle" ELSE "insert"]
    /\ was' = [was EXCEPT ![t] = FALSE]
    /\ UNCHANGED <<list, corrupt, arg, tpc, cur>>

\* Slip: no signal.
Insert_Silent(t) ==
    /\ pc[t] = "insert"
    /\ list' = IF Listed(arg[t]) THEN list ELSE Append(list, arg[t])
    /\ corrupt' = (corrupt \/ Listed(arg[t]))
    /\ pc' = [pc EXCEPT ![t] = "idle"]
    /\ UNCHANGED <<sched, arg, was, tpc, cur>>

\* __tasklet_schedule: insert and signal, under tq->mtx.
Insert(t) ==
    /\ pc[t] = "insert"
    /\ list' = IF Listed(arg[t]) THEN list ELSE Append(list, arg[t])
    /\ corrupt' = (corrupt \/ Listed(arg[t]))
    /\ tpc' = IF tpc = "asleep" THEN "loop" ELSE tpc
    /\ pc' = [pc EXCEPT ![t] = "idle"]
    /\ UNCHANGED <<sched, arg, was, cur>>

-----------------------------------------------------------------------------
(* tasklet_kill                                                            *)

\* The first test of the bit is made without the mutex.
KillTest(t, k) ==
    /\ <<t, k>> \in Kills
    /\ k \in sched
    /\ Call(t, k, "kill")
    /\ UNCHANGED <<list, corrupt, sched, was, tpc, cur>>

\* Slip: the bit is not tested again under the mutex.
KillRemove_Untested(t) ==
    /\ pc[t] = "kill"
    /\ pc' = [pc EXCEPT ![t] = "idle"]
    /\ list' = Without(arg[t])
    /\ corrupt' = (corrupt \/ ~Listed(arg[t]))
    /\ sched' = sched \ {arg[t]}
    /\ UNCHANGED <<arg, was, tpc, cur>>

\* The second, with it: a tasklet whose bit is set is taken off the list.
KillRemove(t) ==
    /\ pc[t] = "kill"
    /\ pc' = [pc EXCEPT ![t] = "idle"]
    /\ IF arg[t] \in sched
       THEN /\ list' = Without(arg[t])
            /\ corrupt' = (corrupt \/ ~Listed(arg[t]))
            /\ sched' = sched \ {arg[t]}
       ELSE UNCHANGED <<list, corrupt, sched>>
    /\ UNCHANGED <<arg, was, tpc, cur>>

-----------------------------------------------------------------------------
(* tasklet_action_common                                                   *)

\* With tq->mtx held the list is empty: pthread_cond_wait, which releases it.
Wait ==
    /\ tpc = "loop"
    /\ list = <<>>
    /\ tpc' = "asleep"
    /\ UNCHANGED <<list, corrupt, sched, callVars, cur>>

\* It is not: take the first tasklet off, clear its bit, and call it.
Take ==
    /\ tpc = "loop"
    /\ list # <<>>
    /\ list' = Tail(list)
    /\ sched' = sched \ {Head(list)}
    /\ cur' = {Head(list)}
    /\ tpc' = "func"
    /\ UNCHANGED <<corrupt, callVars>>

\* Slip: cur is left set.
FuncReturn_Keeps ==
    /\ tpc = "func"
    /\ pc[Systq] = "idle"
    /\ tpc' = "loop"
    /\ UNCHANGED <<list, corrupt, sched, callVars, cur>>

FuncReturn ==
    /\ tpc = "func"
    /\ pc[Systq] = "idle"
    /\ cur' = {}
    /\ tpc' = "loop"
    /\ UNCHANGED <<list, corrupt, sched, callVars>>

-----------------------------------------------------------------------------
CallStep(t) == SetSched(t) \/ Insert(t) \/ KillRemove(t)

\* A corrupt list has no defined next step.
Next ==
    /\ ~corrupt
    /\ \/ \E t \in Callers :
             CallStep(t) \/ \E k \in Tasklets : TestSched(t, k) \/ KillTest(t, k)
       \/ Wait \/ Take \/ FuncReturn

\* Callers finish their calls, systq is scheduled, and tasklet functions return.
Fairness ==
    /\ \A t \in Callers : WF_vars(CallStep(t))
    /\ WF_vars(Wait) /\ WF_vars(Take)
    /\ SF_vars(FuncReturn)

Spec == Init /\ [][Next]_vars
FairSpec == Spec /\ Fairness

-----------------------------------------------------------------------------
\* The rule tasklet_schedule and tasklet_kill need: one thread makes all the
\* calls for a tasklet.
SingleCaller ==
    \A t, u \in Callers : \A k \in Tasklets :
        {<<t, k>>, <<u, k>>} \subseteq Schedules \cup Kills => t = u

\* The bit is set, and the tasklet neither listed nor about to be: every call of
\* tasklet_schedule from now on returns without doing anything.
Stuck(k) ==
    /\ k \in sched /\ ~Listed(k)
    /\ \A t \in Callers : arg[t] = k => pc[t] # "insert"

\* Every variable has its type, and systq is running a tasklet exactly when it
\* is in a tasklet's function.
TypeOK ==
    /\ list \in Seq(Tasklets)
    /\ corrupt \in BOOLEAN
    /\ sched \subseteq Tasklets
    /\ pc \in [Callers -> {"idle", "set", "insert", "kill"}]
    /\ arg \in [Callers -> Tasklets]
    /\ was \in [Callers -> BOOLEAN]
    /\ tpc \in {"loop", "func", "asleep"}
    /\ \E S \in {{}} \cup {{k} : k \in Tasklets} : cur = S
    /\ cur # {} <=> tpc = "func"

\* No tasklet is inserted when it is on the list already, and no list entry has
\* its bit clear: the next tasklet_schedule would insert it a second time.
ListSound ==
    /\ \A t \in Callers : pc[t] = "insert" => ~Listed(arg[t])
    /\ \A k \in Tasklets : Listed(k) => k \in sched
    /\ IsInjective(list)

\* tasklet_kill takes a tasklet off a list it is not on, and so damages it, only
\* when the bit it trusts was set with the tasklet in nobody's hands: by the
\* thread's own earlier tasklet_schedule, racing with systq.  No other
\* interleaving of one thread's calls with systq's does.
CorruptByStuckBit ==
    [][corrupt' /\ ~corrupt =>
          \E t \in Threads : KillRemove(t) /\ Stuck(arg[t])]_vars

\* "If tasklet_schedule() is called, then tasklet is guaranteed to be executed
\* on some cpu at least once after this", for the calls that found the bit
\* clear: the tasklet is run, unless it is killed or a kill breaks the list first.
ScheduledRuns ==
    \A k \in Tasklets :
        (\E t \in Callers : pc[t] = "insert" /\ arg[t] = k)
            ~> (k \in cur \/ corrupt \/ \E t \in Threads : pc[t] = "kill" /\ arg[t] = k)
=============================================================================

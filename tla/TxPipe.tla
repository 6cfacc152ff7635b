------------------------------- MODULE TxPipe -------------------------------
(***************************************************************************)
(* What a PCIe transmit queue promises the op mode: a pipe.  Frames come    *)
(* out in the order in which they were accepted, each of them once, and a   *)
(* frame that does not come out has failed on the way.                      *)
(***************************************************************************)
EXTENDS Naturals, Sequences

CONSTANT Frames

VARIABLES
    pipe,   \* the frames accepted and not yet reported, oldest first
    out,    \* those handed back to the op mode as transmitted
    failed  \* those a mapping error kept off the ring

Init == pipe = <<>> /\ out = {} /\ failed = {}

Accept(f) ==
    /\ \A i \in DOMAIN pipe : pipe[i] # f
    /\ f \notin out \cup failed
    /\ pipe' = Append(pipe, f)
    /\ UNCHANGED <<out, failed>>

\* The device reports everything up to the n-th frame.
Report(n) ==
    /\ pipe' = SubSeq(pipe, n + 1, Len(pipe))
    /\ out' = out \cup {pipe[i] : i \in 1 .. n}
    /\ UNCHANGED failed

Fail(i) ==
    /\ pipe' = SubSeq(pipe, 1, i - 1) \o SubSeq(pipe, i + 1, Len(pipe))
    /\ failed' = failed \cup {pipe[i]}
    /\ UNCHANGED out

Next ==
    \/ \E f \in Frames : Accept(f)
    \/ \E i \in 1 .. Len(pipe) : Report(i) \/ Fail(i)

Spec == Init /\ [][Next]_<<pipe, out, failed>>
=============================================================================

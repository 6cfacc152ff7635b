--------------------------- MODULE MCDelayedWork ---------------------------
(***************************************************************************)
(* A delayed item d1 that a thread queues, and modifies in the places that   *)
(* ModFrom has, a delayed item d2 that its own function queues again, as     *)
(* scan_work does, and an item w1 queued from the workloop, as the interrupt *)
(* handler does.                                                             *)
(***************************************************************************)
EXTENDS DelayedWork

CONSTANTS d1, d2, w1, t1

MCWorks == {d1, d2, w1}
MCDelayed == {d1, d2}
MCThreads == {t1, Workloop}
MCSubmits == {<<t1, d1>>, <<Worker, d2>>, <<Workloop, w1>>}
\* What keeps the list whole ...
IdleOnly == {"idle"}
\* ... and where mvm/tdls.c:293 and net/mac80211/offchannel.c:767 find their items.
AsCalled == {"idle", "timer"}
=============================================================================

----------------------------- MODULE MCTasklet -----------------------------
(***************************************************************************)
(* tx_pending: scheduled and killed by one thread.  rx: scheduled by the    *)
(* workloop, as ieee80211_rx_irqsafe does.  wake: scheduled by the tasklets *)
(* themselves, which wake queues.                                           *)
(***************************************************************************)
EXTENDS Tasklet

CONSTANTS tx_pending, rx, wake, t1, workloop

MCTasklets == {tx_pending, rx, wake}
MCThreads == {t1, workloop}
MCSchedules == {<<t1, tx_pending>>, <<workloop, rx>>, <<Systq, wake>>}
MCKills == {<<t1, tx_pending>>}
=============================================================================

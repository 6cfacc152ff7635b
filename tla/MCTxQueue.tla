----------------------------- MODULE MCTxQueue -----------------------------
(* TxQueue on a ring of 8 entries, which has the marks of one of 16.         *)
EXTENDS TxQueue

\* Enabled just below the end of the ring, so that the pointers wrap.
MCStarts == {N - 2}
=============================================================================

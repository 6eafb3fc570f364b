----------------------------- MODULE MCTxnStore -----------------------------
(* Small instances of TxnStore: two threads, two transactions.             *)
EXTENDS TxnStore, TLC

CONSTANTS th1, th2, t1, t2

MCThreads == {th1, th2}
MCTxns == {t1, t2}
MCOneTxn == {t1}

\* Threads and transactions are interchangeable in every safety property.
MCSymmetry == Permutations(MCThreads) \cup Permutations(MCTxns)
=============================================================================

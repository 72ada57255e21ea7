-------------------------- MODULE MCTransactionStore --------------------------
(* Instances of TransactionStore for TLC: two transactions, the first with a *)
(* nested call.                                                              *)
EXTENDS TransactionStore
CONSTANTS t1, t2, n1
MCCalls == {t1, t2, n1}
MCParent == [c \in Calls |-> IF c = n1 THEN t1 ELSE None]
=============================================================================

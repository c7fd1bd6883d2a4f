------------------------------ MODULE MCEpoch -------------------------------
(* Small instances of EpochSystem for TLC. *)
EXTENDS EpochSystem, TLC

Symm == Permutations(Key)

\* Begin order 1, 2, 3; string order 2, 3, 1 (as "txn-10" before "txn-9").
RotatedRank == [t \in Txn |-> IF t = 1 THEN MaxTxns ELSE t - 1]

\* Three transactions of two client processes: "txn-2", "txn-1" and "txn-1".
TwoEngines == [t \in Txn |-> IF t = 1 THEN 2 ELSE 1]
=============================================================================

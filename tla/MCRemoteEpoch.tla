--------------------------- MODULE MCRemoteEpoch ----------------------------
(* Small instances of RemoteEpoch for TLC. *)
EXTENDS RemoteEpoch

\* String order of the ids is not the order of Begin.
ReversedRank == [t \in Txn |-> MaxTxns - t]
=============================================================================

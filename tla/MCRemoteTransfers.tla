------------------------- MODULE MCRemoteTransfers --------------------------
(* Small instances of RemoteTransfers for TLC. *)
EXTENDS RemoteTransfers

Empty == << >>

Amounts == Numerals(InitialBalance + MaxTransfer * MaxTxns)

=============================================================================

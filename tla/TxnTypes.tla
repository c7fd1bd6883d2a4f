------------------------------ MODULE TxnTypes ------------------------------
(***************************************************************************)
(* The values that the execution layer, the certifier and the storage      *)
(* layer exchange (pkg/types/types.go), and what they say about a          *)
(* transaction's write set.                                                *)
(*                                                                         *)
(* Go's zero values are kept as such: a key that is missing from a map     *)
(* reads as the empty string with version 0.  LoadInitialData stores       *)
(* version 1 and the certifiers increment commitSeq before they use it, so *)
(* version 0 never belongs to a stored entry and stands for "not found".   *)
(***************************************************************************)
EXTENDS Naturals, Sequences, FiniteSetsExt

CONSTANTS
    Key,        \* keys of the store
    Value,      \* values, the empty string included
    NoValue,    \* the empty string: the value of a key that is not found
    MaxTxns     \* bound: how many transactions are begun

ASSUME ValueAssumption == NoValue \in Value

ASSUME MaxTxnsAssumption == MaxTxns \in Nat

\* Engine.Begin names transactions "txn-1", "txn-2", ... by counting.
Txn == 1 .. MaxTxns

NoTxn == 0

ReadEntry == [key : Key, versionSeen : Nat]

WriteEntry == [key : Key, value : Value]

CommitWrite == [key : Key, value : Value, newVersion : Nat]

TxnRequest == [txnID : Txn, readSet : SUBSET ReadEntry, writeSet : Seq(WriteEntry)]

\* TxnResult.  "none": SubmitCommit has not produced a result yet.  The
\* reasons of an abort are told apart: a stale read, a write-write conflict
\* within an epoch, an error of the store.
Decision == {"none", "committed", "stale", "conflict", "error"}

TxnResult == [decision : Decision, commitSeq : Nat]

NoResult == [decision |-> "none", commitSeq |-> 0]

Committed(seq) == [decision |-> "committed", commitSeq |-> seq]

Aborted(reason) == [decision |-> reason, commitSeq |-> 0]

ReadResult == [value : Value, version : Nat]

Found(r) == r.version # 0

NotFound == [value |-> NoValue, version |-> 0]

(***************************************************************************)
(* A write set is the list of the writes in the order they were made.      *)
(* When a key occurs more than once its last write is the one that counts. *)
(***************************************************************************)
KeysOf(ws) == {ws[i].key : i \in 1 .. Len(ws)}

LastIndex(ws, k) == Max({i \in 1 .. Len(ws) : ws[i].key = k})

LastWrite(ws, k) == ws[LastIndex(ws, k)]
=============================================================================

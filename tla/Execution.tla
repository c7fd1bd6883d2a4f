----------------------------- MODULE Execution ------------------------------
(***************************************************************************)
(* The execution layer: Engine and Txn of pkg/execution/execution.go.      *)
(* Every transaction is driven by one goroutine; transactions run          *)
(* concurrently with each other and share nothing but the store and the    *)
(* certifier.  An operation on a transaction that is not active returns an *)
(* error and changes nothing (checkActive), so it is not a step.           *)
(***************************************************************************)
EXTENDS MemStore

CONSTANT MaxWrites   \* bound: how many writes a transaction buffers

ASSUME MaxWritesAssumption == MaxWrites \in Nat

VARIABLES
    idCounter,   \* Engine.idCounter
    state,       \* Txn.aborted, Txn.committed, and whether Commit is running
    readSet,     \* Txn.ReadSet, which Txn.readVersions indexes by key
    writeSet,    \* Txn.WriteSet, of which Txn.writeBuffer is the last writes
    observed     \* what Read returned from the store to the application

execVars == <<idCounter, state, readSet, writeSet, observed>>

TxnState == {"unborn", "active", "submitted", "committed", "aborted"}

Observation == [key : Key, value : Value]

ExecTypeOK ==
    /\ idCounter \in 0 .. MaxTxns
    /\ state \in [Txn -> TxnState]
    /\ readSet \in [Txn -> SUBSET ReadEntry]
    /\ writeSet \in [Txn -> Seq(WriteEntry)]
    /\ observed \in [Txn -> SUBSET Observation]
    \* readVersions, a map, holds the read set.
    /\ \A t \in Txn : \A r, s \in readSet[t] : r.key = s.key => r = s

NewEngine ==
    /\ idCounter = 0
    /\ state = [t \in Txn |-> "unborn"]
    /\ readSet = [t \in Txn |-> {}]
    /\ writeSet = [t \in Txn |-> << >>]
    /\ observed = [t \in Txn |-> {}]

Begin ==
    /\ idCounter < MaxTxns
    /\ idCounter' = idCounter + 1
    /\ state' = [state EXCEPT ![idCounter + 1] = "active"]
    /\ UNCHANGED <<readSet, writeSet, observed>>

\* checkActive returns no error.
Active(t) == state[t] = "active"

Seen(t, k) == \E r \in readSet[t] : r.key = k

\* Mutants: every read of a key enters the read set; the read set follows
\* the latest read of the key, not the first.
RecordReadAgain(t, k, version) ==
    readSet' = [readSet EXCEPT ![t] = @ \cup {[key |-> k, versionSeen |-> version]}]

RecordReadLatest(t, k, version) ==
    readSet' = [readSet EXCEPT ![t] =
                   {r \in @ : r.key # k} \cup {[key |-> k, versionSeen |-> version]}]

\* Only the first storage read of a key enters the read set.
RecordRead(t, k, version) ==
    readSet' = IF Seen(t, k)
               THEN readSet
               ELSE [readSet EXCEPT ![t] = @ \cup {[key |-> k, versionSeen |-> version]}]

\* Read of a key the transaction has not written, with the result that the
\* store returned.  A key it has written is answered from the write buffer
\* (read-your-own-writes), which changes nothing.
ReadFrom(t, k, result) ==
    /\ Active(t)
    /\ k \notin KeysOf(writeSet[t])
    /\ RecordRead(t, k, result.version)
    /\ observed' = [observed EXCEPT ![t] = @ \cup {[key |-> k, value |-> result.value]}]
    /\ UNCHANGED <<idCounter, state, writeSet>>

Read(t, k) == ReadFrom(t, k, Get(k))

Write(t, k, v) ==
    /\ Active(t)
    /\ Len(writeSet[t]) < MaxWrites
    /\ writeSet' = [writeSet EXCEPT ![t] = Append(@, [key |-> k, value |-> v])]
    /\ UNCHANGED <<idCounter, state, readSet, observed>>

\* The request that Commit builds from the transaction.
Request(t) == [txnID |-> t, readSet |-> readSet[t], writeSet |-> writeSet[t]]

\* Commit calls SubmitCommit ...
Commit(t) ==
    /\ Active(t)
    /\ state' = [state EXCEPT ![t] = "submitted"]
    /\ UNCHANGED <<idCounter, readSet, writeSet, observed>>

\* ... and marks the transaction when SubmitCommit has returned.
CommitReturn(t, result) ==
    /\ state[t] = "submitted"
    /\ result.decision # "none"
    /\ state' = [state EXCEPT ![t] = IF result.decision = "committed"
                                     THEN "committed" ELSE "aborted"]
    /\ UNCHANGED <<idCounter, readSet, writeSet, observed>>

\* Abort has no guard in the code: the caller may also abort a transaction
\* whose Commit has returned, and checkActive then reports it as aborted.
Abort(t) ==
    /\ state[t] \in {"active", "committed"}
    /\ state' = [state EXCEPT ![t] = "aborted"]
    /\ UNCHANGED <<idCounter, readSet, writeSet, observed>>
=============================================================================

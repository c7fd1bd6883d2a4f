------------------------------ MODULE MemStore ------------------------------
(***************************************************************************)
(* The storage layer: MemStore of pkg/storage/storage.go.  Its methods run *)
(* under one read-write mutex, so each of them is one atomic step.         *)
(***************************************************************************)
EXTENDS TxnTypes

VARIABLE data   \* MemStore.data, NotFound for the keys it does not hold

StoreTypeOK == data \in [Key -> ReadResult]

NewMemStore == [k \in Key |-> NotFound]

Get(k) == data[k]

DumpState == data

\* LoadInitialData overwrites the given keys and gives all of them version 1.
Loaded(d, initial) ==
    [k \in Key |-> IF k \in DOMAIN initial
                   THEN [value |-> initial[k], version |-> 1]
                   ELSE d[k]]

\* Mutants: a check that is off by one; no check; a loop that keeps a key's
\* first write.
RejectedOffByOne(writes) ==
    \E i \in 1 .. Len(writes) :
        /\ Found(data[writes[i].key])
        /\ writes[i].newVersion <= data[writes[i].key].version + 1

RejectedNever(writes) == FALSE

AppliedFirstWins(d, writes) ==
    [k \in Key |->
        IF k \in KeysOf(writes)
        THEN LET w == writes[Min({i \in 1 .. Len(writes) : writes[i].key = k})]
             IN  [value |-> w.value, version |-> w.newVersion]
        ELSE d[k]]

\* The check ApplyCommit makes of every write before it applies any.
Rejected(writes) ==
    \E i \in 1 .. Len(writes) :
        /\ Found(data[writes[i].key])
        /\ writes[i].newVersion <= data[writes[i].key].version

Applied(d, writes) ==
    [k \in Key |->
        IF k \in KeysOf(writes)
        THEN [value   |-> LastWrite(writes, k).value,
              version |-> LastWrite(writes, k).newVersion]
        ELSE d[k]]

\* ApplyCommit: every write of the record or, on an error, none of them.
ApplyCommit(writes) ==
    data' = IF Rejected(writes) THEN data ELSE Applied(data, writes)
=============================================================================

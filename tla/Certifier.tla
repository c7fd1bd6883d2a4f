----------------------------- MODULE Certifier ------------------------------
(***************************************************************************)
(* What the two implementations of the Certifier interface                 *)
(* (pkg/ccaas/ccaas.go) have in common: the version map, the commit        *)
(* counter, the read-set validation and the commit record.                 *)
(***************************************************************************)
EXTENDS MemStore

VARIABLES
    latestVersion,   \* version of each key's last certified write, 0 if none
    commitSeq,       \* the last commit sequence number handed out
    result           \* the TxnResult of each transaction's SubmitCommit

certVars == <<latestVersion, commitSeq, result>>

CertTypeOK ==
    /\ latestVersion \in [Key -> Nat]
    /\ commitSeq \in Nat
    /\ result \in [Txn -> TxnResult]

VersionsIn(dump) == [k \in Key |-> dump[k].version]

MaxVersion(dump) == Max({0} \cup {dump[k].version : k \in Key})

\* Mutants: a certifier that starts without the store's versions; validation
\* that skips the keys that are not in the map.
NewCertifierEmpty ==
    /\ latestVersion = [k \in Key |-> 0]
    /\ commitSeq = 0
    /\ result = [t \in Txn |-> NoResult]

StaleReadFoundOnly(req) ==
    \E r \in req.readSet : r.versionSeen # 0 /\ latestVersion[r.key] # r.versionSeen

\* NewImmediateCertifier and NewEpochCertifier on a store that can be reached.
NewCertifier ==
    /\ latestVersion = VersionsIn(DumpState)
    /\ commitSeq = MaxVersion(DumpState)
    /\ result = [t \in Txn |-> NoResult]

\* Mutant: what the map holds already is kept.
SyncFromStorageMapKept(dump) ==
    /\ latestVersion' = [k \in Key |-> IF latestVersion[k] # 0 THEN latestVersion[k]
                                       ELSE dump[k].version]
    /\ commitSeq' = IF MaxVersion(dump) > commitSeq THEN MaxVersion(dump) ELSE commitSeq
    /\ UNCHANGED result

\* SyncFromStorage replaces the map; the counter never moves back.
SyncFromStorage(dump) ==
    /\ latestVersion' = VersionsIn(dump)
    /\ commitSeq' = IF MaxVersion(dump) > commitSeq THEN MaxVersion(dump) ELSE commitSeq
    /\ UNCHANGED result

\* Mutant: only versions that are ahead of the map's are turned down.
StaleReadAheadOnly(req) == \E r \in req.readSet : latestVersion[r.key] < r.versionSeen

\* A read is stale when the certifier's version of the key is not the one
\* the transaction saw.  A key that is not in the map has to be seen as 0.
StaleRead(req) == \E r \in req.readSet : latestVersion[r.key] # r.versionSeen

\* The writes of the commit record: all of them get the commit's number.
Record(req, seq) ==
    [i \in 1 .. Len(req.writeSet) |->
        [key        |-> req.writeSet[i].key,
         value      |-> req.writeSet[i].value,
         newVersion |-> seq]]

Bumped(req, seq) ==
    [k \in Key |-> IF k \in KeysOf(req.writeSet) THEN seq ELSE latestVersion[k]]

Return(req, res) == result' = [result EXCEPT ![req.txnID] = res]
=============================================================================

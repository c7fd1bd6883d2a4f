--------------------------- MODULE EpochCertifier ---------------------------
(***************************************************************************)
(* EpochCertifier of pkg/ccaas/epoch.go.  SubmitCommit appends to the      *)
(* current batch and waits on a channel of its own; one background         *)
(* goroutine (run) takes the whole batch at every tick, and once more when *)
(* Stop has closed stopCh, and certifies it in the order of the            *)
(* transaction ids.  The order in which requests arrived is forgotten by   *)
(* that sort, so a batch is a set.                                         *)
(***************************************************************************)
EXTENDS Certifier, Integers

CONSTANT IdRank   \* position of each transaction's id in string order

ASSUME IdRankAssumption == IdRank \in [Txn -> Nat]

VARIABLES
    currentBatch,   \* requests waiting for the next epoch
    batch,          \* the requests of the epoch that was started last
    todo,           \* those of them that its loop has not answered yet
    claimedKeys,    \* the id rank that claimed each key in this epoch, or -1
    pc,             \* where the run goroutine is
    draining,       \* it has taken the stopCh case
    stopping,       \* Stop has stopped the ticker and closed stopCh
    startVersion    \* history: latestVersion when the epoch was started

batchVars == <<currentBatch, batch, todo, claimedKeys, startVersion>>

runVars == <<pc, draining, stopping>>

epochVars == <<batchVars, runVars>>

Unclaimed == -1

EpochTypeOK ==
    /\ CertTypeOK
    /\ currentBatch \in SUBSET TxnRequest
    /\ batch \in SUBSET TxnRequest
    /\ todo \subseteq batch
    /\ claimedKeys \in [Key -> Nat \cup {Unclaimed}]
    /\ pc \in {"select", "certify", "apply", "done"}
    /\ draining \in BOOLEAN
    /\ stopping \in BOOLEAN
    /\ startVersion \in [Key -> Nat]

NewEpochCertifier ==
    /\ NewCertifier
    /\ currentBatch = {}
    /\ batch = {}
    /\ todo = {}
    /\ claimedKeys = [k \in Key |-> Unclaimed]
    /\ startVersion = latestVersion
    /\ pc = "select"
    /\ draining = FALSE
    /\ stopping = FALSE

SubmitCommit(req) ==
    /\ currentBatch' = currentBatch \cup {req}
    /\ UNCHANGED <<batch, todo, claimedKeys, startVersion, runVars, certVars, data>>

Stop ==
    /\ ~ stopping
    /\ stopping' = TRUE
    /\ UNCHANGED <<batchVars, pc, draining, certVars, data>>

\* Where run goes once an epoch is over.
AfterEpoch(drain) == IF drain THEN "done" ELSE "select"

\* Mutants: the batch is not reset; the claims of the previous epoch stay.
ProcessEpochBatchKept(drain) ==
    /\ batch' = currentBatch
    /\ todo' = currentBatch
    /\ claimedKeys' = [k \in Key |-> Unclaimed]
    /\ startVersion' = latestVersion
    /\ draining' = drain
    /\ pc' = IF currentBatch = {} THEN AfterEpoch(drain) ELSE "certify"
    /\ UNCHANGED <<currentBatch, stopping, certVars, data>>

ProcessEpochClaimsKept(drain) ==
    /\ batch' = currentBatch
    /\ todo' = currentBatch
    /\ currentBatch' = {}
    /\ startVersion' = latestVersion
    /\ draining' = drain
    /\ pc' = IF currentBatch = {} THEN AfterEpoch(drain) ELSE "certify"
    /\ UNCHANGED <<claimedKeys, stopping, certVars, data>>

\* processEpoch up to its loop: the batch is swapped out under batchMu.
ProcessEpoch(drain) ==
    /\ batch' = currentBatch
    /\ todo' = currentBatch
    /\ currentBatch' = {}
    /\ claimedKeys' = [k \in Key |-> Unclaimed]
    /\ startVersion' = latestVersion
    /\ draining' = drain
    /\ pc' = IF currentBatch = {} THEN AfterEpoch(drain) ELSE "certify"
    /\ UNCHANGED <<stopping, certVars, data>>

\* The two cases of run's select.  A stopped ticker ticks no more.
Tick == pc = "select" /\ ~ stopping /\ ProcessEpoch(FALSE)

StopCase == pc = "select" /\ stopping /\ ProcessEpoch(TRUE)

\* The order of sort.Slice.  Ids are unique per Engine only; which of two
\* requests of different clients with the same id comes first is immaterial,
\* since either may have read and submitted first.
Before(p, q) ==
    \/ IdRank[p.txnID] < IdRank[q.txnID]
    \/ IdRank[p.txnID] = IdRank[q.txnID] /\ p.txnID < q.txnID

\* The loop's current request: the least id of those that are left.
IsNext(req) == req \in todo /\ \A other \in todo \ {req} : Before(req, other)

\* The keys of req that another transaction of the epoch has claimed.
Taken(req) ==
    {k \in KeysOf(req.writeSet) :
        claimedKeys[k] \notin {Unclaimed, IdRank[req.txnID]}}

\* The loop sends the result and goes on to the next request.
Answer(req, res) ==
    /\ Return(req, res)
    /\ todo' = todo \ {req}
    /\ pc' = IF todo = {req} THEN AfterEpoch(draining) ELSE "certify"
    /\ UNCHANGED <<currentBatch, batch, startVersion, draining, stopping>>

CertifyTxnStale(req) ==
    /\ pc = "certify"
    /\ IsNext(req)
    /\ StaleRead(req)
    /\ Answer(req, Aborted("stale"))
    /\ UNCHANGED <<latestVersion, commitSeq, claimedKeys, data>>

CertifyTxnConflict(req) ==
    /\ pc = "certify"
    /\ IsNext(req)
    /\ ~ StaleRead(req)
    /\ Taken(req) # {}
    /\ Answer(req, Aborted("conflict"))
    /\ UNCHANGED <<latestVersion, commitSeq, claimedKeys, data>>

\* Mutants: the version map is not updated; the keys are not claimed.
CertifyTxnAssignMapKept(req) ==
    /\ pc = "certify"
    /\ IsNext(req)
    /\ ~ StaleRead(req)
    /\ Taken(req) = {}
    /\ commitSeq' = commitSeq + 1
    /\ claimedKeys' = [k \in Key |-> IF k \in KeysOf(req.writeSet)
                                     THEN IdRank[req.txnID] ELSE claimedKeys[k]]
    /\ pc' = "apply"
    /\ UNCHANGED <<currentBatch, batch, todo, startVersion, latestVersion,
                   draining, stopping, result, data>>

CertifyTxnAssignUnclaimed(req) ==
    /\ pc = "certify"
    /\ IsNext(req)
    /\ ~ StaleRead(req)
    /\ Taken(req) = {}
    /\ commitSeq' = commitSeq + 1
    /\ latestVersion' = Bumped(req, commitSeq + 1)
    /\ pc' = "apply"
    /\ UNCHANGED <<batchVars, draining, stopping, result, data>>

\* Both checks passed: the number is taken, the keys are claimed and the
\* version map is updated.
CertifyTxnAssign(req) ==
    /\ pc = "certify"
    /\ IsNext(req)
    /\ ~ StaleRead(req)
    /\ Taken(req) = {}
    /\ commitSeq' = commitSeq + 1
    /\ claimedKeys' = [k \in Key |-> IF k \in KeysOf(req.writeSet)
                                     THEN IdRank[req.txnID] ELSE claimedKeys[k]]
    /\ latestVersion' = Bumped(req, commitSeq + 1)
    /\ pc' = "apply"
    /\ UNCHANGED <<currentBatch, batch, todo, startVersion, draining, stopping,
                   result, data>>

\* The store's error is ignored: the transaction is reported as committed
\* whether ApplyCommit has applied the record or not.
CertifyTxnApply(req) ==
    /\ pc = "apply"
    /\ IsNext(req)
    /\ ApplyCommit(Record(req, commitSeq))
    /\ Answer(req, Committed(commitSeq))
    /\ UNCHANGED <<latestVersion, commitSeq, claimedKeys>>

\* Mutant: the recovery answers only the transaction that was being certified.
EpochPanicFirstOnly(req) ==
    /\ pc = "apply"
    /\ IsNext(req)
    /\ Return(req, Aborted("error"))
    /\ todo' = {}
    /\ pc' = AfterEpoch(draining)
    /\ UNCHANGED <<currentBatch, batch, startVersion, draining, stopping,
                   latestVersion, commitSeq, claimedKeys>>

\* The store's call for req panics: processEpoch recovers and aborts all that
\* it has not answered, req included.  The map and the counter stay.
EpochPanic(req) ==
    /\ pc = "apply"
    /\ IsNext(req)
    /\ result' = [t \in Txn |-> IF \E p \in todo : p.txnID = t
                                THEN Aborted("error") ELSE result[t]]
    /\ todo' = {}
    /\ pc' = AfterEpoch(draining)
    /\ UNCHANGED <<currentBatch, batch, startVersion, draining, stopping,
                   latestVersion, commitSeq, claimedKeys>>

CertifyTxn(req) ==
    \/ CertifyTxnStale(req)
    \/ CertifyTxnConflict(req)
    \/ CertifyTxnAssign(req)
    \/ CertifyTxnApply(req)
=============================================================================

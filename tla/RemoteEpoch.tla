---------------------------- MODULE RemoteEpoch -----------------------------
(***************************************************************************)
(* The three processes with epoch certification: ccaas-server runs an      *)
(* EpochCertifier in front of the remote store.                            *)
(***************************************************************************)
EXTENDS Deployment, EpochCertifier

vars == <<data, execVars, certVars, epochVars, remoteVars, deployVars>>

RemoteInit == DeployInit /\ NewEpochCertifier

\* The handler appends the request to the batch and waits.
Enqueue(t) == Submit(t) /\ SubmitCommit(Request(t))

\* SyncFromStorage waits for the mutex that an epoch holds.
Synchronise == Sync /\ pc \in {"select", "done"} /\ UNCHANGED epochVars

\* Steps of the run goroutine that do not call the store.
Certify ==
    /\ \/ Tick \/ StopCase
       \/ \E req \in todo :
            CertifyTxnStale(req) \/ CertifyTxnConflict(req) \/ CertifyTxnAssign(req)
    /\ UNCHANGED remoteVars

\* The call of the store for req ...
Apply(req) ==
    /\ CertifyTxnApply(req)
    /\ Install(CommitRecordOf(req, commitSeq))
    /\ UNCHANGED <<late, strays, faults>>

\* ... which fails.  certifyTxn drops the error and reports the commit.
ApplyFails(req) ==
    /\ pc = "apply"
    /\ IsNext(req)
    /\ ApplyCommitFails(CommitRecordOf(req, commitSeq))
    /\ Answer(req, Committed(commitSeq))
    /\ UNCHANGED <<latestVersion, commitSeq, claimedKeys>>

\* ... or panics, before the record has been sent or after.
ApplyPanics(req) ==
    /\ EpochPanic(req)
    /\ Fails("panic")
    /\ Abandon(CommitRecordOf(req, commitSeq))

Run ==
    /\ Certify \/ \E req \in todo : Apply(req) \/ ApplyFails(req) \/ ApplyPanics(req)
    /\ UNCHANGED <<execVars, deployVars>>

\* SIGTERM: the handler calls Stop, which waits for the last epoch.  The server
\* still accepts calls ...
Signal ==
    /\ server = "up"
    /\ Fails("stop")
    /\ Stop
    /\ server' = "stopping"
    /\ UNCHANGED <<execVars, late, strays, installed, calls, phase>>

\* ... until Stop has returned and GracefulStop is called.
StopReturns ==
    /\ server = "stopping"
    /\ pc = "done"
    /\ server' = "closing"
    /\ UNCHANGED <<data, execVars, certVars, epochVars, remoteVars, calls, phase>>

\* The process dies, perhaps inside an epoch's call of the store.
Crash ==
    /\ Die
    /\ IF pc = "apply"
       THEN \E req \in todo : IsNext(req) /\ Abandon(CommitRecordOf(req, commitSeq))
       ELSE UNCHANGED <<data, late, strays, installed>>
    /\ UNCHANGED epochVars

\* A new process has a new, empty batch and a new run goroutine.
Boot ==
    /\ Restart
    /\ currentBatch' = {} /\ batch' = {} /\ todo' = {}
    /\ claimedKeys' = [k \in Key |-> Unclaimed]
    /\ startVersion' = latestVersion'
    /\ pc' = "select" /\ draining' = FALSE /\ stopping' = FALSE

RemoteNext ==
    \/ ClientStep /\ UNCHANGED epochVars
    \/ Synchronise
    \/ \E t \in Txn : Enqueue(t)
    \/ server # "down" /\ Run
    \/ StorageStep /\ UNCHANGED epochVars
    \/ Signal \/ StopReturns \/ Crash \/ Boot
    \/ Exit /\ UNCHANGED epochVars

RemoteSpec == RemoteInit /\ [][RemoteNext]_vars

\* Fairness: the run goroutine as in EpochSystem; a call whose reply is there or
\* whose connection is gone returns; the signal handler runs.
RemoteFairness ==
    /\ WF_vars(server # "down" /\ Run)
    /\ \A t \in Txn : WF_vars((Reply(t) \/ Disconnected(t)) /\ UNCHANGED epochVars)
    /\ WF_vars(StopReturns)
    /\ WF_vars(Exit /\ UNCHANGED epochVars)

FairRemoteSpec == RemoteSpec /\ RemoteFairness

-----------------------------------------------------------------------------
\* Types of all variables.
TypeOK == DeployTypeOK /\ EpochTypeOK

(***************************************************************************)
(* A commit the client was told of stays in the store as long as no        *)
(* ApplyCommit fails and the certifier has started from all that the store *)
(* holds: otherwise, if DumpState failed or a record arrived after it, its *)
(* numbers may be too low, and the store's rejection is dropped.  Epochs   *)
(* that panic, their records that arrive late but before the next          *)
(* certifier starts, kills and restarts do not undo it.                    *)
(***************************************************************************)
CommitKeptUnlessCallFails ==
    \/ \E what \in {"apply"} \cup SyncFailures : Happened(what)
    \/ ReportedCommitInStore

(***************************************************************************)
(* Every Commit that is waiting when the run goroutine has not yet started *)
(* its last epoch returns: the recovery from a panic answers everybody who *)
(* waits for the epoch, the epochs go on after it, Stop drains the batch   *)
(* and a dead process breaks the connection.                               *)
(***************************************************************************)
BatchedCommitReturns ==
    \A t \in Txn :
        state[t] = "submitted" /\ ~ draining /\ pc # "done"
        ~> state[t] \in {"committed", "aborted"}

-----------------------------------------------------------------------------
(***************************************************************************)
(* The inductive invariant that the properties follow from.                *)
(***************************************************************************)

\* The transaction whose record an epoch is handing to the store.
Installing ==
    {req.txnID : req \in {q \in todo : server # "down" /\ pc = "apply" /\ IsNext(q)}}

\* What waits for an epoch or in it is an unanswered call, and it waits once.
BatchRequests ==
    server # "down" =>
        /\ \A req \in currentBatch \cup todo :
            req = Request(req.txnID) /\ req.txnID \in calls /\ result[req.txnID] = NoResult
        /\ \A req \in currentBatch : req \notin todo
        /\ pc = "apply" => \E req \in todo : IsNext(req)

IInv ==
    /\ DeployInv(Installing)
    /\ BatchRequests
    /\ Without({"apply"} \cup SyncFailures) => StoreHoldsLastCommit
=============================================================================

-------------------------- MODULE RemoteImmediate ---------------------------
(***************************************************************************)
(* The three processes with immediate certification.  ccaas-server may be  *)
(* stopped or killed and started again in front of the live store.         *)
(***************************************************************************)
EXTENDS Deployment, ImmediateCertifier

vars == <<data, execVars, certVars, mu, remoteVars, deployVars>>

RemoteInit == DeployInit /\ NewImmediateCertifier

\* The handler of SyncFromStorage; it needs the mutex.
Synchronise == Sync /\ mu = NoTxn /\ UNCHANGED mu

\* The handler of t's SubmitCommit, up to its call of the store ...
Validate(t) ==
    /\ t \in calls
    /\ result[t] = NoResult
    /\ SubmitCommitStale(Request(t)) \/ SubmitCommitAssign(Request(t))
    /\ UNCHANGED <<execVars, remoteVars, deployVars>>

\* ... the call ...
Apply(t) ==
    /\ t \in calls
    /\ result[t] = NoResult
    /\ SubmitCommitApply(Request(t))
    /\ Install(CommitRecordOf(Request(t), commitSeq))
    /\ UNCHANGED <<execVars, late, strays, faults, deployVars>>

\* Mutant: the version map is set back to what the store holds.
ApplyFailsRollsBack(t) ==
    /\ mu = t
    /\ ApplyCommitFails(CommitRecordOf(Request(t), commitSeq))
    /\ Return(Request(t), Aborted("error"))
    /\ mu' = NoTxn
    /\ latestVersion' = VersionsIn(data)
    /\ UNCHANGED <<execVars, commitSeq, deployVars>>

\* ... which fails: SubmitCommit reports an abort, the version map stays.
ApplyFails(t) ==
    /\ mu = t
    /\ ApplyCommitFails(CommitRecordOf(Request(t), commitSeq))
    /\ Return(Request(t), Aborted("error"))
    /\ mu' = NoTxn
    /\ UNCHANGED <<execVars, latestVersion, commitSeq, deployVars>>

\* SIGTERM with no epoch certifier to stop: GracefulStop refuses new calls.
Signal ==
    /\ server = "up"
    /\ Fails("stop")
    /\ server' = "closing"
    /\ UNCHANGED <<data, execVars, certVars, mu, late, strays, installed, calls, phase>>

\* The process dies, perhaps with a handler inside its call of the store.
Crash ==
    /\ Die
    /\ mu' = NoTxn
    /\ IF mu = NoTxn
       THEN UNCHANGED <<data, late, strays, installed>>
       ELSE Abandon(CommitRecordOf(Request(mu), commitSeq))

Handle(t) == Validate(t) \/ Apply(t) \/ ApplyFails(t)

ServerStep ==
    \/ Synchronise
    \/ \E t \in Txn : Handle(t)
    \/ Signal \/ Crash
    \/ (StorageStep \/ Restart \/ Exit) /\ UNCHANGED mu

RemoteNext ==
    \/ (ClientStep \/ \E t \in Txn : Submit(t)) /\ UNCHANGED mu
    \/ ServerStep
    \/ Finished /\ UNCHANGED vars

RemoteSpec == RemoteInit /\ [][RemoteNext]_vars

-----------------------------------------------------------------------------
\* Types of all variables.
TypeOK == DeployTypeOK /\ ImmTypeOK

(***************************************************************************)
(* While SubmitCommit hands t's record to the store, everything that Read  *)
(* returned to t is what the store holds (execution.go: Read "reads from   *)
(* storage and records the version in the read set", so that validation of *)
(* the read set covers what the transaction saw).                          *)
(***************************************************************************)
ObservedAtCommit ==
    mu # NoTxn => \A o \in observed[mu] : data[o.key].value = o.value

(***************************************************************************)
(* The same, unless a Get has failed, or a certifier that started anew has *)
(* missed records: DumpState failed, or one arrived after it.  It holds    *)
(* through lost records, records that arrive late at the certifier that    *)
(* sent them or before the next one starts, lost replies, and restarts     *)
(* while transactions are under way.                                       *)
(***************************************************************************)
ObservedUnlessGetFails ==
    Happened("get") \/ Happened("boot") \/ Happened("stray") \/ ObservedAtCommit

-----------------------------------------------------------------------------
(***************************************************************************)
(* The inductive invariant that the properties follow from.                *)
(***************************************************************************)
Holder == {mu} \ {NoTxn}

\* As long as no call fails, a certifier that takes calls has the store's
\* versions, but for the keys of the record that it is handing over ...
MapAgrees ==
    Synced =>
        /\ late = {}
        /\ \A k \in Key : (\A t \in Holder : ~ Writes(t, k)) => latestVersion[k] = data[k].version

\* ... and a version that has been read is replaced by a record only.
ReplacedByInstalled ==
    \A t \in Txn : \A r \in readSet[t] : r.versionSeen # data[r.key].version =>
        \E u \in Txn : Writes(u, r.key) /\ installed[u] = data[r.key].version

StaleByInstalled ==
    \A t \in Txn : result[t].decision = "stale" =>
        \E r \in readSet[t], u \in Txn \ {t} :
            Writes(u, r.key) /\ installed[u] > r.versionSeen

AbortInv == MapAgrees /\ ReplacedByInstalled /\ StaleByInstalled

IInv ==
    /\ DeployInv(Holder)
    /\ StoreHoldsLastCommit
    /\ Without(CallFailures) => AbortInv
=============================================================================

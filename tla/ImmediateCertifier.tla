------------------------- MODULE ImmediateCertifier -------------------------
(***************************************************************************)
(* ImmediateCertifier of pkg/ccaas/immediate.go.  SubmitCommit runs in the *)
(* goroutine of its caller and holds mu from its first line to its return. *)
(* While it holds mu it calls the store, whose own lock it shares with     *)
(* readers: the call is therefore a step of its own, before which other    *)
(* transactions still read the old entries.                                *)
(***************************************************************************)
EXTENDS Certifier

VARIABLE mu   \* the transaction whose SubmitCommit holds the mutex, or NoTxn

ImmTypeOK == CertTypeOK /\ mu \in {NoTxn} \cup Txn

NewImmediateCertifier == NewCertifier /\ mu = NoTxn

\* Mutants: a number used twice; the version map not updated; the mutex
\* never released.
SubmitCommitAssignSameSeq(req) ==
    /\ mu = NoTxn
    /\ ~ StaleRead(req)
    /\ mu' = req.txnID
    /\ latestVersion' = Bumped(req, commitSeq)
    /\ UNCHANGED <<result, commitSeq, data>>

SubmitCommitAssignMapKept(req) ==
    /\ mu = NoTxn
    /\ ~ StaleRead(req)
    /\ mu' = req.txnID
    /\ commitSeq' = commitSeq + 1
    /\ UNCHANGED <<latestVersion, result, data>>

SubmitCommitApplyKeepsLock(req) ==
    /\ mu = req.txnID
    /\ LET writes == Record(req, commitSeq)
       IN  /\ ApplyCommit(writes)
           /\ Return(req, IF Rejected(writes) THEN Aborted("error")
                          ELSE Committed(commitSeq))
    /\ UNCHANGED <<latestVersion, commitSeq, mu>>

\* Validation fails: the abort is returned and the mutex released at once.
SubmitCommitStale(req) ==
    /\ mu = NoTxn
    /\ StaleRead(req)
    /\ Return(req, Aborted("stale"))
    /\ UNCHANGED <<latestVersion, commitSeq, mu, data>>

\* Validation succeeds: the sequence number is taken and the version map
\* updated, before the store is called.
SubmitCommitAssign(req) ==
    /\ mu = NoTxn
    /\ ~ StaleRead(req)
    /\ mu' = req.txnID
    /\ commitSeq' = commitSeq + 1
    /\ latestVersion' = Bumped(req, commitSeq + 1)
    /\ UNCHANGED <<result, data>>

\* The store applies or rejects the record, SubmitCommit returns.
SubmitCommitApply(req) ==
    /\ mu = req.txnID
    /\ LET writes == Record(req, commitSeq)
       IN  /\ ApplyCommit(writes)
           /\ Return(req, IF Rejected(writes) THEN Aborted("error")
                          ELSE Committed(commitSeq))
    /\ mu' = NoTxn
    /\ UNCHANGED <<latestVersion, commitSeq>>

SubmitCommit(req) ==
    \/ SubmitCommitStale(req)
    \/ SubmitCommitAssign(req)
    \/ SubmitCommitApply(req)
=============================================================================

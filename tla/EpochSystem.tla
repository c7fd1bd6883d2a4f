---------------------------- MODULE EpochSystem -----------------------------
(***************************************************************************)
(* The three layers in one process with epoch certification.  Stop may be  *)
(* called at any moment: cmd/demo and pkg/benchmark call it when all       *)
(* transactions have finished, pkg/ccaas/epoch_test.go and the signal      *)
(* handler of cmd/ccaas-server while transactions are running.             *)
(***************************************************************************)
EXTENDS Transactions, EpochCertifier

vars == <<data, execVars, certVars, epochVars>>

Init ==
    /\ LoadedStore
    /\ NewEngine
    /\ NewEpochCertifier

\* Nothing can be told apart between the call of SubmitCommit and its append
\* to the batch, so Commit and the append are one step.
Submit(t) == Commit(t) /\ SubmitCommit(Request(t))

\* Execution-layer steps that do not concern the certifier.
Act(t) ==
    /\ \/ \E k \in Key : Read(t, k) \/ \E v \in Value : Write(t, k, v)
       \/ CommitReturn(t, result[t])
       \/ Abort(t)
    /\ UNCHANGED <<data, certVars, epochVars>>

\* A step of the run goroutine.
Run ==
    /\ Tick \/ StopCase \/ \E req \in todo : CertifyTxn(req)
    /\ UNCHANGED execVars

Next ==
    \/ Begin /\ UNCHANGED <<data, certVars, epochVars>>
    \/ \E t \in Txn : Submit(t) \/ Act(t)
    \/ Run
    \/ Stop /\ UNCHANGED execVars

Spec == Init /\ [][Next]_vars

(***************************************************************************)
(* Fairness: the ticker keeps firing and the run goroutine is scheduled;   *)
(* a goroutine whose result is in its channel receives it.                 *)
(***************************************************************************)
Fairness ==
    /\ WF_vars(Run)
    /\ \A t \in Txn :
        WF_vars(CommitReturn(t, result[t]) /\ UNCHANGED <<data, certVars, epochVars>>)

FairSpec == Spec /\ Fairness

-----------------------------------------------------------------------------
\* Types of all variables.
TypeOK == StoreTypeOK /\ ExecTypeOK /\ EpochTypeOK

\* The request whose record is on its way to the store.
Installing(k) == pc = "apply" /\ \E req \in todo : IsNext(req) /\ k \in KeysOf(req.writeSet)

(***************************************************************************)
(* The certifier's latestVersion is the store's version of every key, but  *)
(* for the record on its way to the store.  An epoch in which ApplyCommit  *)
(* rejected a record would leave the map ahead of the store for good,      *)
(* because certifyTxn drops the error.                                     *)
(***************************************************************************)
VersionsAgree ==
    \A k \in Key :
        latestVersion[k] = IF Installing(k) THEN commitSeq ELSE data[k].version

(***************************************************************************)
(* Deterministic conflict resolution: what the loop decides about a        *)
(* request is a function of the batch, of the order in which sort.Slice    *)
(* has put it and of the versions at the start of the epoch alone,         *)
(* whatever was read or submitted meanwhile.  A request commits exactly    *)
(* when all of its reads are current at that start and no committed member *)
(* of the batch in front of it writes a key that it reads or, unless the   *)
(* two have the same id, writes.                                           *)
(***************************************************************************)
Collides(other, req) ==
    \/ KeysOf(other.writeSet) \cap {r.key : r \in req.readSet} # {}
    \/ /\ IdRank[other.txnID] # IdRank[req.txnID]
       /\ KeysOf(other.writeSet) \cap KeysOf(req.writeSet) # {}

EpochDecision ==
    \A req \in batch \ todo :
        IsCommitted(req.txnID) <=>
            /\ \A r \in req.readSet : startVersion[r.key] = r.versionSeen
            /\ \A other \in batch :
                Before(other, req) /\ IsCommitted(other.txnID) => ~ Collides(other, req)

(***************************************************************************)
(* Within an epoch at most one of the transactions that write a key        *)
(* commits (epoch_test.go: 'All write to "x" so only one can win'), as     *)
(* long as their ids differ.  Ids are unique in an Engine, not across the  *)
(* client processes, and a claim under one's own id is no conflict.        *)
(***************************************************************************)
OneWinnerPerKey ==
    \A r1, r2 \in batch :
        /\ IdRank[r1.txnID] # IdRank[r2.txnID]
        /\ IsCommitted(r1.txnID) /\ IsCommitted(r2.txnID)
        => KeysOf(r1.writeSet) \cap KeysOf(r2.writeSet) = {}

(***************************************************************************)
(* A request is never lost between the batches: while SubmitCommit waits   *)
(* for its result the request is in exactly one of the two batches, and a  *)
(* request in a batch has not been answered yet.                           *)
(***************************************************************************)
PendingExactlyOnce ==
    /\ currentBatch \cap todo = {}
    /\ \A t \in Txn : Waiting(t) <=> Request(t) \in currentBatch \cup todo

-----------------------------------------------------------------------------
(***************************************************************************)
(* The parts of the inductive invariant.                                   *)
(***************************************************************************)
\* A batch holds requests of Commit calls, whose transactions do not change
\* their sets any more.
BatchRequests ==
    \A req \in currentBatch \cup batch :
        /\ req = Request(req.txnID)
        /\ state[req.txnID] \notin {"unborn", "active"}

\* Where run is tells what is left of the epoch.
LoopPosition ==
    /\ pc \in {"select", "done"} => todo = {}
    /\ pc = "apply" => \E req \in todo : IsNext(req)

\* The loop answers in the order of the sort.
AnsweredInOrder == \A p \in batch \ todo, q \in todo : Before(p, q)

\* No number in use is above commitSeq, and the number of the record on its
\* way to the store is above all that are in use.
NumbersBounded ==
    /\ \A k \in Key : data[k].version <= commitSeq
    /\ \A t \in Txn : result[t].commitSeq <= commitSeq
    /\ pc = "apply" => /\ \A k \in Key : data[k].version < commitSeq
                       /\ \A t \in Txn : result[t].commitSeq < commitSeq

\* What validation found stays true until the record is applied.
InstallingReadsCurrent ==
    pc = "apply" => \A req \in todo : IsNext(req) =>
        \A r \in req.readSet : r.versionSeen = data[r.key].version

\* claimedKeys holds the ids of the requests that have passed both checks.
Certified(req) == IsCommitted(req.txnID) \/ (pc = "apply" /\ IsNext(req))

ClaimsExact ==
    /\ \A req \in batch : Certified(req) =>
        \A k \in KeysOf(req.writeSet) : claimedKeys[k] = IdRank[req.txnID]
    /\ \A k \in Key : claimedKeys[k] # Unclaimed =>
        \E req \in batch : /\ Certified(req)
                           /\ k \in KeysOf(req.writeSet)
                           /\ claimedKeys[k] = IdRank[req.txnID]

\* The store has moved on from the start of the epoch exactly in the keys that
\* committed members of the batch write, and no member has read what another
\* member wrote.
EpochVersions ==
    /\ \A k \in Key :
        IF \E req \in batch : IsCommitted(req.txnID) /\ k \in KeysOf(req.writeSet)
        THEN data[k].version > startVersion[k]
        ELSE data[k].version = startVersion[k]
    /\ \A req \in batch : \A r \in req.readSet : r.versionSeen <= startVersion[r.key]

(***************************************************************************)
(* The inductive invariant.  EpochDecision compares the loop's answers     *)
(* with the versions at the start of the epoch, while the loop compares    *)
(* with a map that its own commits change: ClaimsExact and EpochVersions   *)
(* say how far the two can be apart.                                       *)
(***************************************************************************)
IInv ==
    /\ HistoryInv
    /\ VersionsAgree
    /\ PendingExactlyOnce
    /\ BatchRequests
    /\ LoopPosition
    /\ AnsweredInOrder
    /\ NumbersBounded
    /\ InstallingReadsCurrent
    /\ ClaimsExact
    /\ EpochVersions
    /\ EpochDecision
=============================================================================

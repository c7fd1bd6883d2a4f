-------------------------- MODULE ImmediateSystem ---------------------------
(***************************************************************************)
(* The three layers in one process with immediate certification, as        *)
(* cmd/demo (runDemo) and pkg/benchmark (RunWith) wire them: a MemStore    *)
(* that LoadInitialData has filled, an ImmediateCertifier made from it and *)
(* an Engine whose transactions run concurrently.                          *)
(***************************************************************************)
EXTENDS Transactions, ImmediateCertifier

vars == <<data, execVars, certVars, mu>>

Init ==
    /\ LoadedStore
    /\ NewEngine
    /\ NewImmediateCertifier

\* A step of the SubmitCommit call that t's Commit is waiting for.
Certify(t) ==
    /\ Waiting(t)
    /\ SubmitCommit(Request(t))
    /\ UNCHANGED execVars

Next ==
    \/ Begin /\ UNCHANGED <<data, certVars, mu>>
    \/ \E t \in Txn : Execute(t) /\ UNCHANGED mu
    \/ \E t \in Txn : Certify(t)
    \/ Finished /\ UNCHANGED vars

Spec == Init /\ [][Next]_vars

-----------------------------------------------------------------------------
\* Types of all variables (the values types.go and the struct fields allow).
TypeOK == StoreTypeOK /\ ExecTypeOK /\ ImmTypeOK

(***************************************************************************)
(* The certifier's latestVersion is the store's version of every key,      *)
(* except for the keys of the transaction inside SubmitCommit, where it is *)
(* already ahead of the store (immediate.go updates the map, then calls    *)
(* ApplyCommit).  Validation against a map that disagrees with the store   *)
(* would commit stale reads or abort fresh ones.                           *)
(***************************************************************************)
VersionsAgree ==
    \A k \in Key :
        latestVersion[k] = IF mu # NoTxn /\ Writes(mu, k)
                           THEN commitSeq ELSE data[k].version

\* A certified record is never rejected by ApplyCommit's monotonicity check,
\* so the branch of SubmitCommit that reports the store's error is dead.
NoApplyError == \A t \in Txn : result[t].decision # "error"

-----------------------------------------------------------------------------
HolderWaits == mu # NoTxn => Waiting(mu)

\* No number in use is above commitSeq, and the number that the holder of the
\* mutex has taken is above all that are in use.
NumbersBounded ==
    /\ \A k \in Key : data[k].version <= commitSeq
    /\ \A t \in Txn : result[t].commitSeq <= commitSeq
    /\ mu # NoTxn => /\ \A k \in Key : data[k].version < commitSeq
                     /\ \A t \in Txn : result[t].commitSeq < commitSeq

\* What validation found stays true until the record is applied.
HolderReadsCurrent ==
    mu # NoTxn => \A r \in readSet[mu] : r.versionSeen = data[r.key].version

(***************************************************************************)
(* The inductive invariant: the safety properties, and what ties a         *)
(* transaction's read set and observations to the store and to the numbers *)
(* handed out, while other transactions commit in between.                 *)
(***************************************************************************)
IInv ==
    /\ HistoryInv
    /\ VersionsAgree
    /\ NoApplyError
    /\ HolderWaits
    /\ NumbersBounded
    /\ HolderReadsCurrent
=============================================================================

-------------------------- MODULE ImmediateProofs ---------------------------
(***************************************************************************)
(* Proofs about ImmediateSystem, for every set of keys and values and any  *)
(* number of transactions and writes.                                      *)
(***************************************************************************)
EXTENDS ImmediateSystem, TransactionLemmas

LEMMA InitTypeOK == Init => TypeOK
<1> SUFFICES ASSUME Init PROVE TypeOK
  OBVIOUS
<1>1. StoreTypeOK
  BY LoadedStoreFacts DEF Init
<1>2. CertTypeOK /\ mu \in {NoTxn} \cup Txn
  BY NewCertifierFacts DEF Init, NewImmediateCertifier
<1>3. ExecTypeOK
  BY NewEngineTypeOK DEF Init
<1> QED
  BY <1>1, <1>2, <1>3 DEF TypeOK, ImmTypeOK

LEMMA CertifyTypeOK ==
    ASSUME TypeOK, NEW t \in Txn, Certify(t)
    PROVE  TypeOK'
<1> USE DEF TypeOK, ImmTypeOK
<1> DEFINE req == Request(t)
<1>1. ExecTypeOK'
  BY DEF Certify, execVars, ExecTypeOK
<1>2. req.txnID = t /\ req.writeSet \in Seq(WriteEntry)
  BY DEF Request, ExecTypeOK
<1> HIDE DEF req
<1>3. \A res \in TxnResult : Return(req, res) => result' \in [Txn -> TxnResult]
  BY <1>2 DEF Return, CertTypeOK
<1>4. CASE SubmitCommitStale(req)
  <2>1. Aborted("stale") \in TxnResult
    BY DEF Aborted, TxnResult, Decision
  <2> QED
    BY <1>1, <1>3, <1>4, <2>1 DEF SubmitCommitStale, CertTypeOK, StoreTypeOK
<1>5. CASE SubmitCommitAssign(req)
  BY <1>1, <1>2, <1>5 DEF SubmitCommitAssign, Bumped, CertTypeOK, StoreTypeOK
<1>6. CASE SubmitCommitApply(req)
  <2>1. commitSeq \in Nat
    BY DEF CertTypeOK
  <2>2. Committed(commitSeq) \in TxnResult /\ Aborted("error") \in TxnResult
    BY <2>1 DEF Committed, Aborted, TxnResult, Decision
  <2>3. result' \in [Txn -> TxnResult]
    BY <1>3, <1>6, <2>2 DEF SubmitCommitApply
  <2>4. StoreTypeOK'
    BY <1>2, <1>6, <2>1, ApplyTypeOK DEF SubmitCommitApply
  <2> QED
    BY <1>1, <1>6, <2>3, <2>4 DEF SubmitCommitApply, CertTypeOK
<1> QED
  BY <1>4, <1>5, <1>6 DEF Certify, SubmitCommit, req

LEMMA NextTypeOK == TypeOK /\ [Next]_vars => TypeOK'
<1> SUFFICES ASSUME TypeOK, [Next]_vars PROVE TypeOK'
  OBVIOUS
<1>1. CASE UNCHANGED <<data, certVars, mu>> /\ ExecTypeOK'
  BY <1>1 DEF TypeOK, StoreTypeOK, ImmTypeOK, CertTypeOK, certVars
<1>2. CASE Begin /\ UNCHANGED <<data, certVars, mu>>
  BY <1>1, <1>2, BeginTypeOK DEF TypeOK
<1>3. CASE UNCHANGED vars
  BY <1>1, <1>3 DEF vars, execVars, TypeOK, ExecTypeOK
<1>4. ASSUME NEW t \in Txn, Execute(t), UNCHANGED mu PROVE TypeOK'
  BY <1>1, <1>4, OperationTypeOK DEF TypeOK, Execute, Operation
<1>5. CASE \E t \in Txn : Certify(t)
  BY <1>5, CertifyTypeOK
<1> QED
  BY <1>2, <1>3, <1>4, <1>5 DEF Next

(***************************************************************************)
(* Type correctness: in every reachable state of the three layers all      *)
(* variables have the types of the Go fields they stand for.               *)
(***************************************************************************)
THEOREM TypeCorrect == Spec => []TypeOK
BY InitTypeOK, NextTypeOK, PTL DEF Spec

-----------------------------------------------------------------------------
LEMMA InitIInv == Init => IInv
<1> SUFFICES ASSUME Init PROVE IInv
  OBVIOUS
<1> USE DEF Init, NewImmediateCertifier
<1>1. mu = NoTxn
  OBVIOUS
<1>2. \A t \in Txn : result[t].decision = "none" /\ result[t].commitSeq = 0
  BY DEF NewCertifier, NoResult
<1>3. HistoryInv
  BY InitHistory
<1>4. VersionsAgree
  BY <1>1 DEF NewCertifier, VersionsIn, DumpState, VersionsAgree
<1>5. NoApplyError /\ HolderWaits /\ HolderReadsCurrent
  BY <1>1, <1>2 DEF NoApplyError, HolderWaits, HolderReadsCurrent
<1>6. NumbersBounded
  BY <1>1, <1>2, NewCertifierFacts DEF NumbersBounded, CertTypeOK
<1> QED
  BY <1>3, <1>4, <1>5, <1>6 DEF IInv

\* A step of the execution layer that leaves the holder of the mutex alone.
LEMMA ExecIInv ==
    ASSUME TypeOK, IInv, HistoryInv', UNCHANGED <<data, certVars, mu>>,
           mu # NoTxn => UNCHANGED <<state[mu], readSet[mu], writeSet[mu]>>
    PROVE  IInv'
<1> USE DEF certVars
<1>1. VersionsAgree'
  BY DEF IInv, VersionsAgree, Writes
<1>2. NoApplyError' /\ NumbersBounded'
  BY DEF IInv, NoApplyError, NumbersBounded
<1>3. HolderWaits' /\ HolderReadsCurrent'
  BY DEF IInv, HolderWaits, Waiting, HolderReadsCurrent
<1> QED
  BY <1>1, <1>2, <1>3 DEF IInv

LEMMA BeginIInv ==
    ASSUME TypeOK, IInv, Begin, UNCHANGED <<data, certVars, mu>>
    PROVE  IInv'
<1>1. HistoryInv'
  BY BeginHistory DEF TypeOK, IInv, certVars
<1>2. mu # NoTxn => mu \in Txn /\ mu # idCounter + 1
  BY BeginFacts DEF TypeOK, ImmTypeOK, IInv, HolderWaits, Waiting
<1> QED
  BY <1>1, <1>2, BeginFacts, ExecIInv DEF TypeOK, IInv

LEMMA ExecuteIInv ==
    ASSUME TypeOK, IInv, NEW t \in Txn, Execute(t), UNCHANGED mu
    PROVE  IInv'
<1>1. UNCHANGED <<data, certVars>> /\ Operation(t)
  BY DEF Execute, Operation
<1>2. HistoryInv'
  BY <1>1, OperationHistory DEF TypeOK, IInv, certVars
<1>3. mu # NoTxn => mu \in Txn /\ mu # t
  BY <1>1, OperationFacts DEF TypeOK, ImmTypeOK, IInv, HolderWaits
<1>4. \A u \in Txn \ {t} : UNCHANGED <<state[u], readSet[u], writeSet[u]>>
  BY <1>1, OperationFacts DEF TypeOK
<1> QED
  BY <1>1, <1>2, <1>3, <1>4, ExecIInv

-----------------------------------------------------------------------------
\* SubmitCommit finds a stale read.
LEMMA StaleFacts ==
    ASSUME TypeOK, IInv, NEW t \in Txn, SubmitCommitStale(Request(t)), UNCHANGED execVars
    PROVE  /\ UNCHANGED <<data, idCounter, state, readSet, writeSet, observed,
                          latestVersion, commitSeq, mu>>
           /\ mu = NoTxn
           /\ Answered(t, Aborted("stale"))
           /\ \E r \in readSet[t] : r.versionSeen # data[r.key].version
<1>1. Answered(t, Aborted("stale"))
  BY DEF SubmitCommitStale, Return, Request, TypeOK, ImmTypeOK, CertTypeOK, Answered
<1>2. PICK r \in readSet[t] : latestVersion[r.key] # r.versionSeen
  BY DEF SubmitCommitStale, StaleRead, Request
<1>3. r.key \in Key
  BY DEF TypeOK, ExecTypeOK, ReadEntry
<1>4. r.versionSeen # data[r.key].version
  BY <1>2, <1>3 DEF SubmitCommitStale, IInv, VersionsAgree
<1> QED
  BY <1>1, <1>4 DEF SubmitCommitStale, execVars

LEMMA StaleIInv ==
    ASSUME TypeOK, IInv, NEW t \in Txn, Waiting(t), SubmitCommitStale(Request(t)),
           UNCHANGED execVars
    PROVE  IInv'
<1>1. /\ UNCHANGED <<data, idCounter, state, readSet, writeSet, observed,
                     latestVersion, commitSeq, mu>>
      /\ mu = NoTxn
      /\ Answered(t, Aborted("stale"))
  BY StaleFacts
<1>2. HistoryInv'
  BY StaleFacts, AbortHistory DEF TypeOK, ImmTypeOK, IInv
<1>3. /\ result'[t].decision = "stale" /\ result'[t].commitSeq = 0
      /\ \A u \in Txn \ {t} : result'[u] = result[u]
  BY <1>1 DEF Answered, Aborted
<1>4. VersionsAgree' /\ HolderWaits' /\ HolderReadsCurrent'
  BY <1>1 DEF IInv, VersionsAgree, Writes, HolderWaits, HolderReadsCurrent
<1>5. NoApplyError'
  BY <1>3 DEF IInv, NoApplyError
<1>6. NumbersBounded'
  BY <1>1, <1>3 DEF IInv, NumbersBounded, TypeOK, ImmTypeOK, CertTypeOK
<1> QED
  BY <1>2, <1>4, <1>5, <1>6 DEF IInv

\* SubmitCommit validates, takes its number and updates the version map: the
\* number is above all others and every read of t is current.
LEMMA AssignIInv ==
    ASSUME TypeOK, IInv, NEW t \in Txn, Waiting(t), SubmitCommitAssign(Request(t)),
           UNCHANGED execVars
    PROVE  IInv'
<1>1. /\ UNCHANGED <<data, idCounter, state, readSet, writeSet, observed, result>>
      /\ mu = NoTxn /\ mu' = t /\ mu' # NoTxn
      /\ commitSeq' = commitSeq + 1
      /\ latestVersion' = [k \in Key |-> IF Writes(t, k) THEN commitSeq + 1
                                         ELSE latestVersion[k]]
  BY DEF SubmitCommitAssign, Bumped, Request, execVars, Writes, Txn, NoTxn
<1>2. /\ commitSeq \in Nat
      /\ \A u \in Txn : result[u].commitSeq \in Nat
      /\ \A k \in Key : data[k].version \in Nat
  BY DEF TypeOK, ImmTypeOK, CertTypeOK, TxnResult, StoreTypeOK, ReadResult
<1>3. HistoryInv'
  <2>1. NotBegun' /\ AnsweredNotActive'
    BY <1>1 DEF IInv, HistoryInv, NotBegun, AnsweredNotActive
  <2> QED
    BY <1>1, <2>1, StateHistory DEF IInv
<1>4. VersionsAgree'
  BY <1>1 DEF IInv, VersionsAgree, Writes
<1>5. NoApplyError' /\ HolderWaits'
  BY <1>1 DEF IInv, NoApplyError, HolderWaits, Waiting
<1>6. NumbersBounded'
  BY <1>1, <1>2 DEF IInv, NumbersBounded
<1>7. HolderReadsCurrent'
  <2>1. \A r \in readSet[t] : latestVersion[r.key] = r.versionSeen /\ r.key \in Key
    BY DEF SubmitCommitAssign, StaleRead, Request, TypeOK, ExecTypeOK, ReadEntry
  <2> QED
    BY <1>1, <2>1 DEF IInv, VersionsAgree, HolderReadsCurrent
<1> QED
  BY <1>3, <1>4, <1>5, <1>6, <1>7 DEF IInv

\* What ApplyCommit does under the invariant: it accepts the record.
LEMMA ApplyFacts ==
    ASSUME TypeOK, IInv, NEW t \in Txn, SubmitCommitApply(Request(t)), UNCHANGED execVars
    PROVE  /\ UNCHANGED <<idCounter, state, readSet, writeSet, observed,
                          latestVersion, commitSeq>>
           /\ mu = t /\ mu # NoTxn /\ mu' = NoTxn
           /\ commitSeq \in Nat
           /\ \A u \in Txn : result[u].commitSeq < commitSeq
           /\ \A k \in Key : data[k].version < commitSeq
           /\ \A r \in readSet[t] : r.versionSeen = data[r.key].version
           /\ Answered(t, Committed(commitSeq))
           /\ data' = Installed(t, commitSeq)
<1>1. mu = t /\ mu # NoTxn
  BY DEF SubmitCommitApply, Request, Txn, NoTxn
<1>2. commitSeq \in Nat /\ result \in [Txn -> TxnResult]
  BY DEF TypeOK, ImmTypeOK, CertTypeOK
<1>3. /\ \A u \in Txn : result[u].commitSeq < commitSeq
      /\ \A k \in Key : data[k].version < commitSeq
      /\ \A r \in readSet[t] : r.versionSeen = data[r.key].version
  BY <1>1 DEF IInv, NumbersBounded, HolderReadsCurrent
<1>4. ~ Rejected(Record(Request(t), commitSeq)) /\ data' = Installed(t, commitSeq)
  BY <1>2, <1>3, FreshRecordInstalled DEF SubmitCommitApply, TypeOK
<1>5. Return(Request(t), Committed(commitSeq))
  BY <1>4 DEF SubmitCommitApply
<1>6. Answered(t, Committed(commitSeq))
  BY <1>2, <1>5 DEF Return, Answered, Request
<1> QED
  BY <1>1, <1>2, <1>3, <1>4, <1>6 DEF SubmitCommitApply, execVars

\* The store applies the record: the commit point.
LEMMA ApplyIInv ==
    ASSUME TypeOK, IInv, NEW t \in Txn, Waiting(t), SubmitCommitApply(Request(t)),
           UNCHANGED execVars
    PROVE  IInv'
<1>1. /\ UNCHANGED <<idCounter, state, readSet, writeSet, observed,
                     latestVersion, commitSeq>>
      /\ mu = t /\ mu # NoTxn /\ mu' = NoTxn
      /\ commitSeq \in Nat
      /\ \A u \in Txn : result[u].commitSeq < commitSeq
      /\ \A k \in Key : data[k].version < commitSeq
      /\ Answered(t, Committed(commitSeq))
      /\ data' = Installed(t, commitSeq)
  BY ApplyFacts
<1>2. HistoryInv'
  BY ApplyFacts, CommitHistory DEF TypeOK, ImmTypeOK, IInv
<1>3. /\ \A k \in Key : Writes(t, k) => data'[k].version = commitSeq
      /\ \A k \in Key : ~ Writes(t, k) => data'[k] = data[k]
  BY <1>1, InstalledVersion
<1>4. /\ result'[t].decision = "committed" /\ result'[t].commitSeq = commitSeq
      /\ \A u \in Txn \ {t} : result'[u] = result[u]
  BY <1>1 DEF Answered, Committed
<1>5. VersionsAgree'
  BY <1>1, <1>3 DEF IInv, VersionsAgree
<1>6. NoApplyError' /\ HolderWaits' /\ HolderReadsCurrent'
  BY <1>1, <1>4 DEF IInv, NoApplyError, HolderWaits, HolderReadsCurrent
<1>7. NumbersBounded'
  <2>1. \A u \in Txn : result'[u].commitSeq <= commitSeq'
    BY <1>1, <1>4 DEF TypeOK, ImmTypeOK, CertTypeOK, TxnResult
  <2>2. \A k \in Key : data'[k].version <= commitSeq'
    BY <1>1, <1>3 DEF TypeOK, StoreTypeOK, ReadResult
  <2> QED
    BY <1>1, <2>1, <2>2 DEF NumbersBounded
<1> QED
  BY <1>2, <1>5, <1>6, <1>7 DEF IInv

LEMMA NextIInv == TypeOK /\ IInv /\ [Next]_vars => IInv'
<1> SUFFICES ASSUME TypeOK, IInv, [Next]_vars PROVE IInv'
  OBVIOUS
<1>1. CASE Begin /\ UNCHANGED <<data, certVars, mu>>
  BY <1>1, BeginIInv
<1>2. CASE UNCHANGED vars
  <2>1. NotBegun' /\ AnsweredNotActive'
    BY <1>2 DEF vars, execVars, certVars, IInv, HistoryInv, NotBegun, AnsweredNotActive
  <2>2. HistoryInv'
    BY <1>2, <2>1, StateHistory DEF vars, execVars, certVars, IInv
  <2> QED
    BY <1>2, <2>2, ExecIInv DEF vars, execVars
<1>3. CASE \E t \in Txn : Execute(t) /\ UNCHANGED mu
  BY <1>3, ExecuteIInv
<1>4. CASE \E t \in Txn : Certify(t)
  BY <1>4, StaleIInv, AssignIInv, ApplyIInv DEF Certify, SubmitCommit
<1> QED
  BY <1>1, <1>2, <1>3, <1>4 DEF Next

(***************************************************************************)
(* The inductive invariant holds of every behaviour of the three layers.   *)
(***************************************************************************)
THEOREM InductiveInvariant == Spec => []IInv
<1>1. Init => IInv
  BY InitIInv
<1>2. TypeOK /\ IInv /\ [Next]_vars => IInv'
  BY NextIInv
<1> QED
  BY <1>1, <1>2, TypeCorrect, PTL DEF Spec

(***************************************************************************)
(* The certifier's version map and the store agree in every state but for  *)
(* the record that SubmitCommit is handing over.                           *)
(***************************************************************************)
THEOREM MapAgreesWithStore == Spec => []VersionsAgree
<1>1. IInv => VersionsAgree
  BY DEF IInv
<1> QED
  BY <1>1, InductiveInvariant, PTL

\* ApplyCommit never rejects a record that SubmitCommit has certified.
THEOREM StoreAcceptsCertified == Spec => []NoApplyError
<1>1. IInv => NoApplyError
  BY DEF IInv
<1> QED
  BY <1>1, InductiveInvariant, PTL

\* No commit comes between a committed transaction's reads and its commit.
THEOREM ReadsAreStable == Spec => []NoInterveningWrite
<1>1. IInv => NoInterveningWrite
  BY DEF IInv, HistoryInv
<1> QED
  BY <1>1, InductiveInvariant, PTL

\* No committed write is lost: the store holds the latest of them.
THEOREM NoLostUpdate == Spec => []StoreHoldsLastCommit
<1>1. IInv => StoreHoldsLastCommit
  BY DEF IInv, HistoryInv
<1> QED
  BY <1>1, InductiveInvariant, PTL

\* Every abort of SubmitCommit has a conflicting commit as its reason.
THEOREM NoSpuriousAbort == Spec => []AbortJustified
<1>1. IInv => AbortJustified
  BY DEF IInv, HistoryInv
<1> QED
  BY <1>1, InductiveInvariant, PTL

\* Commits are numbered in the order in which they take effect.
THEOREM NumbersFollowCommits == Spec => CommitOrder
<1> DEFINE Step == \A t \in Txn : ~ IsCommitted(t) /\ IsCommitted(t)' =>
                     \A u \in Txn : IsCommitted(u) =>
                        result[u].commitSeq < result'[t].commitSeq
<1>1. ASSUME TypeOK, IInv, [Next]_vars PROVE [Step]_result
  <2>1. CASE UNCHANGED result
    BY <2>1
  <2>2. ASSUME NEW s \in Txn, Certify(s) PROVE [Step]_result
    <3>1. UNCHANGED execVars
      BY <2>2 DEF Certify
    <3>2. CASE SubmitCommitStale(Request(s))
      <4>1. \A t \in Txn : IsCommitted(t)' => IsCommitted(t)
        BY <1>1, <3>1, <3>2, StaleFacts DEF IsCommitted, Aborted, Answered
      <4> QED
        BY <4>1
    <3>3. CASE SubmitCommitAssign(Request(s))
      BY <3>3 DEF SubmitCommitAssign
    <3>4. CASE SubmitCommitApply(Request(s))
      <4>1. Answered(s, Committed(commitSeq)) /\ \A u \in Txn : result[u].commitSeq < commitSeq
        BY <1>1, <3>1, <3>4, ApplyFacts
      <4>2. Step
        BY <4>1 DEF IsCommitted, Committed, Answered
      <4> QED
        BY <4>2
    <3> QED
      BY <2>2, <3>2, <3>3, <3>4 DEF Certify, SubmitCommit
  <2>3. \/ UNCHANGED result
        \/ \E s \in Txn : Certify(s)
    BY <1>1 DEF Next, Execute, certVars, vars
  <2> QED
    BY <2>1, <2>2, <2>3
<1> QED
  BY <1>1, TypeCorrect, InductiveInvariant, PTL DEF Spec, CommitOrder

-----------------------------------------------------------------------------
LEMMA CertifyRefines ==
    ASSUME TypeOK, IInv, NEW t \in Txn, Certify(t)
    PROVE  [Serial!Next]_(Serial!vars)
<1>1. Waiting(t) /\ UNCHANGED execVars
  BY DEF Certify
<1>2. CASE SubmitCommitStale(Request(t))
  BY <1>1, <1>2, StaleFacts, AbortRefines
<1>3. CASE SubmitCommitAssign(Request(t))
  BY <1>1, <1>3, StutterRefines DEF SubmitCommitAssign, execVars
<1>4. CASE SubmitCommitApply(Request(t))
  BY <1>1, <1>4, ApplyFacts, CommitRefines DEF TypeOK, IInv
<1> QED
  BY <1>2, <1>3, <1>4 DEF Certify, SubmitCommit

LEMMA NextRefines == TypeOK /\ IInv /\ [Next]_vars => [Serial!Next]_(Serial!vars)
<1> SUFFICES ASSUME TypeOK, IInv, [Next]_vars PROVE [Serial!Next]_(Serial!vars)
  OBVIOUS
<1>1. CASE Begin /\ UNCHANGED <<data, certVars, mu>>
  BY <1>1, BeginRefines DEF TypeOK, IInv, certVars
<1>2. ASSUME NEW t \in Txn, Execute(t) PROVE [Serial!Next]_(Serial!vars)
  BY <1>2, OperationRefines DEF TypeOK, IInv, Execute, Operation, certVars
<1>3. ASSUME NEW t \in Txn, Certify(t) PROVE [Serial!Next]_(Serial!vars)
  BY <1>3, CertifyRefines
<1>4. CASE UNCHANGED vars
  BY <1>4, StutterRefines DEF vars, execVars, certVars
<1> QED
  BY <1>1, <1>2, <1>3, <1>4 DEF Next

(***************************************************************************)
(* Strict serializability: MemStore, ImmediateCertifier and Engine         *)
(* together implement the serial store, for any number of concurrent       *)
(* transactions.                                                           *)
(***************************************************************************)
THEOREM ImmediateSerializable == Spec => Serializable
<1>1. Init => Serial!Init
  BY InitRefines DEF Init, NewImmediateCertifier
<1> QED
  BY <1>1, NextRefines, TypeCorrect, InductiveInvariant, PTL DEF Spec, Serializable, Serial!Spec
=============================================================================

---------------------------- MODULE EpochProofs -----------------------------
(***************************************************************************)
(* Proofs about EpochSystem, for every set of keys and values, any number  *)
(* of transactions and writes and any string order of the identifiers,     *)
(* identifiers that clash between two client processes included.           *)
(***************************************************************************)
EXTENDS EpochSystem, TransactionLemmas

LEMMA InitTypeOK == Init => TypeOK
<1> SUFFICES ASSUME Init PROVE TypeOK
  OBVIOUS
<1>1. StoreTypeOK /\ ExecTypeOK
  BY LoadedStoreFacts, NewEngineTypeOK DEF Init
<1>2. CertTypeOK
  BY NewCertifierFacts DEF Init, NewEpochCertifier
<1>3. startVersion \in [Key -> Nat]
  BY <1>2 DEF Init, NewEpochCertifier, CertTypeOK
<1> QED
  BY <1>1, <1>2, <1>3 DEF Init, NewEpochCertifier, TypeOK, EpochTypeOK

LEMMA RequestType ==
    ASSUME ExecTypeOK, NEW t \in Txn
    PROVE  /\ Request(t) \in TxnRequest
           /\ Request(t).txnID = t
           /\ Request(t).readSet = readSet[t]
           /\ Request(t).writeSet = writeSet[t]
BY DEF ExecTypeOK, Request, TxnRequest

LEMMA SubmitTypeOK ==
    ASSUME TypeOK, NEW t \in Txn, Submit(t)
    PROVE  TypeOK'
<1>1. ExecTypeOK'
  BY OperationTypeOK DEF Submit, Operation, TypeOK
<1>2. currentBatch' \in SUBSET TxnRequest
  BY RequestType DEF Submit, SubmitCommit, TypeOK, EpochTypeOK
<1> QED
  BY <1>1, <1>2 DEF Submit, SubmitCommit, TypeOK, EpochTypeOK, StoreTypeOK, CertTypeOK,
                    certVars, runVars

LEMMA ProcessEpochTypeOK ==
    ASSUME TypeOK, NEW drain \in BOOLEAN, ProcessEpoch(drain), UNCHANGED execVars
    PROVE  TypeOK'
<1>1. ExecTypeOK' /\ StoreTypeOK' /\ CertTypeOK'
  BY DEF ProcessEpoch, execVars, certVars, TypeOK, EpochTypeOK, ExecTypeOK, StoreTypeOK, CertTypeOK
<1>2. /\ batch' \in SUBSET TxnRequest /\ todo' \subseteq batch'
      /\ currentBatch' \in SUBSET TxnRequest
      /\ claimedKeys' \in [Key -> Nat \cup {Unclaimed}]
      /\ pc' \in {"select", "certify", "apply", "done"}
  BY DEF ProcessEpoch, TypeOK, EpochTypeOK, AfterEpoch
<1>3. startVersion' \in [Key -> Nat] /\ draining' \in BOOLEAN /\ stopping' \in BOOLEAN
  BY DEF ProcessEpoch, TypeOK, EpochTypeOK, CertTypeOK
<1> QED
  BY <1>1, <1>2, <1>3 DEF TypeOK, EpochTypeOK

LEMMA AnswerTypeOK ==
    ASSUME TypeOK, NEW req \in todo, NEW res \in TxnResult, Answer(req, res),
           UNCHANGED <<latestVersion, commitSeq, claimedKeys, execVars>>, StoreTypeOK'
    PROVE  TypeOK'
<1>1. ExecTypeOK'
  BY DEF execVars, TypeOK, ExecTypeOK
<1>2. req.txnID \in Txn
  BY DEF TypeOK, EpochTypeOK, TxnRequest
<1>3. CertTypeOK'
  BY <1>2 DEF Answer, Return, TypeOK, EpochTypeOK, CertTypeOK
<1>4. pc' \in {"select", "certify", "apply", "done"}
  BY DEF Answer, AfterEpoch
<1> QED
  BY <1>1, <1>3, <1>4 DEF Answer, TypeOK, EpochTypeOK

LEMMA CertifyTxnTypeOK ==
    ASSUME TypeOK, NEW req \in todo, CertifyTxn(req), UNCHANGED execVars
    PROVE  TypeOK'
<1>1. commitSeq \in Nat /\ req \in TxnRequest
  BY DEF TypeOK, EpochTypeOK, CertTypeOK
<1>2. req.txnID \in Txn /\ req.writeSet \in Seq(WriteEntry)
  BY <1>1 DEF TxnRequest
<1>3. /\ Aborted("stale") \in TxnResult /\ Aborted("conflict") \in TxnResult
      /\ Committed(commitSeq) \in TxnResult
  BY <1>1 DEF Aborted, Committed, TxnResult, Decision
<1>4. CASE CertifyTxnStale(req) \/ CertifyTxnConflict(req)
  BY <1>3, <1>4, AnswerTypeOK DEF CertifyTxnStale, CertifyTxnConflict, TypeOK, StoreTypeOK
<1>5. CASE CertifyTxnAssign(req)
  <2>1. ExecTypeOK' /\ StoreTypeOK'
    BY <1>5 DEF CertifyTxnAssign, execVars, TypeOK, ExecTypeOK, StoreTypeOK
  <2>2. CertTypeOK'
    BY <1>1, <1>5 DEF CertifyTxnAssign, Bumped, TypeOK, EpochTypeOK, CertTypeOK
  <2>3. claimedKeys' \in [Key -> Nat \cup {Unclaimed}]
    BY <1>2, <1>5, IdRankAssumption DEF CertifyTxnAssign, TypeOK, EpochTypeOK
  <2> QED
    BY <1>5, <2>1, <2>2, <2>3 DEF CertifyTxnAssign, TypeOK, EpochTypeOK
<1>6. CASE CertifyTxnApply(req)
  <2>1. StoreTypeOK'
    BY <1>1, <1>2, <1>6, ApplyTypeOK DEF CertifyTxnApply, TypeOK
  <2> QED
    BY <1>3, <1>6, <2>1, AnswerTypeOK DEF CertifyTxnApply
<1> QED
  BY <1>4, <1>5, <1>6 DEF CertifyTxn

LEMMA NextTypeOK == TypeOK /\ [Next]_vars => TypeOK'
<1> SUFFICES ASSUME TypeOK, [Next]_vars PROVE TypeOK'
  OBVIOUS
<1>1. CASE UNCHANGED <<data, certVars, epochVars>> /\ ExecTypeOK'
  BY <1>1 DEF TypeOK, StoreTypeOK, EpochTypeOK, CertTypeOK, certVars, epochVars, batchVars, runVars
<1>2. CASE Begin /\ UNCHANGED <<data, certVars, epochVars>>
  BY <1>1, <1>2, BeginTypeOK DEF TypeOK
<1>3. CASE \E t \in Txn : Submit(t)
  BY <1>3, SubmitTypeOK
<1>4. ASSUME NEW t \in Txn, Act(t) PROVE TypeOK'
  BY <1>1, <1>4, OperationTypeOK DEF TypeOK, Act, Operation
<1>5. CASE Run
  BY <1>5, ProcessEpochTypeOK, CertifyTxnTypeOK DEF Run, Tick, StopCase
<1>6. CASE Stop /\ UNCHANGED execVars
  BY <1>6 DEF Stop, TypeOK, StoreTypeOK, ExecTypeOK, EpochTypeOK, CertTypeOK,
              execVars, certVars, batchVars
<1>7. CASE UNCHANGED vars
  BY <1>1, <1>7 DEF vars, execVars, TypeOK, ExecTypeOK
<1> QED
  BY <1>2, <1>3, <1>4, <1>5, <1>6, <1>7 DEF Next

(***************************************************************************)
(* Type correctness of the three layers with epoch certification.          *)
(***************************************************************************)
THEOREM TypeCorrect == Spec => []TypeOK
BY InitTypeOK, NextTypeOK, PTL DEF Spec

-----------------------------------------------------------------------------
\* A request in a batch is the one that its transaction submitted.
LEMMA BatchFacts ==
    ASSUME TypeOK, IInv, NEW req \in currentBatch \cup batch
    PROVE  /\ req.txnID \in Txn
           /\ req = Request(req.txnID)
           /\ req.readSet = readSet[req.txnID]
           /\ req.writeSet = writeSet[req.txnID]
           /\ KeysOf(req.writeSet) \subseteq Key
           /\ \A r \in req.readSet : r.key \in Key /\ r.versionSeen \in Nat
           /\ IdRank[req.txnID] \in Nat
           /\ state[req.txnID] \notin {"unborn", "active"}
<1>1. req \in TxnRequest
  BY DEF TypeOK, EpochTypeOK
<1>2. /\ req.txnID \in Txn
      /\ req.writeSet \in Seq(WriteEntry)
      /\ req.readSet \in SUBSET ReadEntry
  BY <1>1 DEF TxnRequest
<1>3. req = Request(req.txnID) /\ state[req.txnID] \notin {"unborn", "active"}
  BY DEF IInv, BatchRequests
<1>4. req.readSet = readSet[req.txnID] /\ req.writeSet = writeSet[req.txnID]
  BY <1>2, <1>3, RequestType DEF TypeOK
<1>5. KeysOf(req.writeSet) \subseteq Key
  BY <1>2, KeysOfSubset
<1>6. \A r \in req.readSet : r.key \in Key /\ r.versionSeen \in Nat
  BY <1>2 DEF ReadEntry
<1> QED
  BY <1>2, <1>3, <1>4, <1>5, <1>6, IdRankAssumption

\* A request that is not answered belongs to a Commit call that waits.
LEMMA UnansweredWaits ==
    ASSUME TypeOK, IInv, NEW req \in currentBatch \cup todo
    PROVE  Waiting(req.txnID) /\ ~ IsCommitted(req.txnID)
<1>1. req \in currentBatch \cup batch
  BY DEF TypeOK, EpochTypeOK
<1>2. Waiting(req.txnID)
  BY <1>1, BatchFacts DEF IInv, PendingExactlyOnce
<1> QED
  BY <1>2 DEF Waiting, IsCommitted, NoResult

LEMMA BeforeAsymmetric ==
    ASSUME TypeOK, IInv, NEW p \in batch, NEW q \in batch, Before(p, q)
    PROVE  ~ Before(q, p)
<1>1. /\ IdRank[p.txnID] \in Nat /\ IdRank[q.txnID] \in Nat
      /\ p.txnID \in Nat /\ q.txnID \in Nat
  BY BatchFacts DEF Txn
<1> QED
  BY <1>1 DEF Before

\* The loop has one current request.
LEMMA NextUnique ==
    ASSUME TypeOK, IInv, NEW p, NEW q, IsNext(p), IsNext(q)
    PROVE  p = q
<1>1. p \in batch /\ q \in batch
  BY DEF TypeOK, EpochTypeOK, IsNext
<1> QED
  BY <1>1, BeforeAsymmetric DEF IsNext

LEMMA InitIInv == Init => IInv
<1> SUFFICES ASSUME Init PROVE IInv
  OBVIOUS
<1> USE DEF Init, NewEpochCertifier
<1>1. \A t \in Txn : result[t] = NoResult /\ state[t] = "unborn"
  BY DEF NewCertifier, NewEngine
<1>2. \A t \in Txn : result[t].decision = "none" /\ result[t].commitSeq = 0
  BY <1>1 DEF NoResult
<1>3. HistoryInv
  BY InitHistory
<1>4. VersionsAgree
  BY DEF NewCertifier, VersionsIn, DumpState, VersionsAgree, Installing
<1>5. PendingExactlyOnce /\ BatchRequests /\ LoopPosition /\ AnsweredInOrder
  BY <1>1 DEF PendingExactlyOnce, Waiting, BatchRequests, LoopPosition, AnsweredInOrder
<1>6. NumbersBounded /\ InstallingReadsCurrent
  BY <1>2, NewCertifierFacts DEF NumbersBounded, CertTypeOK, InstallingReadsCurrent
<1>7. ClaimsExact /\ EpochDecision
  BY DEF ClaimsExact, EpochDecision
<1>8. EpochVersions
  BY DEF EpochVersions, NewCertifier, VersionsIn, DumpState
<1> QED
  BY <1>3, <1>4, <1>5, <1>6, <1>7, <1>8 DEF IInv

-----------------------------------------------------------------------------
\* A step that the run goroutine does not take.
LEMMA OutsideIInv ==
    ASSUME IInv, HistoryInv', PendingExactlyOnce', BatchRequests',
           UNCHANGED <<data, certVars, batch, todo, claimedKeys, startVersion, pc>>
    PROVE  IInv'
<1> USE DEF certVars
<1>1. VersionsAgree' /\ LoopPosition' /\ AnsweredInOrder'
  BY DEF IInv, VersionsAgree, Installing, IsNext, LoopPosition, AnsweredInOrder
<1>2. NumbersBounded' /\ InstallingReadsCurrent'
  BY DEF IInv, NumbersBounded, InstallingReadsCurrent, IsNext
<1>3. ClaimsExact' /\ EpochVersions'
  BY DEF IInv, ClaimsExact, Certified, EpochVersions, IsNext, IsCommitted
<1>4. EpochDecision'
  BY DEF IInv, EpochDecision, IsCommitted
<1> QED
  BY <1>1, <1>2, <1>3, <1>4 DEF IInv

\* A step that neither touches the batches nor the transactions that wait.
LEMMA BatchesKept ==
    ASSUME TypeOK, IInv, UNCHANGED <<currentBatch, batch, todo>>,
           \A u \in Txn : Waiting(u)' <=> Waiting(u),
           \A u \in Txn : state[u] \notin {"unborn", "active"} =>
                /\ UNCHANGED <<readSet[u], writeSet[u]>>
                /\ state'[u] \notin {"unborn", "active"}
    PROVE  PendingExactlyOnce' /\ BatchRequests'
<1>1. ASSUME NEW req \in currentBatch \cup batch
      PROVE  req = Request(req.txnID)' /\ state'[req.txnID] \notin {"unborn", "active"}
  BY BatchFacts DEF Request
<1>2. BatchRequests'
  BY <1>1 DEF BatchRequests
<1>3. todo \subseteq batch
  BY DEF TypeOK, EpochTypeOK
<1>4. ASSUME NEW u \in Txn
      PROVE  Request(u)' \in currentBatch \cup todo <=> Request(u) \in currentBatch \cup todo
  <2>1. Request(u).txnID = u /\ Request(u)'.txnID = u
    BY DEF Request
  <2>2. ASSUME NEW req \in currentBatch \cup todo, req.txnID = u
        PROVE  req = Request(u) /\ req = Request(u)'
    BY <1>1, <1>3, <2>2, BatchFacts
  <2> QED
    BY <2>1, <2>2
<1>5. PendingExactlyOnce'
  BY <1>4 DEF IInv, PendingExactlyOnce
<1> QED
  BY <1>2, <1>5

LEMMA BeginIInv ==
    ASSUME TypeOK, IInv, Begin, UNCHANGED <<data, certVars, epochVars>>
    PROVE  IInv'
<1> USE DEF certVars, epochVars, batchVars, runVars
<1>1. HistoryInv'
  BY BeginHistory DEF TypeOK, IInv
<1>2. \A u \in Txn : Waiting(u)' <=> Waiting(u)
  BY BeginFacts DEF TypeOK, IInv, Waiting
<1>3. \A u \in Txn : state[u] \notin {"unborn", "active"} =>
        UNCHANGED <<readSet[u], writeSet[u]>> /\ state'[u] \notin {"unborn", "active"}
  BY BeginFacts DEF TypeOK, IInv
<1>4. PendingExactlyOnce' /\ BatchRequests'
  BY <1>2, <1>3, BatchesKept
<1> QED
  BY <1>1, <1>4, OutsideIInv

LEMMA ActIInv ==
    ASSUME TypeOK, IInv, NEW t \in Txn, Act(t)
    PROVE  IInv'
<1>1. Operation(t) /\ UNCHANGED <<data, certVars, epochVars>>
  BY DEF Act, Operation
<1> USE DEF certVars, epochVars, batchVars, runVars
<1>2. HistoryInv'
  BY <1>1, OperationHistory DEF TypeOK, IInv
<1>3. state'[t] # "submitted"
  BY DEF Act, Read, ReadFrom, Write, CommitReturn, Abort, Active, TypeOK, ExecTypeOK
<1>4. \A u \in Txn : Waiting(u)' <=> Waiting(u)
  BY <1>1, <1>3, OperationFacts DEF TypeOK, Waiting
<1>5. \A u \in Txn : state[u] \notin {"unborn", "active"} =>
        UNCHANGED <<readSet[u], writeSet[u]>> /\ state'[u] \notin {"unborn", "active"}
  BY <1>1, OperationFacts DEF TypeOK
<1>6. PendingExactlyOnce' /\ BatchRequests'
  BY <1>1, <1>4, <1>5, BatchesKept
<1> QED
  BY <1>1, <1>2, <1>6, OutsideIInv

\* SubmitCommit adds the request of a transaction that is in no batch yet.
LEMMA SubmitIInv ==
    ASSUME TypeOK, IInv, NEW t \in Txn, Submit(t)
    PROVE  IInv'
<1>1. /\ Commit(t) /\ Operation(t) /\ state[t] = "active" /\ state'[t] = "submitted"
      /\ \A u \in Txn \ {t} : state'[u] = state[u]
      /\ UNCHANGED <<data, certVars, readSet, writeSet>>
      /\ UNCHANGED <<batch, todo, claimedKeys, startVersion, pc>>
      /\ currentBatch' = currentBatch \cup {Request(t)}
  BY DEF Submit, SubmitCommit, Operation, Commit, Active, runVars, TypeOK, ExecTypeOK
<1>2. HistoryInv'
  BY <1>1, OperationHistory DEF TypeOK, IInv, certVars
<1>3. \A u \in Txn : Request(u)' = Request(u) /\ Request(u).txnID = u
  BY <1>1 DEF Request
<1>4. result[t] = NoResult
  BY <1>1 DEF IInv, HistoryInv, AnsweredNotActive
<1>5. BatchRequests'
  <2> SUFFICES ASSUME NEW req \in currentBatch' \cup batch'
               PROVE  req = Request(req.txnID)' /\ state'[req.txnID] \notin {"unborn", "active"}
    BY DEF BatchRequests
  <2>1. CASE req = Request(t)
    BY <1>1, <1>3, <2>1
  <2>2. CASE req \in currentBatch \cup batch
    BY <1>1, <1>3, <2>2, BatchFacts
  <2> QED
    BY <1>1, <2>1, <2>2
<1>6. PendingExactlyOnce'
  <2>1. ~ Waiting(t) /\ Waiting(t)'
    BY <1>1, <1>4 DEF Waiting, certVars
  <2>2. Request(t) \notin todo
    BY <2>1 DEF IInv, PendingExactlyOnce
  <2>3. currentBatch' \cap todo' = {}
    BY <1>1, <2>2 DEF IInv, PendingExactlyOnce
  <2>4. ASSUME NEW u \in Txn, u # t
        PROVE  Waiting(u)' <=> Request(u)' \in currentBatch' \cup todo'
    <3>1. Waiting(u)' <=> Waiting(u)
      BY <1>1, <2>4 DEF Waiting, certVars
    <3>2. Request(u) # Request(t)
      BY <1>3, <2>4
    <3> QED
      BY <1>1, <1>3, <3>1, <3>2 DEF IInv, PendingExactlyOnce
  <2>5. Waiting(t)' <=> Request(t)' \in currentBatch' \cup todo'
    BY <1>1, <1>3, <2>1
  <2> QED
    BY <2>3, <2>4, <2>5 DEF PendingExactlyOnce
<1> QED
  BY <1>1, <1>2, <1>5, <1>6, OutsideIInv

LEMMA StopIInv ==
    ASSUME TypeOK, IInv, (Stop /\ UNCHANGED execVars) \/ UNCHANGED vars
    PROVE  IInv'
<1> USE DEF certVars, batchVars, execVars
<1>1. UNCHANGED <<data, certVars, execVars, batchVars, pc>>
  BY DEF Stop, vars, epochVars, runVars
<1>2. HistoryInv'
  <2>1. NotBegun' /\ AnsweredNotActive'
    BY <1>1 DEF IInv, HistoryInv, NotBegun, AnsweredNotActive
  <2> QED
    BY <1>1, <2>1, StateHistory DEF IInv
<1>3. PendingExactlyOnce' /\ BatchRequests'
  BY <1>1 DEF IInv, PendingExactlyOnce, BatchRequests, Waiting, Request
<1> QED
  BY <1>1, <1>2, <1>3, OutsideIInv

\* processEpoch swaps the batch out: nothing in it is answered, the store and
\* the map agree, and no member can have read beyond them.
LEMMA ProcessEpochIInv ==
    ASSUME TypeOK, IInv, NEW drain \in BOOLEAN, pc = "select", ProcessEpoch(drain),
           UNCHANGED execVars
    PROVE  IInv'
<1>1. /\ UNCHANGED <<data, latestVersion, commitSeq, result>>
      /\ UNCHANGED <<idCounter, state, readSet, writeSet, observed>>
      /\ batch' = currentBatch /\ todo' = currentBatch /\ currentBatch' = {}
      /\ claimedKeys' = [k \in Key |-> Unclaimed]
      /\ startVersion' = latestVersion
      /\ pc' \in {"select", "done", "certify"}
      /\ pc' \in {"select", "done"} => currentBatch = {}
      /\ todo = {}
  BY DEF ProcessEpoch, AfterEpoch, certVars, execVars, IInv, LoopPosition
<1>2. HistoryInv'
  <2>1. NotBegun' /\ AnsweredNotActive'
    BY <1>1 DEF IInv, HistoryInv, NotBegun, AnsweredNotActive
  <2> QED
    BY <1>1, <2>1, StateHistory DEF IInv
<1>3. \A k \in Key : latestVersion[k] = data[k].version
  BY DEF IInv, VersionsAgree, Installing
<1>4. \A req \in batch' : ~ IsCommitted(req.txnID)'
  BY <1>1, UnansweredWaits DEF IsCommitted
<1>5. VersionsAgree'
  BY <1>1, <1>3 DEF VersionsAgree, Installing
<1>6. PendingExactlyOnce' /\ BatchRequests'
  BY <1>1 DEF IInv, PendingExactlyOnce, Waiting, Request, BatchRequests
<1>7. LoopPosition' /\ AnsweredInOrder' /\ InstallingReadsCurrent'
  BY <1>1 DEF LoopPosition, AnsweredInOrder, InstallingReadsCurrent
<1>8. NumbersBounded'
  BY <1>1 DEF IInv, NumbersBounded
<1>9. ClaimsExact' /\ EpochDecision'
  BY <1>1, <1>4 DEF ClaimsExact, Certified, EpochDecision
<1>10. EpochVersions'
  <2>1. \A req \in batch' : \A r \in req.readSet : r.versionSeen <= startVersion'[r.key]
    BY <1>1, <1>3, BatchFacts DEF IInv, HistoryInv, ReadsNotAhead
  <2> QED
    BY <1>1, <1>3, <1>4, <2>1 DEF EpochVersions
<1> QED
  BY <1>2, <1>5, <1>6, <1>7, <1>8, <1>9, <1>10 DEF IInv

-----------------------------------------------------------------------------
\* The loop answers its current request, with whatever result.
LEMMA AnswerFacts ==
    ASSUME TypeOK, IInv, NEW req \in todo, IsNext(req), NEW res, res # NoResult,
           Answer(req, res), UNCHANGED execVars
    PROVE  /\ req.txnID \in Txn
           /\ Waiting(req.txnID)
           /\ Answered(req.txnID, res)
           /\ UNCHANGED <<idCounter, state, readSet, writeSet, observed>>
           /\ UNCHANGED <<currentBatch, batch, startVersion>>
           /\ todo' = todo \ {req}
           /\ pc' # "apply"
           /\ \A p \in batch \ {req} : p.txnID \in Txn /\ p.txnID # req.txnID
           /\ \A p \in batch \ {req} : result'[p.txnID] = result[p.txnID]
           /\ PendingExactlyOnce' /\ BatchRequests' /\ LoopPosition' /\ AnsweredInOrder'
           /\ InstallingReadsCurrent'
<1> DEFINE t == req.txnID
<1>1. /\ req \in batch /\ t \in Txn /\ Waiting(t) /\ req = Request(t)
      /\ todo \subseteq batch
  BY BatchFacts, UnansweredWaits DEF TypeOK, EpochTypeOK
<1>2. /\ UNCHANGED <<idCounter, state, readSet, writeSet, observed>>
      /\ UNCHANGED <<currentBatch, batch, startVersion>>
      /\ todo' = todo \ {req}
      /\ result' = [result EXCEPT ![t] = res]
      /\ pc' = IF todo = {req} THEN AfterEpoch(draining) ELSE "certify"
  BY DEF Answer, Return, execVars
<1>3. Answered(t, res)
  BY <1>1, <1>2 DEF Answered, TypeOK, EpochTypeOK, CertTypeOK
<1>4. pc' # "apply"
  BY <1>2 DEF AfterEpoch
<1>5. \A p \in batch \ {req} : p.txnID \in Txn /\ p.txnID # t
  BY <1>1, BatchFacts
<1> HIDE DEF t
<1>6. \A p \in batch \ {req} : result'[p.txnID] = result[p.txnID]
  BY <1>3, <1>5 DEF Answered
<1>7. \A u \in Txn : Request(u)' = Request(u) /\ Request(u).txnID = u
  BY <1>2 DEF Request
<1>8. BatchRequests'
  BY <1>2, BatchFacts DEF BatchRequests, Request
<1>9. PendingExactlyOnce'
  <2>1. currentBatch' \cap todo' = {} /\ req \notin currentBatch
    BY <1>2 DEF IInv, PendingExactlyOnce
  <2>2. ~ Waiting(t)' /\ Request(t) \notin currentBatch' \cup todo'
    BY <1>1, <1>2, <1>3, <2>1 DEF Waiting, Answered
  <2>3. ASSUME NEW u \in Txn, u # t
        PROVE  Waiting(u)' <=> Request(u) \in currentBatch' \cup todo'
    <3>1. Waiting(u)' <=> Waiting(u)
      BY <1>2, <1>3, <2>3 DEF Waiting, Answered
    <3>2. Request(u) # req
      BY <1>1, <1>7, <2>3
    <3> QED
      BY <1>2, <3>1, <3>2 DEF IInv, PendingExactlyOnce
  <2> QED
    BY <1>1, <1>7, <2>1, <2>2, <2>3 DEF PendingExactlyOnce
<1>10. LoopPosition'
  BY <1>2 DEF LoopPosition, AfterEpoch
<1>11. AnsweredInOrder'
  BY <1>2 DEF IInv, AnsweredInOrder, IsNext
<1>12. InstallingReadsCurrent'
  BY <1>4 DEF InstallingReadsCurrent
<1> QED
  BY <1>1, <1>2, <1>3, <1>4, <1>5, <1>6, <1>8, <1>9, <1>10, <1>11, <1>12 DEF t

\* EpochDecision for the members that were answered before: the request that
\* is answered now comes after all of them in the order of the sort.
LEMMA DecisionStep ==
    ASSUME TypeOK, IInv, NEW req \in todo, IsNext(req), UNCHANGED <<batch, startVersion>>,
           todo' = todo \ {req},
           \A p \in batch \ {req} : result'[p.txnID] = result[p.txnID],
           IsCommitted(req.txnID)' <=>
                /\ \A r \in req.readSet : startVersion[r.key] = r.versionSeen
                /\ \A other \in batch :
                    Before(other, req) /\ IsCommitted(other.txnID)' => ~ Collides(other, req)
    PROVE  EpochDecision'
<1> SUFFICES ASSUME NEW p \in batch, p \notin todo \ {req}
             PROVE  IsCommitted(p.txnID)' <=>
                      /\ \A r \in p.readSet : startVersion[r.key] = r.versionSeen
                      /\ \A other \in batch :
                          Before(other, p) /\ IsCommitted(other.txnID)' => ~ Collides(other, p)
  BY DEF EpochDecision, Before, Collides
<1>1. CASE p = req
  BY <1>1
<1>2. CASE p # req
  <2>1. p \in batch \ todo /\ req \in batch
    BY <1>2 DEF TypeOK, EpochTypeOK
  <2>2. ~ Before(req, p)
    BY <2>1, BeforeAsymmetric DEF IInv, AnsweredInOrder
  <2>3. \A q \in batch \ {req} : IsCommitted(q.txnID)' <=> IsCommitted(q.txnID)
    BY DEF IsCommitted
  <2> QED
    BY <1>2, <2>1, <2>2, <2>3 DEF IInv, EpochDecision
<1> QED
  BY <1>1, <1>2

\* A member of the batch that has committed comes before the current request.
LEMMA CommittedBefore ==
    ASSUME TypeOK, IInv, NEW req \in todo, NEW p \in batch, IsCommitted(p.txnID)
    PROVE  Before(p, req) /\ p # req
<1>1. p \notin todo
  BY UnansweredWaits
<1> QED
  BY <1>1 DEF IInv, AnsweredInOrder

\* certifyTxn turns its request down: some read of it is stale, or another
\* member has claimed one of its keys.
LEMMA AbortIInv ==
    ASSUME TypeOK, IInv, NEW req \in todo, UNCHANGED execVars,
           CertifyTxnStale(req) \/ CertifyTxnConflict(req)
    PROVE  /\ IInv'
           /\ \E reason \in {"stale", "conflict"} : Answered(req.txnID, Aborted(reason))
<1> DEFINE t == req.txnID
<1>1. PICK reason \in {"stale", "conflict"} :
        /\ Answer(req, Aborted(reason))
        /\ pc = "certify" /\ IsNext(req)
        /\ UNCHANGED <<latestVersion, commitSeq, claimedKeys, data>>
        /\ reason = "stale" => StaleRead(req)
        /\ reason = "conflict" => Taken(req) # {}
  BY DEF CertifyTxnStale, CertifyTxnConflict
<1>2. /\ Aborted(reason) # NoResult
      /\ Aborted(reason).decision = reason /\ Aborted(reason).commitSeq = 0
  BY DEF Aborted, NoResult
<1>3. /\ t \in Txn /\ Waiting(t) /\ Answered(t, Aborted(reason))
      /\ UNCHANGED <<idCounter, state, readSet, writeSet, observed>>
      /\ UNCHANGED <<currentBatch, batch, startVersion>>
      /\ todo' = todo \ {req}
      /\ pc' # "apply"
      /\ \A p \in batch \ {req} : result'[p.txnID] = result[p.txnID]
      /\ PendingExactlyOnce' /\ BatchRequests' /\ LoopPosition' /\ AnsweredInOrder'
      /\ InstallingReadsCurrent'
  BY <1>1, <1>2, AnswerFacts
<1>4. req \in batch
  BY DEF TypeOK, EpochTypeOK
<1>5. \A k \in Key : latestVersion[k] = data[k].version
  BY <1>1 DEF IInv, VersionsAgree, Installing
<1>6. ~ IsCommitted(t) /\ ~ IsCommitted(t)'
  BY <1>2, <1>3 DEF Answered, IsCommitted, Waiting, NoResult
<1>7. \A p \in batch : IsCommitted(p.txnID)' <=> IsCommitted(p.txnID)
  BY <1>3, <1>6 DEF IsCommitted
<1>8. ASSUME StaleRead(req)
      PROVE  \E r \in req.readSet : r.versionSeen # data[r.key].version /\ r.key \in Key
  <2>1. PICK r \in req.readSet : latestVersion[r.key] # r.versionSeen
    BY <1>8 DEF StaleRead
  <2>2. r.key \in Key
    BY <1>4, BatchFacts
  <2> QED
    BY <1>5, <2>1, <2>2
<1>9. HistoryInv'
  <2>1. reason = "stale" => \E r \in readSet[t] : r.versionSeen # data[r.key].version
    BY <1>1, <1>4, <1>8, BatchFacts
  <2> QED
    BY <1>1, <1>3, <2>1, AbortHistory DEF TypeOK, EpochTypeOK, IInv
<1>10. VersionsAgree'
  BY <1>1, <1>3, <1>5 DEF VersionsAgree, Installing
<1>11. NumbersBounded'
  <2>1. \A u \in Txn : result'[u].commitSeq <= commitSeq
    BY <1>2, <1>3 DEF Answered, IInv, NumbersBounded, TypeOK, EpochTypeOK, CertTypeOK
  <2> QED
    BY <1>1, <1>3, <2>1 DEF IInv, NumbersBounded
<1>12. ClaimsExact'
  BY <1>1, <1>3, <1>7 DEF IInv, ClaimsExact, Certified
<1>13. EpochVersions'
  BY <1>1, <1>3, <1>7 DEF IInv, EpochVersions
<1>14. EpochDecision'
  <2>1. CASE reason = "stale" /\ \A r \in req.readSet : startVersion[r.key] = r.versionSeen
    <3>1. PICK r \in req.readSet : r.versionSeen # data[r.key].version /\ r.key \in Key
      BY <1>1, <1>8, <2>1
    <3>2. PICK p \in batch : IsCommitted(p.txnID) /\ r.key \in KeysOf(p.writeSet)
      BY <2>1, <3>1 DEF IInv, EpochVersions
    <3>3. Before(p, req) /\ Collides(p, req)
      BY <3>1, <3>2, CommittedBefore DEF Collides
    <3> QED
      BY <1>1, <1>3, <1>6, <1>7, <3>2, <3>3, DecisionStep
  <2>2. CASE reason = "stale" /\ ~ \A r \in req.readSet : startVersion[r.key] = r.versionSeen
    BY <1>1, <1>3, <1>6, <2>2, DecisionStep
  <2>3. CASE reason = "conflict"
    <3>1. PICK k \in KeysOf(req.writeSet) :
            claimedKeys[k] # Unclaimed /\ claimedKeys[k] # IdRank[req.txnID]
      BY <1>1, <2>3 DEF Taken
    <3>2. k \in Key
      BY <1>4, <3>1, BatchFacts
    <3>3. PICK p \in batch : /\ IsCommitted(p.txnID)
                            /\ k \in KeysOf(p.writeSet)
                            /\ claimedKeys[k] = IdRank[p.txnID]
      BY <1>1, <3>1, <3>2 DEF IInv, ClaimsExact, Certified
    <3>4. Before(p, req) /\ Collides(p, req)
      BY <3>1, <3>3, CommittedBefore DEF Collides
    <3> QED
      BY <1>1, <1>3, <1>6, <1>7, <3>3, <3>4, DecisionStep
  <2> QED
    BY <2>1, <2>2, <2>3
<1> QED
  BY <1>3, <1>9, <1>10, <1>11, <1>12, <1>13, <1>14 DEF IInv

\* certifyTxn lets its request pass: the keys it claims are free or claimed
\* under the same id, and its number is above all others.
LEMMA AssignIInv ==
    ASSUME TypeOK, IInv, NEW req \in todo, CertifyTxnAssign(req), UNCHANGED execVars
    PROVE  IInv'
<1>1. /\ pc = "certify" /\ pc' = "apply" /\ IsNext(req)
      /\ ~ StaleRead(req) /\ Taken(req) = {}
      /\ commitSeq' = commitSeq + 1
      /\ claimedKeys' = [k \in Key |-> IF k \in KeysOf(req.writeSet)
                                       THEN IdRank[req.txnID] ELSE claimedKeys[k]]
      /\ latestVersion' = [k \in Key |-> IF k \in KeysOf(req.writeSet)
                                         THEN commitSeq + 1 ELSE latestVersion[k]]
      /\ UNCHANGED <<currentBatch, batch, todo, startVersion, result, data>>
      /\ UNCHANGED <<idCounter, state, readSet, writeSet, observed>>
  BY DEF CertifyTxnAssign, Bumped, execVars
<1>2. req \in batch
  BY DEF TypeOK, EpochTypeOK
<1>3. /\ commitSeq \in Nat
      /\ \A u \in Txn : result[u].commitSeq \in Nat
      /\ \A k \in Key : data[k].version \in Nat
  BY DEF TypeOK, EpochTypeOK, CertTypeOK, TxnResult, StoreTypeOK, ReadResult
<1>4. \A k \in Key : latestVersion[k] = data[k].version
  BY <1>1 DEF IInv, VersionsAgree, Installing
<1>5. \A p : IsNext(p)' <=> p = req
  <2>1. \A p : IsNext(p)' <=> IsNext(p)
    BY <1>1 DEF IsNext, Before
  <2> QED
    BY <1>1, <2>1, NextUnique
<1>6. HistoryInv'
  <2>1. NotBegun' /\ AnsweredNotActive'
    BY <1>1 DEF IInv, HistoryInv, NotBegun, AnsweredNotActive
  <2> QED
    BY <1>1, <2>1, StateHistory DEF IInv
<1>7. VersionsAgree'
  BY <1>1, <1>4, <1>5 DEF VersionsAgree, Installing
<1>8. PendingExactlyOnce' /\ BatchRequests'
  BY <1>1 DEF IInv, PendingExactlyOnce, Waiting, Request, BatchRequests
<1>9. LoopPosition' /\ AnsweredInOrder'
  BY <1>1, <1>5 DEF IInv, LoopPosition, AnsweredInOrder, Before
<1>10. NumbersBounded'
  BY <1>1, <1>3 DEF IInv, NumbersBounded
<1>11. InstallingReadsCurrent'
  <2>1. \A r \in req.readSet : r.versionSeen = data[r.key].version
    BY <1>1, <1>2, <1>4, BatchFacts DEF StaleRead
  <2> QED
    BY <1>1, <1>5, <2>1 DEF InstallingReadsCurrent
<1>12. ClaimsExact'
  <2>1. \A p \in batch : Certified(p)' <=> (IsCommitted(p.txnID) \/ p = req)
    BY <1>1, <1>5 DEF Certified, IsCommitted
  <2>2. \A p \in batch : IsCommitted(p.txnID) => Certified(p)
    BY DEF Certified
  <2>3. ASSUME NEW p \in batch, Certified(p)', NEW k \in KeysOf(p.writeSet)
        PROVE  claimedKeys'[k] = IdRank[p.txnID]
    <3>1. k \in Key
      BY <2>3, BatchFacts
    <3>2. CASE p = req
      BY <1>1, <3>1, <3>2
    <3>3. CASE p # req /\ k \notin KeysOf(req.writeSet)
      BY <1>1, <2>1, <2>2, <2>3, <3>1, <3>3 DEF IInv, ClaimsExact
    <3>4. CASE p # req /\ k \in KeysOf(req.writeSet)
      <4>1. claimedKeys[k] = IdRank[p.txnID] /\ IdRank[p.txnID] \in Nat
        BY <2>1, <2>2, <2>3, <3>4, BatchFacts DEF IInv, ClaimsExact
      <4>2. claimedKeys[k] \in {Unclaimed, IdRank[req.txnID]}
        BY <1>1, <3>4 DEF Taken
      <4>3. IdRank[p.txnID] = IdRank[req.txnID]
        BY <4>1, <4>2 DEF Unclaimed
      <4> QED
        BY <1>1, <3>1, <3>4, <4>3
    <3> QED
      BY <3>2, <3>3, <3>4
  <2>4. ASSUME NEW k \in Key, claimedKeys'[k] # Unclaimed
        PROVE  \E p \in batch : /\ Certified(p)'
                                /\ k \in KeysOf(p.writeSet)
                                /\ claimedKeys'[k] = IdRank[p.txnID]
    <3>1. CASE k \in KeysOf(req.writeSet)
      BY <1>1, <1>2, <2>1, <3>1
    <3>2. CASE k \notin KeysOf(req.writeSet)
      <4>1. claimedKeys[k] # Unclaimed /\ claimedKeys'[k] = claimedKeys[k]
        BY <1>1, <2>4, <3>2
      <4>2. PICK p \in batch : /\ Certified(p)
                              /\ k \in KeysOf(p.writeSet)
                              /\ claimedKeys[k] = IdRank[p.txnID]
        BY <4>1 DEF IInv, ClaimsExact
      <4>3. IsCommitted(p.txnID)
        BY <1>1, <4>2 DEF Certified
      <4> QED
        BY <2>1, <4>1, <4>2, <4>3
    <3> QED
      BY <3>1, <3>2
  <2> QED
    BY <1>1, <2>3, <2>4 DEF ClaimsExact
<1>13. EpochVersions' /\ EpochDecision'
  BY <1>1 DEF IInv, EpochVersions, EpochDecision, IsCommitted
<1> QED
  BY <1>6, <1>7, <1>8, <1>9, <1>10, <1>11, <1>12, <1>13 DEF IInv

\* What ApplyCommit does under the invariant: it accepts the record.
LEMMA ApplyFacts ==
    ASSUME TypeOK, IInv, NEW req \in todo, CertifyTxnApply(req), UNCHANGED execVars
    PROVE  /\ pc = "apply" /\ IsNext(req) /\ req \in batch
           /\ req.txnID \in Txn /\ Waiting(req.txnID)
           /\ commitSeq \in Nat
           /\ \A u \in Txn : result[u].commitSeq < commitSeq
           /\ \A k \in Key : data[k].version < commitSeq
           /\ \A r \in req.readSet : r.versionSeen = data[r.key].version
           /\ Answer(req, Committed(commitSeq))
           /\ Committed(commitSeq) # NoResult
           /\ Answered(req.txnID, Committed(commitSeq))
           /\ data' = Installed(req.txnID, commitSeq)
           /\ UNCHANGED <<latestVersion, commitSeq, claimedKeys>>
<1>1. /\ pc = "apply" /\ IsNext(req)
      /\ ApplyCommit(Record(req, commitSeq))
      /\ Answer(req, Committed(commitSeq))
      /\ UNCHANGED <<latestVersion, commitSeq, claimedKeys>>
  BY DEF CertifyTxnApply
<1>2. commitSeq \in Nat /\ req \in batch
  BY DEF TypeOK, EpochTypeOK, CertTypeOK
<1>3. /\ \A u \in Txn : result[u].commitSeq < commitSeq
      /\ \A k \in Key : data[k].version < commitSeq
      /\ \A r \in req.readSet : r.versionSeen = data[r.key].version
  BY <1>1 DEF IInv, NumbersBounded, InstallingReadsCurrent
<1>4. Committed(commitSeq) # NoResult
  BY DEF Committed, NoResult
<1>5. req.txnID \in Txn /\ Waiting(req.txnID) /\ Answered(req.txnID, Committed(commitSeq))
  BY <1>1, <1>4, AnswerFacts
<1>6. ApplyCommit(Record(Request(req.txnID), commitSeq))
  BY <1>1, <1>2, BatchFacts
<1>7. data' = Installed(req.txnID, commitSeq)
  BY <1>2, <1>3, <1>5, <1>6, FreshRecordInstalled DEF TypeOK
<1> QED
  BY <1>1, <1>2, <1>3, <1>4, <1>5, <1>7

\* The store applies the record and the loop answers: the commit point.
LEMMA ApplyIInv ==
    ASSUME TypeOK, IInv, NEW req \in todo, CertifyTxnApply(req), UNCHANGED execVars
    PROVE  IInv'
<1> DEFINE t == req.txnID
<1>1. /\ pc = "apply" /\ IsNext(req) /\ req \in batch /\ t \in Txn /\ Waiting(t)
      /\ commitSeq \in Nat
      /\ \A u \in Txn : result[u].commitSeq < commitSeq
      /\ \A k \in Key : data[k].version < commitSeq
      /\ \A r \in req.readSet : r.versionSeen = data[r.key].version
      /\ Answered(t, Committed(commitSeq))
      /\ data' = Installed(t, commitSeq)
      /\ UNCHANGED <<latestVersion, commitSeq, claimedKeys>>
  BY ApplyFacts
<1>2. /\ UNCHANGED <<idCounter, state, readSet, writeSet, observed>>
      /\ UNCHANGED <<currentBatch, batch, startVersion>>
      /\ todo' = todo \ {req}
      /\ pc' # "apply"
      /\ \A p \in batch \ {req} : result'[p.txnID] = result[p.txnID]
      /\ PendingExactlyOnce' /\ BatchRequests' /\ LoopPosition' /\ AnsweredInOrder'
      /\ InstallingReadsCurrent'
  BY ApplyFacts, AnswerFacts
<1>3. \A k : Writes(t, k) <=> k \in KeysOf(req.writeSet)
  BY <1>1, BatchFacts DEF Writes
<1>4. /\ \A k \in Key : k \in KeysOf(req.writeSet) => data'[k].version = commitSeq
      /\ \A k \in Key : k \notin KeysOf(req.writeSet) => data'[k] = data[k]
  BY <1>1, <1>3, InstalledVersion
<1>5. IsCommitted(t)' /\ ~ IsCommitted(t) /\ result'[t].commitSeq = commitSeq
  BY <1>1 DEF Answered, Committed, IsCommitted, Waiting, NoResult
<1>6. \A p \in batch : IsCommitted(p.txnID)' <=> (IsCommitted(p.txnID) \/ p = req)
  BY <1>2, <1>5 DEF IsCommitted
<1>7. HistoryInv'
  <2>1. req.readSet = readSet[t]
    BY <1>1, BatchFacts
  <2> QED
    BY <1>1, <1>2, <2>1, CommitHistory DEF TypeOK, EpochTypeOK, IInv
<1>8. \A p : IsNext(p) <=> p = req
  BY <1>1, NextUnique
<1>9. VersionsAgree'
  BY <1>1, <1>2, <1>4, <1>8 DEF IInv, VersionsAgree, Installing
<1>10. NumbersBounded'
  <2>1. \A u \in Txn : result'[u].commitSeq <= commitSeq'
    BY <1>1, <1>5 DEF Answered, TypeOK, EpochTypeOK, CertTypeOK, TxnResult
  <2>2. \A k \in Key : data'[k].version <= commitSeq'
    BY <1>1, <1>4 DEF TypeOK, StoreTypeOK, ReadResult
  <2> QED
    BY <1>2, <2>1, <2>2 DEF NumbersBounded
<1>11. ClaimsExact'
  <2>1. \A p \in batch : Certified(p)' <=> Certified(p)
    BY <1>1, <1>2, <1>6, <1>8 DEF Certified
  <2> QED
    BY <1>1, <1>2, <2>1 DEF IInv, ClaimsExact
<1>12. \A k \in Key : data[k].version \in Nat /\ startVersion[k] \in Nat
                      /\ startVersion[k] <= data[k].version
  BY DEF TypeOK, EpochTypeOK, StoreTypeOK, ReadResult, IInv, EpochVersions
<1>13. EpochVersions'
  <2>1. ASSUME NEW k \in Key
        PROVE  IF \E p \in batch : IsCommitted(p.txnID)' /\ k \in KeysOf(p.writeSet)
               THEN data'[k].version > startVersion[k]
               ELSE data'[k].version = startVersion[k]
    <3>1. CASE k \in KeysOf(req.writeSet)
      BY <1>1, <1>4, <1>6, <1>12, <3>1
    <3>2. CASE k \notin KeysOf(req.writeSet)
      <4>1. (\E p \in batch : IsCommitted(p.txnID)' /\ k \in KeysOf(p.writeSet))
            <=> (\E p \in batch : IsCommitted(p.txnID) /\ k \in KeysOf(p.writeSet))
        BY <1>6, <3>2
      <4> QED
        BY <1>4, <3>2, <4>1 DEF IInv, EpochVersions
    <3> QED
      BY <3>1, <3>2
  <2> QED
    BY <1>2, <2>1 DEF IInv, EpochVersions
<1>14. EpochDecision'
  <2>1. ASSUME NEW r \in req.readSet
        PROVE  /\ startVersion[r.key] = r.versionSeen
               /\ \A p \in batch : IsCommitted(p.txnID) => r.key \notin KeysOf(p.writeSet)
    <3>1. r.key \in Key /\ r.versionSeen \in Nat /\ r.versionSeen <= startVersion[r.key]
      BY <1>1, BatchFacts DEF IInv, EpochVersions
    <3>2. startVersion[r.key] = data[r.key].version
      BY <1>1, <1>12, <3>1
    <3> QED
      BY <1>1, <1>12, <3>1, <3>2 DEF IInv, EpochVersions
  <2>2. ASSUME NEW p \in batch, IsCommitted(p.txnID), IdRank[p.txnID] # IdRank[req.txnID]
        PROVE  KeysOf(p.writeSet) \cap KeysOf(req.writeSet) = {}
    BY <1>1, <2>2 DEF IInv, ClaimsExact, Certified
  <2>3. ~ Before(req, req)
    BY <1>1, BeforeAsymmetric
  <2>4. \A p \in batch : Before(p, req) /\ IsCommitted(p.txnID)' => ~ Collides(p, req)
    BY <1>6, <2>1, <2>2, <2>3 DEF Collides
  <2> QED
    BY <1>1, <1>2, <1>5, <2>1, <2>4, DecisionStep
<1> QED
  BY <1>2, <1>7, <1>9, <1>10, <1>11, <1>13, <1>14 DEF IInv

LEMMA NextIInv == TypeOK /\ IInv /\ [Next]_vars => IInv'
<1> SUFFICES ASSUME TypeOK, IInv, [Next]_vars PROVE IInv'
  OBVIOUS
<1>1. CASE Begin /\ UNCHANGED <<data, certVars, epochVars>>
  BY <1>1, BeginIInv
<1>2. CASE \E t \in Txn : Submit(t) \/ Act(t)
  BY <1>2, SubmitIInv, ActIInv
<1>3. CASE Run
  <2>1. CASE Tick \/ StopCase
    BY <1>3, <2>1, ProcessEpochIInv DEF Run, Tick, StopCase
  <2>2. ASSUME NEW req \in todo, CertifyTxn(req) PROVE IInv'
    BY <1>3, <2>2, AbortIInv, AssignIInv, ApplyIInv DEF Run, CertifyTxn
  <2> QED
    BY <1>3, <2>1, <2>2 DEF Run
<1>4. CASE (Stop /\ UNCHANGED execVars) \/ UNCHANGED vars
  BY <1>4, StopIInv
<1> QED
  BY <1>1, <1>2, <1>3, <1>4 DEF Next

-----------------------------------------------------------------------------
(***************************************************************************)
(* The inductive invariant holds of every behaviour of the three layers    *)
(* with epoch certification.                                               *)
(***************************************************************************)
THEOREM InductiveInvariant == Spec => []IInv
<1>1. Init => IInv
  BY InitIInv
<1>2. TypeOK /\ IInv /\ [Next]_vars => IInv'
  BY NextIInv
<1> QED
  BY <1>1, <1>2, TypeCorrect, PTL DEF Spec

\* The certifier's map and the store agree in every state of an epoch but for
\* the record on its way: no error of ApplyCommit is ever dropped.
THEOREM MapAgreesWithStore == Spec => []VersionsAgree
<1>1. IInv => VersionsAgree
  BY DEF IInv
<1> QED
  BY <1>1, InductiveInvariant, PTL

\* A request that SubmitCommit waits for is in exactly one of the two batches.
THEOREM NoRequestLost == Spec => []PendingExactlyOnce
<1>1. IInv => PendingExactlyOnce
  BY DEF IInv
<1> QED
  BY <1>1, InductiveInvariant, PTL

(***************************************************************************)
(* Deterministic conflict resolution: the loop's answers are those that    *)
(* the batch, its order and the versions at the start of the epoch alone   *)
(* determine, although the loop validates against a map that changes under *)
(* it and reads and submissions go on meanwhile.                           *)
(***************************************************************************)
THEOREM DecisionsDeterministic == Spec => []EpochDecision
<1>1. IInv => EpochDecision
  BY DEF IInv
<1> QED
  BY <1>1, InductiveInvariant, PTL

\* Of the requests of an epoch that write a key under different ids, at most
\* one commits.
THEOREM SingleWinner == Spec => []OneWinnerPerKey
<1>1. IInv => OneWinnerPerKey
  <2> SUFFICES ASSUME IInv, NEW r1 \in batch, NEW r2 \in batch,
                      IsCommitted(r1.txnID), IsCommitted(r2.txnID),
                      NEW k \in KeysOf(r1.writeSet), k \in KeysOf(r2.writeSet)
               PROVE  IdRank[r1.txnID] = IdRank[r2.txnID]
    BY DEF OneWinnerPerKey
  <2> QED
    BY DEF IInv, ClaimsExact, Certified
<1> QED
  BY <1>1, InductiveInvariant, PTL

\* No commit comes between a committed transaction's reads and its commit.
THEOREM ReadsAreStable == Spec => []NoInterveningWrite
<1>1. IInv => NoInterveningWrite
  BY DEF IInv, HistoryInv
<1> QED
  BY <1>1, InductiveInvariant, PTL

\* No committed write is lost: the store holds the latest of them.
THEOREM NoLostUpdate == Spec => []StoreHoldsLastCommit
<1>1. IInv => StoreHoldsLastCommit
  BY DEF IInv, HistoryInv
<1> QED
  BY <1>1, InductiveInvariant, PTL

\* Every abort for a stale read has a conflicting commit as its reason.
THEOREM NoSpuriousAbort == Spec => []AbortJustified
<1>1. IInv => AbortJustified
  BY DEF IInv, HistoryInv
<1> QED
  BY <1>1, InductiveInvariant, PTL

\* Commits are numbered in the order in which they take effect.
THEOREM NumbersFollowCommits == Spec => CommitOrder
<1> DEFINE Step == \A t \in Txn : ~ IsCommitted(t) /\ IsCommitted(t)' =>
                     \A u \in Txn : IsCommitted(u) =>
                        result[u].commitSeq < result'[t].commitSeq
<1>1. ASSUME TypeOK, IInv, [Next]_vars PROVE [Step]_result
  <2>1. CASE UNCHANGED result
    BY <2>1
  <2>2. ASSUME NEW req \in todo, CertifyTxn(req), UNCHANGED execVars PROVE [Step]_result
    <3>1. CASE CertifyTxnStale(req) \/ CertifyTxnConflict(req)
      <4>1. \A t \in Txn : IsCommitted(t)' => IsCommitted(t)
        BY <1>1, <2>2, <3>1, AbortIInv DEF IsCommitted, Aborted, Answered
      <4> QED
        BY <4>1
    <3>2. CASE CertifyTxnAssign(req)
      BY <3>2 DEF CertifyTxnAssign
    <3>3. CASE CertifyTxnApply(req)
      <4>1. /\ Answered(req.txnID, Committed(commitSeq))
            /\ \A u \in Txn : result[u].commitSeq < commitSeq
        BY <1>1, <2>2, <3>3, ApplyFacts
      <4>2. Step
        BY <4>1 DEF IsCommitted, Committed, Answered
      <4> QED
        BY <4>2
    <3> QED
      BY <2>2, <3>1, <3>2, <3>3 DEF CertifyTxn
  <2>3. \/ UNCHANGED result
        \/ UNCHANGED execVars /\ \E req \in todo : CertifyTxn(req)
    BY <1>1 DEF Next, Submit, SubmitCommit, Act, Run, Tick, StopCase, ProcessEpoch, Stop,
                certVars, vars
  <2> QED
    BY <2>1, <2>2, <2>3
<1> QED
  BY <1>1, TypeCorrect, InductiveInvariant, PTL DEF Spec, CommitOrder

-----------------------------------------------------------------------------
LEMMA RunRefines ==
    ASSUME TypeOK, IInv, Run
    PROVE  [Serial!Next]_(Serial!vars)
<1>1. UNCHANGED execVars
  BY DEF Run
<1>2. CASE Tick \/ StopCase
  BY <1>1, <1>2, StutterRefines DEF Tick, StopCase, ProcessEpoch, execVars, certVars
<1>3. ASSUME NEW req \in todo, CertifyTxn(req) PROVE [Serial!Next]_(Serial!vars)
  <2>1. req \in currentBatch \cup batch /\ req \in currentBatch \cup todo
    BY DEF TypeOK, EpochTypeOK
  <2>2. /\ req.txnID \in Txn /\ Waiting(req.txnID)
        /\ req.readSet = readSet[req.txnID]
    BY <2>1, BatchFacts, UnansweredWaits
  <2>3. CASE CertifyTxnStale(req) \/ CertifyTxnConflict(req)
    <3>1. PICK reason \in {"stale", "conflict"} : Answered(req.txnID, Aborted(reason))
      BY <1>1, <2>3, AbortIInv
    <3>2. UNCHANGED data
      BY <2>3 DEF CertifyTxnStale, CertifyTxnConflict
    <3> QED
      BY <1>1, <2>2, <3>1, <3>2, AbortRefines DEF execVars
  <2>4. CASE CertifyTxnAssign(req)
    BY <1>1, <2>4, StutterRefines DEF CertifyTxnAssign, execVars
  <2>5. CASE CertifyTxnApply(req)
    BY <1>1, <2>2, <2>5, ApplyFacts, CommitRefines DEF TypeOK, IInv, execVars
  <2> QED
    BY <1>3, <2>3, <2>4, <2>5 DEF CertifyTxn
<1> QED
  BY <1>2, <1>3 DEF Run

LEMMA NextRefines == TypeOK /\ IInv /\ [Next]_vars => [Serial!Next]_(Serial!vars)
<1> SUFFICES ASSUME TypeOK, IInv, [Next]_vars PROVE [Serial!Next]_(Serial!vars)
  OBVIOUS
<1>1. CASE Begin /\ UNCHANGED <<data, certVars, epochVars>>
  BY <1>1, BeginRefines DEF TypeOK, IInv, certVars
<1>2. ASSUME NEW t \in Txn, Submit(t) \/ Act(t) PROVE [Serial!Next]_(Serial!vars)
  <2>1. Operation(t) /\ UNCHANGED <<data, result>>
    BY <1>2 DEF Submit, SubmitCommit, Act, Operation, certVars
  <2> QED
    BY <2>1, OperationRefines DEF TypeOK, IInv
<1>3. CASE Run
  BY <1>3, RunRefines
<1>4. CASE (Stop /\ UNCHANGED execVars) \/ UNCHANGED vars
  BY <1>4, StutterRefines DEF Stop, vars, execVars, certVars
<1> QED
  BY <1>1, <1>2, <1>3, <1>4 DEF Next

(***************************************************************************)
(* Strict serializability: MemStore, EpochCertifier and Engine together    *)
(* implement the serial store.  The commits of an epoch take effect one    *)
(* after the other, in the order of its loop, while other transactions     *)
(* read between them.                                                      *)
(***************************************************************************)
THEOREM EpochSerializable == Spec => Serializable
<1>1. Init => Serial!Init
  BY InitRefines DEF Init, NewEpochCertifier
<1> QED
  BY <1>1, NextRefines, TypeCorrect, InductiveInvariant, PTL DEF Spec, Serializable, Serial!Spec
=============================================================================

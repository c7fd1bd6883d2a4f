------------------------- MODULE RemoteEpochProofs --------------------------
(***************************************************************************)
(* Proofs of the safety properties of RemoteEpoch: three processes, epoch  *)
(* certification, failing calls, panics, late records, crashes and         *)
(* restarts.                                                               *)
(***************************************************************************)
EXTENDS RemoteEpoch, DeploymentLemmas

KeptFailures == {"apply"} \cup SyncFailures

BatchTypes ==
    /\ currentBatch \in SUBSET TxnRequest
    /\ batch \in SUBSET TxnRequest
    /\ todo \subseteq batch
    /\ claimedKeys \in [Key -> Nat \cup {Unclaimed}]
    /\ pc \in {"select", "certify", "apply", "done"}
    /\ draining \in BOOLEAN
    /\ stopping \in BOOLEAN
    /\ startVersion \in [Key -> Nat]

\* What is inductive: IInv, the types, and that the store's versions are bounded.
Strong == TypeOK /\ StoreBounded /\ IInv

LEMMA StrongParts ==
    Strong <=> /\ Types /\ BatchTypes /\ StoreBounded
               /\ DeployInv(Installing) /\ BatchRequests
               /\ (Without(KeptFailures) => StoreHoldsLastCommit)
BY DEF Strong, TypeOK, EpochTypeOK, BatchTypes, Types, IInv, KeptFailures

LEMMA StrongNext ==
    ASSUME Types', BatchTypes', StoreBounded', DeployInv(Installing)', BatchRequests',
           Without(KeptFailures)' => StoreHoldsLastCommit'
    PROVE  Strong'
BY DEF Strong, TypeOK, EpochTypeOK, BatchTypes, Types, IInv, KeptFailures

-----------------------------------------------------------------------------
(***************************************************************************)
(* The loop of an epoch has one current request.                           *)
(***************************************************************************)
LEMMA NextUnique ==
    ASSUME todo \in SUBSET TxnRequest, NEW p, NEW q, IsNext(p), IsNext(q)
    PROVE  p = q
<1>1. p \in todo /\ q \in todo /\ p.txnID \in Txn /\ q.txnID \in Txn
  BY DEF IsNext, TxnRequest
<1>2. /\ IdRank[p.txnID] \in Nat /\ IdRank[q.txnID] \in Nat
      /\ p.txnID \in Nat /\ q.txnID \in Nat
  BY <1>1, IdRankAssumption, MaxTxnsAssumption DEF Txn
<1>3. ~ (Before(p, q) /\ Before(q, p))
  BY <1>2 DEF Before
<1> QED
  BY <1>1, <1>3 DEF IsNext

LEMMA InstallingFacts ==
    ASSUME BatchTypes
    PROVE  /\ Installing \in SUBSET Txn
           /\ pc # "apply" \/ server = "down" => Installing = {}
           /\ \A req \in todo : server # "down" /\ pc = "apply" /\ IsNext(req)
                                => Installing = {req.txnID}
<1>1. todo \in SUBSET TxnRequest
  BY DEF BatchTypes
<1>2. Installing \in SUBSET Txn
  BY <1>1 DEF Installing, TxnRequest
<1>3. \A req, q \in todo : IsNext(req) /\ IsNext(q) => q = req
  BY <1>1, NextUnique
<1> QED
  BY <1>2, <1>3 DEF Installing

LEMMA InstallingKept ==
    ASSUME UNCHANGED <<todo, pc>>, server = "down" <=> server' = "down"
    PROVE  Installing' = Installing
BY DEF Installing, IsNext

\* The requests of a batch are calls, so that their sets do not change any more.
LEMMA BatchKept ==
    ASSUME BatchRequests, UNCHANGED <<currentBatch, todo, pc>>,
           server' # "down" => server # "down",
           \A t \in calls : result[t] = NoResult =>
             t \in calls' /\ UNCHANGED <<result[t], readSet[t], writeSet[t]>>
    PROVE  BatchRequests'
<1>1. SUFFICES ASSUME server' # "down" PROVE BatchRequests'
  BY DEF BatchRequests
<1>2. \A req \in currentBatch \cup todo :
        /\ req = Request(req.txnID)' /\ req.txnID \in calls' /\ result'[req.txnID] = NoResult
  BY <1>1 DEF BatchRequests, Request
<1> QED
  BY <1>1, <1>2 DEF BatchRequests, IsNext

\* Requests that are answered leave the batch; the others keep waiting.
LEMMA BatchAnswered ==
    ASSUME BatchRequests, server # "down",
           currentBatch' = currentBatch, todo' \subseteq todo, pc' # "apply",
           UNCHANGED <<readSet, writeSet, calls>>,
           \A req \in currentBatch \cup todo' : result'[req.txnID] = result[req.txnID]
    PROVE  BatchRequests'
<1>1. \A req \in currentBatch' \cup todo' :
        req = Request(req.txnID)' /\ req.txnID \in calls' /\ result'[req.txnID] = NoResult
  BY DEF BatchRequests, Request
<1> QED
  BY <1>1 DEF BatchRequests

\* No transaction is in two requests.
LEMMA BatchDistinct ==
    ASSUME BatchRequests, server # "down", NEW req \in todo
    PROVE  /\ \A q \in todo \ {req} : q.txnID # req.txnID
           /\ \A q \in currentBatch : q.txnID # req.txnID
           /\ req = Request(req.txnID) /\ req.txnID \in calls /\ result[req.txnID] = NoResult
BY DEF BatchRequests

-----------------------------------------------------------------------------
(***************************************************************************)
(* Reported commits.                                                       *)
(***************************************************************************)

\* Nothing is reported as committed that was not before.
LEMMA NoNewCommit ==
    ASSUME StoreHoldsLastCommit, UNCHANGED <<data, writeSet>>,
           \A t \in Txn : IsCommitted(t)' => result'[t] = result[t]
    PROVE  StoreHoldsLastCommit'
BY DEF StoreHoldsLastCommit, IsCommitted, Writes

LEMMA NothingCommitted ==
    ASSUME \A t \in Txn : result'[t] = NoResult
    PROVE  StoreHoldsLastCommit'
BY DEF NoResult, StoreHoldsLastCommit, IsCommitted

-----------------------------------------------------------------------------
(***************************************************************************)
(* Every step preserves what is inductive.                                 *)
(***************************************************************************)
LEMMA InitStrong ==
    ASSUME RemoteInit PROVE Strong
<1>0. /\ currentBatch = {} /\ batch = {} /\ todo = {} /\ pc = "select"
      /\ claimedKeys = [k \in Key |-> Unclaimed] /\ startVersion = latestVersion
      /\ draining = FALSE /\ stopping = FALSE
      /\ DeployInit /\ NewCertifier
  BY DEF RemoteInit, NewEpochCertifier
<1>1. Installing = {}
  BY <1>0 DEF Installing
<1>2. Types /\ DeployInv(Installing) /\ StoreBounded
  BY <1>0, <1>1, InitInv
<1>3. BatchTypes /\ BatchRequests
  BY <1>0, <1>2 DEF BatchTypes, BatchRequests, Types, CertTypeOK
<1>4. StoreHoldsLastCommit
  <2>1. \A t \in Txn : result[t].decision = "none"
    BY <1>0 DEF NewCertifier, NoResult
  <2> QED
    BY <2>1 DEF StoreHoldsLastCommit, IsCommitted
<1> QED
  BY <1>2, <1>3, <1>4, StrongParts

\* Steps of the client and of the store leave the certifier's batches alone.
LEMMA BatchTypesKept ==
    ASSUME BatchTypes, UNCHANGED epochVars
    PROVE  BatchTypes' /\ UNCHANGED <<currentBatch, todo, pc>>
BY DEF BatchTypes, epochVars, batchVars, runVars

LEMMA LoadStep ==
    ASSUME Strong, UNCHANGED epochVars,
           NEW keys \in SUBSET Key, NEW initial \in [keys -> Value],
           Load(initial) \/ Reload(initial)
    PROVE  Strong'
<1>1. PICK H : H = Installing
  OBVIOUS
<1>2. Types /\ StoreBounded /\ DeployInv(H) /\ BatchTypes /\ BatchRequests
  BY <1>1, StrongParts
<1>3. Types' /\ DeployInv(H)' /\ StoreBounded'
  BY <1>2, LoadInv, ReloadInv
<1>4. BatchTypes' /\ UNCHANGED <<currentBatch, todo, pc>> /\ UNCHANGED server /\ phase' = "loaded"
  BY <1>2, BatchTypesKept DEF Load, Reload
<1>5. Installing' = H
  BY <1>1, <1>4, InstallingKept
<1>6. \A t \in calls : result[t] # NoResult
  BY <1>2 DEF Load, Reload, DeployInv, ClientInv, NotRunning
<1>7. BatchRequests'
  BY <1>2, <1>4, <1>6, BatchKept
<1>8. \A t \in Txn : result'[t] = NoResult
  BY <1>3, <1>4 DEF DeployInv, ClientInv, NotRunning
<1>9. StoreHoldsLastCommit' /\ DeployInv(Installing)'
  BY <1>3, <1>5, <1>8, NothingCommitted
<1> QED
  BY <1>3, <1>4, <1>7, <1>9, StrongNext

LEMMA SynchroniseStep ==
    ASSUME Strong, Synchronise PROVE Strong'
<1>1. PICK H : H = Installing
  OBVIOUS
<1>2. Types /\ StoreBounded /\ DeployInv(H) /\ BatchTypes /\ BatchRequests /\ Sync
  BY <1>1, StrongParts DEF Synchronise
<1>3. Types' /\ DeployInv(H)' /\ StoreBounded'
  BY <1>2, SyncInv
<1>4. BatchTypes' /\ UNCHANGED <<currentBatch, todo, pc>> /\ UNCHANGED server
  BY <1>2, BatchTypesKept DEF Synchronise, Sync
<1>5. Installing' = H
  BY <1>1, <1>4, InstallingKept
<1>6. calls = {} /\ \A t \in Txn : result'[t] = NoResult
  BY <1>2 DEF Sync, SyncFromStorage, execVars, certVars, DeployInv, ClientInv, NotRunning
<1>7. BatchRequests'
  BY <1>2, <1>4, <1>6, BatchKept
<1>8. StoreHoldsLastCommit' /\ DeployInv(Installing)'
  BY <1>3, <1>5, <1>6, NothingCommitted
<1> QED
  BY <1>3, <1>4, <1>7, <1>8, StrongNext

LEMMA BeginStep ==
    ASSUME Strong, StartTxn, UNCHANGED epochVars PROVE Strong'
<1>0. UNCHANGED <<readSet, writeSet, observed, data, latestVersion, commitSeq, result,
                  late, strays, faults, installed, calls, phase, server>>
  BY DEF StartTxn, Begin, Local, certVars, remoteVars, deployVars
<1>1. PICK H : H = Installing
  OBVIOUS
<1>2. Types /\ StoreBounded /\ DeployInv(H) /\ BatchTypes /\ BatchRequests
  BY <1>1, StrongParts
<1>3. Types' /\ DeployInv(H)'
  BY <1>2, BeginInv
<1>4. BatchTypes' /\ UNCHANGED <<currentBatch, todo, pc>>
  BY <1>2, BatchTypesKept
<1>5. Installing' = H
  BY <1>0, <1>1, <1>4, InstallingKept
<1>6. BatchRequests'
  BY <1>0, <1>2, <1>4, BatchKept
<1>7. Without(KeptFailures)' => StoreHoldsLastCommit'
  BY <1>0, StrongParts, NoNewCommit DEF Without, Happened
<1>8. DeployInv(Installing)' /\ StoreBounded'
  BY <1>0, <1>2, <1>3, <1>5 DEF StoreBounded
<1> QED
  BY <1>3, <1>4, <1>6, <1>7, <1>8, StrongNext

\* What a step of the client keeps of the requests that have been sent.
LEMMA ClientOpSent ==
    ASSUME Types, NEW H \in SUBSET Txn, DeployInv(H), Without(KeptFailures) => StoreHoldsLastCommit,
           NEW t \in Txn, ClientOp(t), ClientFrame(t)
    PROVE  /\ \A u \in calls : u \in calls' /\ UNCHANGED <<result[u], readSet[u], writeSet[u]>>
           /\ Without(KeptFailures)' => StoreHoldsLastCommit'
           /\ UNCHANGED server
<1>0. /\ UNCHANGED <<data, result, server>> /\ FaultsGrow /\ RemoteTypeOK
      /\ calls \subseteq Txn /\ calls \subseteq calls'
  BY DEF ClientFrame, certVars, Types, DeployTypeOK
<1>1. \A u \in Txn : u \in calls \/ result[u] # NoResult => UNCHANGED <<readSet[u], writeSet[u]>>
  BY ClientOpFacts DEF DeployInv, ClientInv, SentNotActive
<1>2. \A u \in Txn : IsCommitted(u)' => result[u] # NoResult
  BY <1>0 DEF IsCommitted, NoResult
<1>3. StoreTypeOK' /\ CertTypeOK'
  BY ClientOpInv DEF Types, DeployTypeOK
<1>4. Without(KeptFailures)' => StoreHoldsLastCommit'
  BY <1>0, <1>1, <1>2, <1>3, WithoutBefore, CommitsKept
<1> QED
  BY <1>0, <1>1, <1>4

LEMMA ClientOpStep ==
    ASSUME Strong, NEW t \in Txn, ClientOp(t), ClientFrame(t), UNCHANGED epochVars
    PROVE  Strong'
<1>1. PICK H : H = Installing
  OBVIOUS
<1>2. /\ Types /\ StoreBounded /\ DeployInv(H) /\ BatchTypes /\ BatchRequests
      /\ H \in SUBSET Txn
  BY <1>1, StrongParts, InstallingFacts
<1>3. Types' /\ DeployInv(H)'
  BY <1>2, ClientOpInv
<1>4. BatchTypes' /\ UNCHANGED <<currentBatch, todo, pc>>
  BY <1>2, BatchTypesKept
<1>5. /\ \A u \in calls : u \in calls' /\ UNCHANGED <<result[u], readSet[u], writeSet[u]>>
      /\ Without(KeptFailures)' => StoreHoldsLastCommit'
      /\ UNCHANGED server
  BY <1>2, StrongParts, ClientOpSent
<1>6. Installing' = H
  BY <1>1, <1>4, <1>5, InstallingKept
<1>7. BatchRequests'
  BY <1>2, <1>4, <1>5, BatchKept
<1>8. DeployInv(Installing)' /\ StoreBounded'
  BY <1>2, <1>3, <1>6 DEF ClientFrame, StoreBounded
<1> QED
  BY <1>3, <1>4, <1>5, <1>7, <1>8, StrongNext

\* SubmitCommit's request enters the batch, of a transaction that is not in it.
LEMMA EnqueueStep ==
    ASSUME Strong, NEW t \in Txn, Enqueue(t) PROVE Strong'
<1>0. /\ currentBatch' = currentBatch \cup {Request(t)} /\ calls' = calls \cup {t}
      /\ UNCHANGED <<batch, todo, claimedKeys, startVersion, pc, draining, stopping>>
      /\ UNCHANGED <<readSet, writeSet, server, result, data>>
      /\ server # "down" /\ state[t] = "active" /\ Submit(t)
  BY DEF Enqueue, SubmitCommit, runVars, Submit, Commit, Active, Accepting, certVars
<1>1. PICK H : H = Installing
  OBVIOUS
<1>2. /\ Types /\ StoreBounded /\ DeployInv(H) /\ BatchTypes /\ BatchRequests
      /\ H \in SUBSET Txn
  BY <1>1, StrongParts, InstallingFacts
<1>3. ClientOp(t) /\ ClientFrame(t)
  BY <1>0, <1>2, SubmitCases
<1>4. Types' /\ DeployInv(H)' /\ (Without(KeptFailures)' => StoreHoldsLastCommit')
  BY <1>2, <1>3, StrongParts, ClientOpInv, ClientOpSent
<1>5. Request(t) \in TxnRequest
  BY <1>2 DEF Request, TxnRequest, Types, DeployTypeOK, ExecTypeOK
<1>6. BatchTypes'
  BY <1>0, <1>2, <1>5 DEF BatchTypes
<1>7. t \notin calls /\ result[t] = NoResult
  BY <1>0, <1>2 DEF DeployInv, ClientInv, SentNotActive
<1>8. BatchRequests'
  <2>1. \A u \in Txn : Request(u)' = Request(u)
    BY <1>0 DEF Request
  <2>2. \A req \in currentBatch \cup todo :
          /\ req.txnID \in Txn /\ req = Request(req.txnID)
          /\ req.txnID \in calls /\ result[req.txnID] = NoResult
    BY <1>0, <1>2 DEF BatchRequests, BatchTypes, TxnRequest
  <2>3. Request(t).txnID = t /\ Request(t) \notin todo
    BY <1>7, <2>2 DEF Request
  <2>4. \A req \in currentBatch' \cup todo' :
          req = Request(req.txnID)' /\ req.txnID \in calls' /\ result'[req.txnID] = NoResult
    BY <1>0, <1>7, <2>1, <2>2, <2>3
  <2>5. /\ \A req \in currentBatch' : req \notin todo'
        /\ pc' = "apply" => \E req \in todo' : IsNext(req)'
    BY <1>0, <1>2, <2>3 DEF BatchRequests, IsNext
  <2> QED
    BY <2>4, <2>5 DEF BatchRequests
<1>9. Installing' = H
  BY <1>0, <1>1, InstallingKept
<1>10. DeployInv(Installing)' /\ StoreBounded'
  BY <1>0, <1>2, <1>4, <1>9 DEF StoreBounded
<1> QED
  BY <1>4, <1>6, <1>8, <1>10, StrongNext

\* An epoch starts: the batch moves on as a whole.
LEMMA EpochStep ==
    ASSUME Strong, server # "down", Tick \/ StopCase,
           UNCHANGED <<execVars, remoteVars, deployVars>>
    PROVE  Strong'
<1>0. /\ pc = "select" /\ pc' # "apply" /\ pc' \in {"select", "certify", "done"}
      /\ batch' = currentBatch /\ todo' = currentBatch /\ currentBatch' = {}
      /\ claimedKeys' = [k \in Key |-> Unclaimed] /\ startVersion' = latestVersion
      /\ draining' \in BOOLEAN /\ stopping' = stopping
      /\ UNCHANGED <<data, latestVersion, commitSeq, result, late, strays, faults, installed>>
      /\ UNCHANGED <<idCounter, state, readSet, writeSet, observed, calls, phase, server>>
  BY DEF Tick, StopCase, ProcessEpoch, AfterEpoch, certVars, execVars, remoteVars, deployVars
<1>1. PICK H : H = {}
  OBVIOUS
<1>2. /\ Types /\ StoreBounded /\ DeployInv(H) /\ BatchTypes /\ BatchRequests
      /\ H \in SUBSET Txn /\ Installing' = H
  BY <1>0, <1>1, StrongParts, InstallingFacts DEF Installing
<1>3. Types'
  BY <1>0, <1>2
  DEF Types, DeployTypeOK, StoreTypeOK, ExecTypeOK, RemoteTypeOK, CertTypeOK
<1>4. FaultsGrow /\ (Synced' <=> Synced)
  BY <1>0, <1>2, UnchangedGrow DEF Synced, Accepting, Types, DeployTypeOK
<1>5. DeployInv(H)'
  BY <1>0, <1>1, <1>2, <1>3, <1>4, AnswerInv
<1>6. BatchTypes'
  BY <1>0, <1>2 DEF BatchTypes, Types, CertTypeOK
<1>7. BatchRequests'
  <2>1. \A req \in currentBatch :
          req = Request(req.txnID)' /\ req.txnID \in calls' /\ result'[req.txnID] = NoResult
    BY <1>0, <1>2 DEF BatchRequests, Request
  <2> QED
    BY <1>0, <2>1 DEF BatchRequests
<1>8. Without(KeptFailures)' => StoreHoldsLastCommit'
  BY <1>0, StrongParts, NoNewCommit DEF Without, Happened
<1>9. DeployInv(Installing)' /\ StoreBounded'
  BY <1>0, <1>2, <1>5 DEF StoreBounded
<1> QED
  BY <1>3, <1>6, <1>7, <1>8, <1>9, StrongNext

\* The loop has answered req and goes on.
LEMMA AnswerFacts ==
    ASSUME Types, BatchTypes, BatchRequests, server # "down",
           NEW req \in todo, NEW res \in TxnResult, Answer(req, res),
           UNCHANGED <<latestVersion, commitSeq, claimedKeys, readSet, writeSet, calls>>
    PROVE  /\ result' = [result EXCEPT ![req.txnID] = res]
           /\ result'[req.txnID] = res
           /\ \A u \in Txn \ {req.txnID} : result'[u] = result[u]
           /\ CertTypeOK' /\ BatchTypes' /\ BatchRequests' /\ Installing' = {}
           /\ req.txnID \in Txn
<1>0. /\ result' = [result EXCEPT ![req.txnID] = res] /\ todo' = todo \ {req}
      /\ pc' # "apply" /\ pc' \in {"select", "certify", "done"}
      /\ UNCHANGED <<currentBatch, batch, startVersion, draining, stopping>>
  BY DEF Answer, Return, AfterEpoch
<1>1. /\ req.txnID \in Txn /\ \A q \in currentBatch \cup todo : q.txnID \in Txn
      /\ result \in [Txn -> TxnResult]
  BY DEF BatchTypes, TxnRequest, Types, CertTypeOK
<1>2. result'[req.txnID] = res /\ \A u \in Txn \ {req.txnID} : result'[u] = result[u]
  BY <1>0, <1>1
<1>3. \A q \in currentBatch \cup todo' : result'[q.txnID] = result[q.txnID]
  BY <1>0, <1>1, <1>2, BatchDistinct
<1>4. BatchRequests'
  BY <1>0, <1>3, BatchAnswered
<1>5. CertTypeOK' /\ BatchTypes'
  BY <1>0, <1>1 DEF Types, CertTypeOK, BatchTypes
<1>6. Installing' = {}
  BY <1>0 DEF Installing
<1> QED
  BY <1>0, <1>1, <1>2, <1>4, <1>5, <1>6

\* A request that is turned down.
LEMMA TurnDownStep ==
    ASSUME Strong, server # "down", NEW req \in todo,
           CertifyTxnStale(req) \/ CertifyTxnConflict(req),
           UNCHANGED <<execVars, remoteVars, deployVars>>
    PROVE  Strong'
<1>0. /\ pc = "certify"
      /\ Answer(req, Aborted("stale")) \/ Answer(req, Aborted("conflict"))
      /\ UNCHANGED <<data, latestVersion, commitSeq, claimedKeys, late, strays, faults, installed>>
      /\ UNCHANGED <<idCounter, state, readSet, writeSet, observed, calls, phase, server>>
  BY DEF CertifyTxnStale, CertifyTxnConflict, execVars, remoteVars, deployVars
<1>1. PICK H : H = {}
  OBVIOUS
<1>2. /\ Types /\ StoreBounded /\ DeployInv(H) /\ BatchTypes /\ BatchRequests
      /\ H \in SUBSET Txn
  BY <1>0, <1>1, StrongParts, InstallingFacts
<1>3. PICK res \in TxnResult : Answer(req, res) /\ res.decision # "committed"
  <2>1. /\ Aborted("stale") \in TxnResult /\ Aborted("stale").decision # "committed"
        /\ Aborted("conflict") \in TxnResult /\ Aborted("conflict").decision # "committed"
    BY DEF Aborted, TxnResult, Decision
  <2> QED
    BY <1>0, <2>1
<1>4. /\ result'[req.txnID] = res /\ \A u \in Txn \ {req.txnID} : result'[u] = result[u]
      /\ CertTypeOK' /\ BatchTypes' /\ BatchRequests' /\ Installing' = H
  BY <1>0, <1>1, <1>2, <1>3, AnswerFacts
<1>5. Types'
  BY <1>0, <1>2, <1>4 DEF Types, DeployTypeOK, StoreTypeOK, ExecTypeOK, RemoteTypeOK
<1>6. FaultsGrow /\ (Synced' <=> Synced)
  BY <1>0, <1>2, UnchangedGrow DEF Synced, Accepting, Types, DeployTypeOK
<1>7. req.txnID \in calls /\ result[req.txnID] = NoResult
  BY <1>2, BatchDistinct
<1>8. DeployInv(H)'
  BY <1>0, <1>1, <1>2, <1>4, <1>5, <1>6, <1>7, AnswerInv
<1>9. \A u \in Txn : IsCommitted(u)' => result'[u] = result[u]
  BY <1>3, <1>4 DEF IsCommitted
<1>10. Without(KeptFailures)' => StoreHoldsLastCommit'
  BY <1>0, <1>9, StrongParts, NoNewCommit DEF Without, Happened
<1>11. DeployInv(Installing)' /\ StoreBounded'
  BY <1>0, <1>2, <1>4, <1>8 DEF StoreBounded
<1> QED
  BY <1>4, <1>5, <1>10, <1>11, StrongNext

LEMMA AssignStep ==
    ASSUME Strong, server # "down", NEW req \in todo, CertifyTxnAssign(req),
           UNCHANGED <<execVars, remoteVars, deployVars>>
    PROVE  Strong'
<1>0. /\ pc = "certify" /\ pc' = "apply" /\ IsNext(req) /\ ~ StaleRead(req)
      /\ commitSeq' = commitSeq + 1 /\ latestVersion' = Bumped(req, commitSeq + 1)
      /\ claimedKeys' = [k \in Key |-> IF k \in KeysOf(req.writeSet)
                                       THEN IdRank[req.txnID] ELSE claimedKeys[k]]
      /\ UNCHANGED <<currentBatch, batch, todo, startVersion, draining, stopping, result, data>>
      /\ UNCHANGED <<idCounter, state, readSet, writeSet, observed, calls, phase, server>>
      /\ UNCHANGED <<late, strays, faults, installed>>
  BY DEF CertifyTxnAssign, execVars, remoteVars, deployVars
<1>1. PICK H, G, t : H = {} /\ t = req.txnID /\ G = {t}
  OBVIOUS
<1>2. Types /\ StoreBounded /\ DeployInv(H) /\ BatchTypes /\ BatchRequests
  BY <1>0, <1>1, StrongParts, InstallingFacts
<1>3. t \in Txn /\ req = Request(t) /\ t \in calls /\ result[t] = NoResult
  BY <1>1, <1>2, BatchDistinct DEF BatchTypes, TxnRequest
<1>4. UNCHANGED <<data, execVars, result, remoteVars, deployVars>>
  BY <1>0
<1>5. Types' /\ DeployInv(G)'
  BY <1>0, <1>1, <1>2, <1>3, <1>4, AssignInv
<1>6. BatchTypes'
  BY <1>0, <1>1, <1>2, <1>3, IdRankAssumption DEF BatchTypes
<1>7. BatchRequests'
  <2>1. \A q \in currentBatch' \cup todo' :
          q = Request(q.txnID)' /\ q.txnID \in calls' /\ result'[q.txnID] = NoResult
    BY <1>0, <1>2 DEF BatchRequests, Request
  <2> QED
    BY <1>0, <1>2, <2>1 DEF BatchRequests, IsNext
<1>8. Installing' = G
  <2>1. \A q \in todo : IsNext(q)' <=> q = req
    BY <1>0, <1>2, NextUnique DEF IsNext, BatchTypes
  <2> QED
    BY <1>0, <1>1, <2>1 DEF Installing
<1>9. Without(KeptFailures)' => StoreHoldsLastCommit'
  BY <1>0, StrongParts, NoNewCommit DEF Without, Happened
<1>10. DeployInv(Installing)' /\ StoreBounded'
  BY <1>0, <1>2, <1>5, <1>8 DEF StoreBounded
<1> QED
  BY <1>5, <1>6, <1>7, <1>9, <1>10, StrongNext

\* The store executes the record of req, which is reported as committed.  The
\* number is fresh unless the certifier was not told what the store holds.
LEMMA ApplyStep ==
    ASSUME Strong, server # "down", NEW req \in todo, Apply(req),
           UNCHANGED <<execVars, deployVars>>
    PROVE  Strong'
<1>0. /\ pc = "apply" /\ IsNext(req) /\ Answer(req, Committed(commitSeq))
      /\ Install(CommitRecordOf(req, commitSeq))
      /\ UNCHANGED <<latestVersion, commitSeq, claimedKeys, late, strays, faults>>
      /\ UNCHANGED <<idCounter, state, readSet, writeSet, observed, calls, phase, server>>
  BY DEF Apply, CertifyTxnApply, execVars, deployVars
<1>1. PICK H, G, t : t = req.txnID /\ H = {t} /\ G = {}
  OBVIOUS
<1>2. Types /\ StoreBounded /\ DeployInv(H) /\ BatchTypes /\ BatchRequests
  BY <1>0, <1>1, StrongParts, InstallingFacts
<1>3. /\ t \in Txn /\ req = Request(t) /\ t \in calls /\ commitSeq \in Nat \ {0}
      /\ phase = "ready" /\ Synced
  BY <1>1, <1>2, BatchDistinct
  DEF BatchTypes, TxnRequest, Types, CertTypeOK, DeployInv, ClientInv, Unanswered, NotRunning,
      Synced
<1>4. PICK res \in TxnResult : /\ res = Committed(commitSeq) /\ res # NoResult
                               /\ res.commitSeq = commitSeq
  <2>1. /\ Committed(commitSeq) \in TxnResult /\ Committed(commitSeq) # NoResult
        /\ Committed(commitSeq).commitSeq = commitSeq
    BY <1>3 DEF Committed, TxnResult, Decision, NoResult
  <2> QED
    BY <2>1
<1>5. /\ result' = [result EXCEPT ![t] = res]
      /\ result'[t] = res /\ \A u \in Txn \ {t} : result'[u] = result[u]
      /\ BatchTypes' /\ BatchRequests' /\ Installing' = G
  BY <1>0, <1>1, <1>2, <1>4, AnswerFacts
<1>6. /\ Install(CommitRecordOf(Request(t), commitSeq))
      /\ UNCHANGED <<execVars, latestVersion, commitSeq, late, strays, faults, deployVars>>
  BY <1>0, <1>3 DEF execVars, deployVars
<1>7. Types' /\ DeployInv(G)'
  BY <1>1, <1>2, <1>3, <1>4, <1>5, <1>6, HandOverInv
<1>8. Without(KeptFailures)' => StoreHoldsLastCommit'
  <2>1. SUFFICES ASSUME Without(KeptFailures), StoreHoldsLastCommit PROVE StoreHoldsLastCommit'
    BY <1>0, StrongParts DEF Without, Happened
  <2>2. \A k \in Key : data[k].version < commitSeq
    BY <1>1, <1>2, <1>3, <2>1 DEF Without, KeptFailures, DeployInv, NumbersFresh
  <2>3. data' = Installed(t, commitSeq)
    BY <1>2, <1>3, <1>6, <2>2, InstallFacts, FreshRecordInstalled DEF Types, DeployTypeOK
  <2>4. \A k \in Key : data'[k] = data[k] \/ data[k].version < data'[k].version
    BY <1>2, <1>3, <1>6, InstallRaises
  <2>5. ASSUME NEW u \in Txn, NEW k \in Key, IsCommitted(u)', Writes(u, k)'
        PROVE  \/ result'[u] = result[u] /\ writeSet'[u] = writeSet[u]
               \/ data'[k] = [value   |-> LastWrite(writeSet'[u], k).value,
                              version |-> result'[u].commitSeq]
    BY <1>0, <1>4, <1>5, <2>3, <2>5 DEF Writes, Installed
  <2>6. StoreTypeOK' /\ CertTypeOK'
    BY <1>7 DEF Types, DeployTypeOK
  <2> QED
    BY <1>2, <2>1, <2>4, <2>5, <2>6, CommitsKept
<1>9. DeployInv(Installing)' /\ StoreBounded'
  BY <1>2, <1>3, <1>5, <1>6, <1>7, InstallBounded
<1> QED
  BY <1>5, <1>7, <1>8, <1>9, StrongNext

\* The certifier gives up the record of t, which was on its way to the store.
LEMMA AbandonFacts ==
    ASSUME Types, StoreTypeOK', ExecTypeOK', CertTypeOK', FaultsGrow,
           NEW t \in Txn, Abandon(CommitRecordOf(Request(t), commitSeq)),
           calls' \subseteq Txn, UNCHANGED phase, server' \in {"up", "stopping", "closing", "down"}
    PROVE  LateGrows(t) /\ UNCHANGED <<data, strays, installed>> /\ Types'
<1>1. LateGrows(t) /\ UNCHANGED <<data, strays, installed>> /\ commitSeq \in Nat
  BY DEF Abandon, LateGrows, Types, CertTypeOK
<1>2. CommitRecordOf(Request(t), commitSeq) \in CommitRecord
  BY <1>1, RecordType
<1>3. RemoteTypeOK'
  BY <1>1, <1>2 DEF Types, DeployTypeOK, RemoteTypeOK, LateGrows, FaultsGrow
<1> QED
  BY <1>1, <1>3 DEF Types, DeployTypeOK

\* The call fails and the commit is reported all the same.
LEMMA ApplyFailsStep ==
    ASSUME Strong, server # "down", NEW req \in todo, ApplyFails(req),
           UNCHANGED <<execVars, deployVars>>
    PROVE  Strong'
<1>0. /\ pc = "apply" /\ IsNext(req) /\ Answer(req, Committed(commitSeq))
      /\ Fails("apply") /\ Abandon(CommitRecordOf(req, commitSeq))
      /\ UNCHANGED <<latestVersion, commitSeq, claimedKeys>>
      /\ UNCHANGED <<idCounter, state, readSet, writeSet, observed, calls, phase, server>>
  BY DEF ApplyFails, ApplyCommitFails, execVars, deployVars
<1>1. PICK H, G, t : t = req.txnID /\ H = {t} /\ G = {}
  OBVIOUS
<1>2. /\ Types /\ StoreBounded /\ DeployInv(H) /\ BatchTypes /\ BatchRequests
      /\ RemoteTypeOK /\ calls \subseteq Txn
  BY <1>0, <1>1, StrongParts, InstallingFacts DEF Types, DeployTypeOK
<1>3. t \in Txn /\ req = Request(t) /\ t \in calls /\ result[t] = NoResult
  BY <1>1, <1>2, BatchDistinct DEF BatchTypes, TxnRequest
<1>4. Committed(commitSeq) \in TxnResult /\ Committed(commitSeq) # NoResult
  BY <1>2 DEF Committed, TxnResult, Decision, NoResult, Types, CertTypeOK
<1>5. /\ result'[t] # NoResult /\ \A u \in Txn \ {t} : result'[u] = result[u]
      /\ CertTypeOK' /\ BatchTypes' /\ BatchRequests' /\ Installing' = G
  BY <1>0, <1>1, <1>2, <1>4, AnswerFacts
<1>6. /\ FaultsGrow /\ (Synced' <=> Synced) /\ ExecTypeOK' /\ StoreTypeOK'
      /\ server' \in {"up", "stopping", "closing", "down"}
  BY <1>0, <1>2, FailsGrow
  DEF Synced, Accepting, Types, DeployTypeOK, ExecTypeOK, Abandon, StoreTypeOK
<1>7. LateGrows(t) /\ UNCHANGED <<data, strays, installed>> /\ Types'
  BY <1>0, <1>2, <1>3, <1>5, <1>6, AbandonFacts
<1>8. UNCHANGED execVars /\ H \in SUBSET Txn
  BY <1>0, <1>1, <1>3 DEF execVars
<1>9. DeployInv(G)'
  BY <1>0, <1>1, <1>2, <1>3, <1>5, <1>6, <1>7, <1>8, AnswerInv
<1>10. ~ Without(KeptFailures)'
  BY <1>0, <1>2, WithoutFailure DEF KeptFailures
<1>11. DeployInv(Installing)' /\ StoreBounded'
  BY <1>2, <1>5, <1>7, <1>9 DEF StoreBounded
<1> QED
  BY <1>5, <1>7, <1>10, <1>11, StrongNext

\* A panic: all that the epoch has not answered is aborted.
LEMMA PanicStep ==
    ASSUME Strong, server # "down", NEW req \in todo, ApplyPanics(req),
           UNCHANGED <<execVars, deployVars>>
    PROVE  Strong'
<1>0. /\ pc = "apply" /\ IsNext(req) /\ Fails("panic") /\ Abandon(CommitRecordOf(req, commitSeq))
      /\ result' = [t \in Txn |-> IF \E p \in todo : p.txnID = t
                                  THEN Aborted("error") ELSE result[t]]
      /\ todo' = {} /\ pc' # "apply" /\ pc' \in {"select", "done"}
      /\ UNCHANGED <<currentBatch, batch, startVersion, draining, stopping>>
      /\ UNCHANGED <<latestVersion, commitSeq, claimedKeys>>
      /\ UNCHANGED <<idCounter, state, readSet, writeSet, observed, calls, phase, server>>
  BY DEF ApplyPanics, EpochPanic, AfterEpoch, execVars, deployVars
<1>1. PICK H, G, t : t = req.txnID /\ H = {t} /\ G = {}
  OBVIOUS
<1>2. /\ Types /\ StoreBounded /\ DeployInv(H) /\ BatchTypes /\ BatchRequests
      /\ RemoteTypeOK /\ calls \subseteq Txn
  BY <1>0, <1>1, StrongParts, InstallingFacts DEF Types, DeployTypeOK
<1>3. t \in Txn /\ req = Request(t) /\ t \in calls
  BY <1>1, <1>2, BatchDistinct DEF BatchTypes, TxnRequest
<1>4. /\ Aborted("error") \in TxnResult /\ Aborted("error") # NoResult
      /\ Aborted("error").decision # "committed"
  BY DEF Aborted, TxnResult, Decision, NoResult
<1>5. /\ \A p \in todo : p.txnID \in Txn /\ p.txnID \in calls /\ result[p.txnID] = NoResult
      /\ \A p \in currentBatch : /\ p.txnID \in Txn
                                 /\ \A q \in todo : q.txnID # p.txnID
  BY <1>2, BatchDistinct DEF BatchTypes, TxnRequest
<1>6. /\ \A u \in Txn : result'[u] = result[u] \/ (u \in calls /\ result[u] = NoResult)
      /\ \A u \in Txn : result'[u] = result[u] \/ result'[u] = Aborted("error")
      /\ \A p \in currentBatch : result'[p.txnID] = result[p.txnID]
      /\ result'[t] # NoResult
  BY <1>0, <1>1, <1>3, <1>4, <1>5
<1>7. CertTypeOK'
  BY <1>0, <1>2, <1>4 DEF Types, CertTypeOK
<1>8. BatchTypes' /\ Installing' = G
  BY <1>0, <1>1, <1>2 DEF BatchTypes, Installing
<1>9. BatchRequests'
  BY <1>0, <1>2, <1>6, BatchAnswered
<1>10. /\ FaultsGrow /\ (Synced' <=> Synced) /\ ExecTypeOK' /\ StoreTypeOK'
       /\ server' \in {"up", "stopping", "closing", "down"}
  BY <1>0, <1>2, FailsGrow
  DEF Synced, Accepting, Types, DeployTypeOK, ExecTypeOK, Abandon, StoreTypeOK
<1>11. LateGrows(t) /\ UNCHANGED <<data, strays, installed>> /\ Types'
  BY <1>0, <1>2, <1>3, <1>7, <1>10, AbandonFacts
<1>12. UNCHANGED execVars /\ H \in SUBSET Txn
  BY <1>0, <1>1, <1>3 DEF execVars
<1>13. DeployInv(G)'
  BY <1>0, <1>1, <1>2, <1>6, <1>10, <1>11, <1>12, AnswerInv
<1>14. Without(KeptFailures)' => StoreHoldsLastCommit'
  <2>1. \A u \in Txn : IsCommitted(u)' => result'[u] = result[u]
    BY <1>4, <1>6 DEF IsCommitted
  <2> QED
    BY <1>0, <1>2, <1>10, <1>11, <2>1, StrongParts, WithoutBefore, NoNewCommit
<1>15. DeployInv(Installing)' /\ StoreBounded'
  BY <1>2, <1>8, <1>11, <1>13 DEF StoreBounded
<1> QED
  BY <1>8, <1>9, <1>11, <1>14, <1>15, StrongNext

\* The server moves towards its end, or nothing moves at all.
LEMMA ServerMoves ==
    ASSUME Strong, FaultsGrow, BatchTypes', UNCHANGED <<currentBatch, todo, pc>>,
           UNCHANGED <<data, execVars, certVars, late, strays, installed, calls, phase>>,
           server' \in {"up", "stopping", "closing", "down"},
           server = "down" => server' = "down",
           server' = "down" => \A t \in calls : result[t] # NoResult,
           Synced' => Synced
    PROVE  Strong'
<1>0. /\ UNCHANGED <<data, latestVersion, commitSeq, result, late, strays, installed, calls, phase>>
      /\ UNCHANGED <<idCounter, state, readSet, writeSet, observed>>
  BY DEF execVars, certVars
<1>1. PICK H : H = Installing
  OBVIOUS
<1>2. /\ Types /\ StoreBounded /\ DeployInv(H) /\ BatchTypes /\ BatchRequests
      /\ H \in SUBSET Txn /\ RemoteTypeOK
  BY <1>1, StrongParts, InstallingFacts DEF Types, DeployTypeOK
<1>3. Types'
  BY <1>0, <1>2
  DEF Types, DeployTypeOK, StoreTypeOK, ExecTypeOK, RemoteTypeOK, CertTypeOK, FaultsGrow
<1>4. \A t \in H : t \in calls /\ result[t] = NoResult
  BY <1>2 DEF DeployInv, ClientInv, Unanswered
<1>5. Installing' = H
  <2>1. CASE server' = "down"
    BY <1>1, <1>4, <2>1, <1>2 DEF Types, DeployTypeOK, Installing
  <2>2. CASE server' # "down"
    BY <1>1, <2>2, InstallingKept
  <2> QED
    BY <2>1, <2>2
<1>6. DeployInv(H)'
  BY <1>0, <1>2, <1>3, <1>4, AnswerInv
<1>7. BatchRequests'
  BY <1>0, <1>2, BatchKept
<1>8. Without(KeptFailures)' => StoreHoldsLastCommit'
  BY <1>0, <1>2, StrongParts, WithoutBefore, NoNewCommit
<1>9. DeployInv(Installing)' /\ StoreBounded'
  BY <1>0, <1>2, <1>5, <1>6 DEF StoreBounded
<1> QED
  BY <1>3, <1>7, <1>8, <1>9, StrongNext

LEMMA CrashStep ==
    ASSUME Strong, Crash PROVE Strong'
<1>0. /\ server # "down" /\ Fails("crash") /\ server' = "down" /\ calls' = {}
      /\ UNCHANGED <<data, latestVersion, commitSeq, result, strays, installed, phase>>
      /\ UNCHANGED <<idCounter, state, readSet, writeSet, observed>>
      /\ UNCHANGED epochVars
  BY DEF Crash, Die, Abandon, execVars, certVars
<1>1. PICK H, G : H = Installing /\ G = {}
  OBVIOUS
<1>2. /\ Types /\ StoreBounded /\ DeployInv(H) /\ BatchTypes /\ BatchRequests
      /\ H \in SUBSET Txn /\ RemoteTypeOK
  BY <1>1, StrongParts, InstallingFacts DEF Types, DeployTypeOK
<1>3. BatchTypes' /\ UNCHANGED <<currentBatch, todo, pc>>
  BY <1>0, <1>2, BatchTypesKept
<1>4. Installing' = G /\ BatchRequests'
  BY <1>0, <1>1 DEF Installing, BatchRequests
<1>5. /\ FaultsGrow /\ ~ Synced' /\ ExecTypeOK' /\ StoreTypeOK' /\ CertTypeOK' /\ calls' \subseteq Txn
      /\ server' \in {"up", "stopping", "closing", "down"}
  BY <1>0, <1>2, FailsGrow
  DEF Synced, Accepting, Types, DeployTypeOK, ExecTypeOK, StoreTypeOK, CertTypeOK
<1>6. Types' /\ (late' = late \/ \E t \in H : LateGrows(t))
  <2>1. CASE pc = "apply"
    <3>1. PICK req \in todo : IsNext(req) /\ Abandon(CommitRecordOf(req, commitSeq))
      BY <2>1 DEF Crash
    <3>2. PICK t \in Txn : t = req.txnID /\ H = {t} /\ req = Request(t)
      BY <1>0, <1>1, <1>2, <2>1, <3>1, InstallingFacts, BatchDistinct DEF BatchTypes, TxnRequest
    <3> QED
      BY <1>0, <1>2, <1>5, <3>1, <3>2, AbandonFacts
  <2>2. CASE pc # "apply"
    BY <1>0, <1>2, <1>5, <2>2 DEF Crash, Types, DeployTypeOK, RemoteTypeOK, FaultsGrow
  <2> QED
    BY <2>1, <2>2
<1>7. UNCHANGED execVars
  BY <1>0 DEF execVars
<1>8. DeployInv(G)'
  BY <1>0, <1>1, <1>2, <1>5, <1>6, <1>7, AnswerInv
<1>9. Without(KeptFailures)' => StoreHoldsLastCommit'
  BY <1>0, <1>2, <1>5, StrongParts, WithoutBefore, NoNewCommit
<1>10. DeployInv(Installing)' /\ StoreBounded'
  BY <1>0, <1>2, <1>4, <1>8 DEF StoreBounded
<1> QED
  BY <1>3, <1>4, <1>6, <1>9, <1>10, StrongNext

\* The store executes a late record.
LEMMA LateStep ==
    ASSUME Strong, NEW rec \in late, ApplyLate(rec), UNCHANGED deployVars, UNCHANGED epochVars
    PROVE  Strong'
<1>1. ApplyLate(rec) /\ UNCHANGED deployVars
  OBVIOUS
<1>2. PICK H : H = Installing
  OBVIOUS
<1>3. Types /\ StoreBounded /\ DeployInv(H) /\ BatchTypes /\ BatchRequests
  BY <1>2, StrongParts
<1>4. Types' /\ DeployInv(H)'
  BY <1>1, <1>3, ApplyLateInv
<1>5. PICK u \in Txn, n \in Nat \ {0} : rec = CommitRecordOf(Request(u), n)
  <2>1. rec.txnID \in Txn /\ rec.commitSeq \in Nat \ {0}
    BY <1>3 DEF Types, DeployTypeOK, RemoteTypeOK, CommitRecord, CertTypeOK,
                DeployInv, ClientInv, LateRecords
  <2> QED
    BY <1>3, <2>1 DEF DeployInv, ClientInv, LateRecords
<1>6. /\ Install(CommitRecordOf(Request(u), n))
      /\ UNCHANGED <<result, faults, server, calls, readSet, writeSet>>
  BY <1>1, <1>5 DEF ApplyLate, certVars, deployVars, execVars
<1>7. \A k \in Key : data'[k] = data[k] \/ data[k].version < data'[k].version
  BY <1>3, <1>6, InstallRaises
<1>8. Without(KeptFailures)' => StoreHoldsLastCommit'
  <2>1. StoreTypeOK' /\ CertTypeOK'
    BY <1>4 DEF Types, DeployTypeOK
  <2>2. Without(KeptFailures)' => StoreHoldsLastCommit
    BY <1>6, StrongParts DEF Without, Happened
  <2> QED
    BY <1>3, <1>6, <1>7, <2>1, <2>2, CommitsKept
<1>9. BatchTypes' /\ UNCHANGED <<currentBatch, todo, pc>>
  BY <1>3, BatchTypesKept
<1>10. BatchRequests' /\ Installing' = H
  BY <1>2, <1>3, <1>6, <1>9, BatchKept, InstallingKept
<1>11. DeployInv(Installing)' /\ StoreBounded'
  BY <1>3, <1>4, <1>6, <1>10, InstallBounded
<1> QED
  BY <1>4, <1>8, <1>9, <1>10, <1>11, StrongNext

\* The store executes a record of a certifier that is gone.
LEMMA StrayStep ==
    ASSUME Strong, NEW rec \in strays, ApplyStray(rec), UNCHANGED deployVars,
           UNCHANGED epochVars
    PROVE  Strong'
<1>0. /\ UNCHANGED <<readSet, writeSet, result, calls, server>>
      /\ ApplyStray(rec) /\ UNCHANGED deployVars
  BY DEF ApplyStray, execVars, certVars, deployVars
<1>1. PICK H : H = Installing
  OBVIOUS
<1>2. /\ Types /\ StoreBounded /\ DeployInv(H) /\ BatchTypes /\ BatchRequests
      /\ StrayRecords(H)
  BY <1>1, StrongParts DEF DeployInv, ClientInv
<1>3. Types' /\ DeployInv(H)' /\ StoreBounded'
  BY <1>2, ApplyStrayInv
<1>4. UNCHANGED <<data, installed, faults>> \/ Happened("stray")'
  BY <1>2, StrayFacts
<1>5. Without(KeptFailures)' => StoreHoldsLastCommit'
  <2>1. Happened("stray")' => ~ Without(KeptFailures)'
    BY DEF Without, KeptFailures, SyncFailures
  <2>2. UNCHANGED faults => (Without(KeptFailures)' <=> Without(KeptFailures))
    BY DEF Without, Happened
  <2> QED
    BY <1>0, <1>4, <2>1, <2>2, StrongParts, NoNewCommit
<1>6. BatchTypes' /\ UNCHANGED <<currentBatch, todo, pc>>
  BY <1>2, BatchTypesKept
<1>7. BatchRequests' /\ Installing' = H
  BY <1>0, <1>1, <1>2, <1>6, BatchKept, InstallingKept
<1>8. DeployInv(Installing)'
  BY <1>3, <1>7
<1> QED
  BY <1>3, <1>5, <1>6, <1>7, <1>8, StrongNext

\* A new certifier starts from the store, with an empty batch.
LEMMA BootStep ==
    ASSUME Strong, Boot PROVE Strong'
<1>0. /\ UNCHANGED <<data, result, writeSet>> /\ Restart
      /\ currentBatch' = {} /\ batch' = {} /\ todo' = {}
      /\ claimedKeys' = [k \in Key |-> Unclaimed] /\ startVersion' = latestVersion'
      /\ pc' = "select" /\ draining' = FALSE /\ stopping' = FALSE
  BY DEF Boot, Restart, execVars
<1>1. PICK H : H = Installing
  OBVIOUS
<1>2. Types /\ StoreBounded /\ DeployInv(H) /\ RemoteTypeOK
  BY <1>1, StrongParts DEF Types, DeployTypeOK
<1>3. H = {} /\ Types' /\ DeployInv(H)' /\ StoreBounded'
  BY <1>0, <1>2, RestartInv
<1>4. BatchTypes' /\ BatchRequests' /\ Installing' = H
  BY <1>0, <1>3 DEF BatchTypes, BatchRequests, Installing, Types, CertTypeOK
<1>5. FaultsGrow
  BY <1>0, <1>2, FailsGrow, UnchangedGrow DEF Restart, Dumped
<1>6. Without(KeptFailures)' => StoreHoldsLastCommit'
  BY <1>0, <1>2, <1>5, StrongParts, WithoutBefore, NoNewCommit
<1>7. DeployInv(Installing)'
  BY <1>3, <1>4
<1> QED
  BY <1>3, <1>4, <1>6, <1>7, StrongNext

LEMMA NextStrong ==
    ASSUME Strong, [RemoteNext]_vars PROVE Strong'
<1>0. Types /\ RemoteTypeOK /\ BatchTypes
  BY StrongParts DEF Types, DeployTypeOK
<1>1. CASE ClientStep /\ UNCHANGED epochVars
  BY <1>0, <1>1, ClientStepCases, LoadStep, BeginStep, ClientOpStep
<1>2. CASE server # "down" /\ Run
  BY <1>2, EpochStep, TurnDownStep, AssignStep, ApplyStep, ApplyFailsStep, PanicStep
  DEF Run, Certify
<1>3. CASE Signal
  <2>1. FaultsGrow /\ (Synced' => Synced) /\ BatchTypes' /\ UNCHANGED <<currentBatch, todo, pc>>
    BY <1>0, <1>3, FailsGrow DEF Signal, Stop, batchVars, BatchTypes, Synced, Accepting
  <2> QED
    BY <1>3, <2>1, ServerMoves DEF Signal, Stop
<1>4. CASE StopReturns
  <2>1. /\ FaultsGrow /\ (Synced' => Synced)
        /\ BatchTypes' /\ UNCHANGED <<currentBatch, todo, pc>>
    BY <1>0, <1>4, UnchangedGrow, BatchTypesKept
    DEF StopReturns, remoteVars, Synced, Accepting
  <2> QED
    BY <1>4, <2>1, ServerMoves DEF StopReturns, remoteVars
<1>5. CASE Exit /\ UNCHANGED epochVars
  <2>1. /\ FaultsGrow /\ (Synced' => Synced)
        /\ BatchTypes' /\ UNCHANGED <<currentBatch, todo, pc>>
    BY <1>0, <1>5, UnchangedGrow, BatchTypesKept
    DEF Exit, remoteVars, Synced, Accepting
  <2> QED
    BY <1>5, <2>1, ServerMoves DEF Exit, remoteVars
<1>6. CASE UNCHANGED vars
  <2>1. /\ UNCHANGED <<data, execVars, certVars, late, strays, faults, installed, calls, phase, server>>
        /\ UNCHANGED epochVars
    BY <1>6 DEF vars, remoteVars, deployVars
  <2>2. /\ FaultsGrow /\ (Synced' => Synced) /\ server \in {"up", "stopping", "closing", "down"}
        /\ BatchTypes' /\ UNCHANGED <<currentBatch, todo, pc>>
    BY <1>0, <2>1, UnchangedGrow, BatchTypesKept DEF Synced, Accepting, Types, DeployTypeOK
  <2>3. server = "down" => \A t \in calls : result[t] # NoResult
    BY StrongParts DEF DeployInv, ClientInv, Unanswered
  <2> QED
    BY <2>1, <2>2, <2>3, ServerMoves
<1>7. CASE StorageStep /\ UNCHANGED epochVars
  BY <1>7, LateStep, StrayStep DEF StorageStep
<1> QED
  BY <1>1, <1>2, <1>3, <1>4, <1>5, <1>6, <1>7, SynchroniseStep, EnqueueStep, CrashStep, BootStep
  DEF RemoteNext

-----------------------------------------------------------------------------
LEMMA StrongInvariant ==
    RemoteSpec => []Strong
BY InitStrong, NextStrong, PTL DEF RemoteSpec

\* The variables of the three processes and of the epochs have their types,
\* whatever fails and whenever ccaas-server is killed and started again.
THEOREM TypeCorrect ==
    RemoteSpec => []TypeOK
<1>1. Strong => TypeOK
  BY DEF Strong
<1> QED
  BY <1>1, StrongInvariant, PTL

\* The facts that the properties below rest on hold in every reachable state.
THEOREM InductiveInvariant ==
    RemoteSpec => []IInv
<1>1. Strong => IInv
  BY DEF Strong
<1> QED
  BY <1>1, StrongInvariant, PTL

(***************************************************************************)
(* A commit that the client was told of stays in the store, unless a call  *)
(* of ApplyCommit has failed, whose error certifyTxn drops, or the         *)
(* certifier has not learned of all that the store holds: its DumpState    *)
(* failed or a record arrived after it.  Panics, records that arrive       *)
(* before the next certifier starts, kills and restarts do not undo it.    *)
(***************************************************************************)
THEOREM ReportedCommitsKept ==
    RemoteSpec => []CommitKeptUnlessCallFails
<1>1. ASSUME Strong PROVE CommitKeptUnlessCallFails
  <2>1. SUFFICES ASSUME Without(KeptFailures) PROVE ReportedCommitInStore
    BY DEF CommitKeptUnlessCallFails, Without, KeptFailures
  <2>2. StoreHoldsLastCommit /\ ReportedAnswer
    BY <1>1, <2>1, StrongParts DEF DeployInv, ClientInv
  <2>3. \A t \in Txn, k \in Key : Writes(t, k) => writeSet[t] # << >>
    BY DEF Writes, KeysOf
  <2> QED
    BY <2>2, <2>3 DEF ReportedCommitInStore, StoreHoldsLastCommit, ReportedAnswer
<1> QED
  BY <1>1, StrongInvariant, PTL

(***************************************************************************)
(* The records that the store has applied are a serial history also when   *)
(* epochs certify them, whether their clients learned of it or not, unless *)
(* a certifier that started anew has missed a record.                      *)
(***************************************************************************)
THEOREM InstalledSerial ==
    RemoteSpec => []InstalledHistorySerial
<1>1. Strong => InstalledHistorySerial
  BY StrongParts, SerialHistory
<1> QED
  BY <1>1, StrongInvariant, PTL
=============================================================================

----------------------- MODULE RemoteImmediateProofs ------------------------
(***************************************************************************)
(* Proofs of the safety properties of RemoteImmediate: three processes,    *)
(* immediate certification, failing calls, late records, crashes and       *)
(* restarts.                                                               *)
(***************************************************************************)
EXTENDS RemoteImmediate, DeploymentLemmas

\* What is inductive: IInv, the types, and that the store's versions are bounded.
Strong == TypeOK /\ StoreBounded /\ IInv

LEMMA HolderFacts ==
    ASSUME mu \in {NoTxn} \cup Txn
    PROVE  /\ Holder \in SUBSET Txn
           /\ mu = NoTxn => Holder = {}
           /\ mu # NoTxn => mu \in Txn /\ Holder = {mu}
BY DEF Holder

LEMMA NoTxnIsNone ==
    NoTxn \notin Txn
BY MaxTxnsAssumption DEF NoTxn, Txn

-----------------------------------------------------------------------------
(***************************************************************************)
(* Aborts, as long as no call fails.                                       *)
(***************************************************************************)

\* An entry that changes was replaced by the record of u.
LEMMA InstallReplaced ==
    ASSUME Types, NEW H, DeployInv(H), ReplacedByInstalled, StaleByInstalled,
           NEW u \in Txn, NEW n \in Nat \ {0}, Install(CommitRecordOf(Request(u), n)),
           installed[u] = 0, UNCHANGED execVars,
           \A t \in Txn : result'[t].decision = "stale" => result'[t] = result[t]
    PROVE  ReplacedByInstalled' /\ StaleByInstalled'
<1>0. UNCHANGED <<readSet, writeSet>>
  BY DEF execVars
<1>1. /\ \A v \in Txn, k \in Key : Writes(v, k)' <=> Writes(v, k)
      /\ \A v \in Txn : installed[v] \in Nat
      /\ \A v \in Txn : \A r \in readSet[v] :
            r.key \in Key /\ r.versionSeen \in Nat /\ r.versionSeen <= data[r.key].version
  BY <1>0 DEF Writes, Types, DeployTypeOK, RemoteTypeOK, ExecTypeOK, ReadEntry,
              DeployInv, VersionInv, ReadsNotAhead
<1>2. \A v \in Txn : installed[v] # 0 => installed'[v] = installed[v]
  BY InstallFacts DEF Types, DeployTypeOK, RemoteTypeOK
<1>3. \A k \in Key : /\ data[k].version \in Nat
                     /\ data'[k] = data[k] \/ (Writes(u, k) /\ data'[k].version = installed'[u])
  BY InstallFacts, InstallRaises DEF Types, DeployTypeOK, RemoteTypeOK
<1>4. ReplacedByInstalled'
  <2>1. ASSUME NEW t \in Txn, NEW r \in readSet[t], r.versionSeen # data'[r.key].version
        PROVE  \E v \in Txn : Writes(v, r.key) /\ installed'[v] = data'[r.key].version
    <3>1. CASE data'[r.key] = data[r.key]
      <4>1. PICK v \in Txn : Writes(v, r.key) /\ installed[v] = data[r.key].version
        BY <2>1, <3>1 DEF ReplacedByInstalled
      <4>2. installed[v] # 0
        BY <1>1, <1>3, <2>1, <3>1, <4>1
      <4> QED
        BY <1>2, <3>1, <4>1, <4>2
    <3> QED
      BY <1>1, <1>3, <3>1
  <2> QED
    BY <1>0, <1>1, <2>1 DEF ReplacedByInstalled
<1>5. StaleByInstalled'
  <2>1. ASSUME NEW t \in Txn, result'[t].decision = "stale"
        PROVE  \E r \in readSet[t], v \in Txn \ {t} :
                 Writes(v, r.key) /\ installed'[v] > r.versionSeen
    <3>1. PICK r \in readSet[t], v \in Txn \ {t} :
            Writes(v, r.key) /\ installed[v] > r.versionSeen
      BY <2>1 DEF StaleByInstalled
    <3>2. installed[v] # 0
      BY <1>1, <3>1
    <3> QED
      BY <1>2, <3>1, <3>2
  <2> QED
    BY <1>0, <1>1, <2>1 DEF StaleByInstalled
<1> QED
  BY <1>4, <1>5

LEMMA ClientOpAbort ==
    ASSUME Types, NEW H, DeployInv(H), H = Holder, AbortInv, UNCHANGED mu,
           NEW t \in Txn, ClientOp(t), ClientFrame(t), ~ Fails("get")
    PROVE  AbortInv'
<1>0. UNCHANGED <<data, latestVersion, commitSeq, result, late, installed, phase, server>>
  BY DEF ClientFrame, certVars
<1>1. \A u \in Txn : u \in H \/ result[u] # NoResult \/ installed[u] # 0 =>
        UNCHANGED <<readSet[u], writeSet[u]>>
  <2>1. SentNotActive(H) /\ Unanswered(H)
    BY DEF DeployInv, ClientInv
  <2>2. \A u \in Txn : u \in H => u \in calls
    BY <2>1 DEF Unanswered
  <2>3. \A u \in Txn : u \in H \/ result[u] # NoResult \/ installed[u] # 0 =>
          state[u] \notin {"unborn", "active"}
    BY <2>1, <2>2, NumbersIn DEF SentNotActive
  <2> QED
    BY <2>3, ClientOpFacts
<1>2. /\ \A u \in Txn : installed[u] \in Nat
      /\ \A v \in Txn : \A r \in readSet[v] :
            r.versionSeen \in Nat /\ r.versionSeen <= data[r.key].version
  BY DEF Types, DeployTypeOK, RemoteTypeOK, ExecTypeOK, ReadEntry,
         DeployInv, VersionInv, ReadsNotAhead
<1>3. MapAgrees'
  <2>1. Synced' => Synced
    BY <1>0 DEF Synced, ClientFrame, Accepting
  <2>2. Holder' = Holder /\ \A u \in Holder : u \in Txn
    BY DEF Holder, DeployInv, ClientInv, Unanswered, Types, DeployTypeOK
  <2> QED
    BY <1>0, <1>1, <2>1, <2>2 DEF AbortInv, MapAgrees, Writes
<1>4. ReplacedByInstalled'
  <2>1. ASSUME NEW v \in Txn, NEW r \in readSet'[v], r.versionSeen # data[r.key].version
        PROVE  \E u \in Txn : Writes(u, r.key)' /\ installed[u] = data[r.key].version
    <3>1. r \in readSet[v]
      BY <2>1, ClientOpFacts, ClientOpReads
    <3>2. PICK u \in Txn : Writes(u, r.key) /\ installed[u] = data[r.key].version
      BY <2>1, <3>1 DEF AbortInv, ReplacedByInstalled
    <3>3. installed[u] # 0
      BY <1>2, <2>1, <3>1, <3>2
    <3> QED
      BY <1>1, <3>2, <3>3 DEF Writes
  <2> QED
    BY <1>0, <2>1 DEF ReplacedByInstalled
<1>5. StaleByInstalled'
  <2>1. ASSUME NEW v \in Txn, result[v].decision = "stale"
        PROVE  \E r \in readSet'[v], u \in Txn \ {v} :
                 Writes(u, r.key)' /\ installed[u] > r.versionSeen
    <3>1. PICK r \in readSet[v], u \in Txn \ {v} :
            Writes(u, r.key) /\ installed[u] > r.versionSeen
      BY <2>1 DEF AbortInv, StaleByInstalled
    <3>2. installed[u] # 0 /\ result[v] # NoResult
      BY <1>2, <2>1, <3>1 DEF NoResult
    <3> QED
      BY <1>1, <3>1, <3>2 DEF Writes
  <2> QED
    BY <1>0, <2>1 DEF StaleByInstalled
<1> QED
  BY <1>3, <1>4, <1>5 DEF AbortInv

\* A history without transactions.
LEMMA NothingRunsFacts ==
    ASSUME \A t \in Txn : readSet'[t] = {} /\ result'[t] = NoResult
    PROVE  StoreHoldsLastCommit' /\ ReplacedByInstalled' /\ StaleByInstalled'
<1>1. \A t \in Txn : readSet'[t] = {} /\ result'[t].decision = "none"
  BY DEF NoResult
<1> QED
  BY <1>1 DEF StoreHoldsLastCommit, IsCommitted, ReplacedByInstalled, StaleByInstalled

\* The versions and the records that AbortInv speaks of have not moved.
LEMMA AbortKept ==
    ASSUME AbortInv, MapAgrees',
           UNCHANGED <<data, readSet, writeSet, installed>>,
           \A t \in Txn : result'[t].decision = "stale" => result'[t] = result[t]
    PROVE  AbortInv'
BY DEF AbortInv, ReplacedByInstalled, StaleByInstalled, Writes

-----------------------------------------------------------------------------
(***************************************************************************)
(* Every step preserves what is inductive.                                 *)
(***************************************************************************)
LEMMA StrongParts ==
    Strong <=> /\ Types /\ mu \in {NoTxn} \cup Txn /\ StoreBounded
               /\ DeployInv(Holder) /\ StoreHoldsLastCommit
               /\ (Without(CallFailures) => AbortInv)
BY DEF Strong, TypeOK, ImmTypeOK, Types, IInv

LEMMA StrongNext ==
    ASSUME Types', mu' \in {NoTxn} \cup Txn, StoreBounded', DeployInv(Holder)',
           StoreHoldsLastCommit', Without(CallFailures)' => AbortInv'
    PROVE  Strong'
BY DEF Strong, TypeOK, ImmTypeOK, Types, IInv

LEMMA InitStrong ==
    ASSUME RemoteInit PROVE Strong
<1>1. mu = NoTxn /\ Holder = {}
  BY DEF RemoteInit, NewImmediateCertifier, Holder
<1>2. Types /\ DeployInv(Holder) /\ StoreBounded
  BY <1>1, InitInv DEF RemoteInit, NewImmediateCertifier
<1>3. NothingRuns /\ ~ Synced
  BY DEF RemoteInit, DeployInit, NewEngine, NewRemoteStore, NewImmediateCertifier, NewCertifier,
         NothingRuns, Synced
<1>4. AbortInv /\ StoreHoldsLastCommit
  <2>1. \A t \in Txn : readSet[t] = {} /\ result[t].decision = "none"
    BY <1>3 DEF NothingRuns, NoResult
  <2> QED
    BY <1>3, <2>1 DEF AbortInv, MapAgrees, StoreHoldsLastCommit, IsCommitted,
                      ReplacedByInstalled, StaleByInstalled
<1> QED
  BY <1>1, <1>2, <1>4, StrongParts

LEMMA LoadStep ==
    ASSUME Strong, UNCHANGED mu, NEW keys \in SUBSET Key, NEW initial \in [keys -> Value],
           Load(initial) \/ Reload(initial)
    PROVE  Strong'
<1>1. PICK H : H = Holder
  OBVIOUS
<1>2. Types /\ StoreBounded /\ DeployInv(H) /\ mu \in {NoTxn} \cup Txn
  BY <1>1, StrongParts
<1>3. Types' /\ DeployInv(H)' /\ StoreBounded'
  BY <1>2, LoadInv, ReloadInv
<1>4. phase' = "loaded" /\ Holder' = H
  BY <1>1 DEF Load, Reload, Holder
<1>5. ~ Synced' /\ \A t \in Txn : readSet'[t] = {} /\ result'[t] = NoResult
  BY <1>3, <1>4 DEF DeployInv, ClientInv, NotRunning, Synced
<1>6. StoreHoldsLastCommit' /\ ReplacedByInstalled' /\ StaleByInstalled'
  BY <1>5, NothingRunsFacts
<1>7. AbortInv'
  BY <1>5, <1>6 DEF AbortInv, MapAgrees
<1>8. DeployInv(Holder)'
  BY <1>3, <1>4
<1> QED
  BY <1>2, <1>3, <1>6, <1>7, <1>8, StrongNext

LEMMA SynchroniseStep ==
    ASSUME Strong, Synchronise PROVE Strong'
<1>1. PICK H : H = Holder
  OBVIOUS
<1>2. Types /\ StoreBounded /\ DeployInv(H) /\ mu \in {NoTxn} \cup Txn /\ Sync /\ mu' = mu
  BY <1>1, StrongParts DEF Synchronise
<1>3. H = {} /\ Types' /\ DeployInv(H)' /\ StoreBounded'
  BY <1>2, SyncInv
<1>4. Holder' = H
  BY <1>1, <1>2 DEF Holder
<1>5. calls' = {} /\ late' = {} /\ \A t \in Txn : readSet'[t] = {} /\ result'[t] = NoResult
  BY <1>2 DEF Sync, SyncFromStorage, execVars, certVars, DeployInv, ClientInv, NotRunning
<1>6. StoreHoldsLastCommit' /\ ReplacedByInstalled' /\ StaleByInstalled'
  BY <1>5, NothingRunsFacts
<1>7. ASSUME Without(CallFailures)', Synced'
      PROVE  \A k \in Key : latestVersion'[k] = data'[k].version
  <2>1. Accepting /\ data' = data /\ RemoteTypeOK
    BY <1>2, <1>5, <1>7 DEF Synced, Sync, Accepting, Types, DeployTypeOK
  <2>2. ~ Fails("sync") /\ ~ Fails("dump")
    BY <1>7, <2>1, WithoutFailure DEF CallFailures
  <2>3. latestVersion' = VersionsIn(data)
    BY <1>2, <2>1, <2>2 DEF Sync, Dumped, SyncFromStorage, DumpState
  <2> QED
    BY <2>1, <2>3 DEF VersionsIn
<1>8. Without(CallFailures)' => AbortInv'
  BY <1>5, <1>6, <1>7 DEF AbortInv, MapAgrees
<1>9. DeployInv(Holder)'
  BY <1>3, <1>4
<1> QED
  BY <1>2, <1>3, <1>6, <1>8, <1>9, StrongNext

LEMMA BeginStep ==
    ASSUME Strong, StartTxn, UNCHANGED mu PROVE Strong'
<1>0. UNCHANGED <<readSet, writeSet, observed, data, latestVersion, commitSeq, result,
                  late, faults, installed, calls, phase, server>>
  BY DEF StartTxn, Begin, Local, certVars, remoteVars, deployVars
<1>1. PICK H : H = Holder
  OBVIOUS
<1>2. Types /\ StoreBounded /\ DeployInv(H) /\ mu \in {NoTxn} \cup Txn
  BY <1>1, StrongParts
<1>3. Types' /\ DeployInv(H)' /\ Holder' = H
  BY <1>1, <1>2, BeginInv DEF Holder
<1>4. StoreHoldsLastCommit' /\ StoreBounded'
  BY <1>0, StrongParts DEF StoreHoldsLastCommit, StoreBounded, IsCommitted, Writes
<1>5. Without(CallFailures)' => AbortInv'
  <2>1. SUFFICES ASSUME AbortInv PROVE AbortInv'
    BY <1>0, StrongParts DEF Without, Happened
  <2>2. MapAgrees'
    BY <1>0, <1>1, <1>3, <2>1 DEF AbortInv, MapAgrees, Synced, Accepting, Writes
  <2> QED
    BY <1>0, <2>1, <2>2, AbortKept
<1>6. DeployInv(Holder)'
  BY <1>3
<1> QED
  BY <1>2, <1>3, <1>4, <1>5, <1>6, StrongNext

LEMMA ClientOpStep ==
    ASSUME Strong, NEW t \in Txn, ClientOp(t), ClientFrame(t), UNCHANGED mu PROVE Strong'
<1>0. UNCHANGED <<data, latestVersion, commitSeq, result, late, installed, phase, server>>
  BY DEF ClientFrame, certVars
<1>1. PICK H : H = Holder
  OBVIOUS
<1>2. /\ Types /\ StoreBounded /\ DeployInv(H) /\ mu \in {NoTxn} \cup Txn
      /\ H \in SUBSET Txn /\ RemoteTypeOK /\ FaultsGrow
  BY <1>1, StrongParts, HolderFacts DEF Types, DeployTypeOK, ClientFrame
<1>3. Types' /\ DeployInv(H)' /\ Holder' = H
  BY <1>1, <1>2, ClientOpInv DEF Holder
<1>4. StoreHoldsLastCommit'
  <2>1. \A u \in Txn : result[u] # NoResult => writeSet'[u] = writeSet[u]
    BY <1>2, ClientOpFacts DEF DeployInv, ClientInv, SentNotActive
  <2>2. \A u \in Txn : IsCommitted(u)' => result[u] # NoResult
    BY <1>0 DEF IsCommitted, NoResult
  <2>3. StoreTypeOK' /\ CertTypeOK' /\ StoreHoldsLastCommit
    BY <1>3, StrongParts DEF Types, DeployTypeOK
  <2> QED
    BY <1>0, <1>2, <2>1, <2>2, <2>3, CommitsKept
<1>5. Without(CallFailures)' => AbortInv'
  <2>1. SUFFICES ASSUME Without(CallFailures)' PROVE AbortInv'
    OBVIOUS
  <2>2. AbortInv /\ ~ Fails("get")
    BY <1>2, <2>1, StrongParts, WithoutBefore, WithoutFailure DEF CallFailures
  <2> QED
    BY <1>1, <1>2, <2>2, ClientOpAbort
<1>6. DeployInv(Holder)' /\ StoreBounded'
  BY <1>0, <1>2, <1>3 DEF StoreBounded
<1> QED
  BY <1>2, <1>3, <1>4, <1>5, <1>6, StrongNext

\* Validation: a read is stale because a record has replaced what was read.
LEMMA StaleStep ==
    ASSUME Strong, NEW t \in Txn, t \in calls, result[t] = NoResult,
           SubmitCommitStale(Request(t)), UNCHANGED <<execVars, remoteVars, deployVars>>
    PROVE  Strong'
<1>0. /\ mu = NoTxn /\ mu' = mu /\ result' = [result EXCEPT ![t] = Aborted("stale")]
      /\ UNCHANGED <<data, latestVersion, commitSeq, late, strays, faults, installed, calls, phase, server>>
      /\ UNCHANGED <<idCounter, state, readSet, writeSet, observed>>
  BY DEF SubmitCommitStale, Return, Request, execVars, remoteVars, deployVars
<1>1. PICK H : H = {}
  OBVIOUS
<1>2. /\ Types /\ StoreBounded /\ DeployInv(H) /\ Holder = H /\ Holder' = H
      /\ H \in SUBSET Txn /\ RemoteTypeOK /\ FaultsGrow
  BY <1>0, <1>1, StrongParts, HolderFacts, UnchangedGrow DEF Types, DeployTypeOK, Holder
<1>3. Types'
  <2>1. CertTypeOK'
    BY <1>0, <1>2 DEF Types, CertTypeOK, Aborted, TxnResult, Decision
  <2> QED
    BY <1>0, <1>2, <2>1
    DEF Types, DeployTypeOK, StoreTypeOK, ExecTypeOK, RemoteTypeOK, CommitRecord
<1>4. /\ result'[t].decision = "stale"
      /\ \A u \in Txn \ {t} : result'[u] = result[u]
  BY <1>0, <1>2 DEF Types, CertTypeOK, Aborted
<1>5. /\ phase = "ready" /\ Synced /\ (Synced' <=> Synced) /\ installed[t] = 0 /\ server # "down"
  BY <1>0, <1>2 DEF DeployInv, ClientInv, NotRunning, Unanswered, Synced, Accepting
<1>6. DeployInv(H)'
  BY <1>0, <1>1, <1>2, <1>3, <1>4, <1>5, AnswerInv
<1>7. StoreHoldsLastCommit'
  BY <1>0, <1>4, StrongParts DEF StoreHoldsLastCommit, IsCommitted, Writes
<1>8. Without(CallFailures)' => AbortInv'
  <2>1. SUFFICES ASSUME AbortInv PROVE AbortInv'
    BY <1>0, StrongParts DEF Without, Happened
  <2>2. MapAgrees' /\ ReplacedByInstalled'
    BY <1>0, <1>2, <1>5, <2>1 DEF AbortInv, MapAgrees, ReplacedByInstalled, Writes
  <2>3. PICK r \in readSet[t] : latestVersion[r.key] # r.versionSeen
    BY DEF SubmitCommitStale, StaleRead, Request
  <2>4. /\ r.key \in Key /\ r.versionSeen \in Nat /\ data[r.key].version \in Nat
        /\ r.versionSeen <= data[r.key].version
    BY <1>2 DEF Types, DeployTypeOK, StoreTypeOK, ReadResult, ExecTypeOK, ReadEntry,
                DeployInv, VersionInv, ReadsNotAhead
  <2>5. latestVersion[r.key] = data[r.key].version
    BY <1>1, <1>2, <1>5, <2>1, <2>4 DEF AbortInv, MapAgrees
  <2>6. PICK u \in Txn : Writes(u, r.key) /\ installed[u] = data[r.key].version
    BY <2>1, <2>3, <2>4, <2>5 DEF AbortInv, ReplacedByInstalled
  <2>7. u # t /\ installed[u] > r.versionSeen
    BY <1>5, <2>3, <2>4, <2>5, <2>6
  <2>8. StaleByInstalled'
    BY <1>0, <1>4, <2>1, <2>6, <2>7 DEF AbortInv, StaleByInstalled, Writes
  <2> QED
    BY <2>2, <2>8 DEF AbortInv
<1>9. DeployInv(Holder)' /\ StoreBounded' /\ mu' \in {NoTxn} \cup Txn
  BY <1>0, <1>2, <1>6 DEF StoreBounded
<1> QED
  BY <1>3, <1>7, <1>8, <1>9, StrongNext

LEMMA AssignStep ==
    ASSUME Strong, NEW t \in Txn, t \in calls, result[t] = NoResult,
           SubmitCommitAssign(Request(t)), UNCHANGED <<execVars, remoteVars, deployVars>>
    PROVE  Strong'
<1>0. /\ mu = NoTxn /\ mu' = t /\ ~ StaleRead(Request(t)) /\ commitSeq' = commitSeq + 1
      /\ latestVersion' = Bumped(Request(t), commitSeq + 1)
      /\ UNCHANGED <<data, result, late, strays, faults, installed, calls, phase, server>>
      /\ UNCHANGED <<idCounter, state, readSet, writeSet, observed>>
  BY DEF SubmitCommitAssign, Request, execVars, remoteVars, deployVars
<1>1. PICK H, G : H = {} /\ G = {t}
  OBVIOUS
<1>2. /\ Types /\ StoreBounded /\ DeployInv(H) /\ Holder = H /\ Holder' = G
  BY <1>0, <1>1, StrongParts, NoTxnIsNone DEF Holder
<1>3. UNCHANGED <<data, execVars, result, remoteVars, deployVars>>
  BY <1>0
<1>4. Types' /\ DeployInv(G)'
  BY <1>0, <1>1, <1>2, <1>3, AssignInv
<1>5. StoreHoldsLastCommit'
  BY <1>0, StrongParts DEF StoreHoldsLastCommit, IsCommitted, Writes
<1>6. Without(CallFailures)' => AbortInv'
  <2>1. SUFFICES ASSUME AbortInv PROVE AbortInv'
    BY <1>0, StrongParts DEF Without, Happened
  <2>2. \A k \in Key : ~ Writes(t, k) => latestVersion'[k] = latestVersion[k]
    BY <1>0 DEF Bumped, Request, Writes
  <2>3. MapAgrees'
    BY <1>0, <1>1, <1>2, <2>1, <2>2 DEF AbortInv, MapAgrees, Synced, Accepting, Writes
  <2> QED
    BY <1>0, <2>1, <2>3, AbortKept
<1>7. DeployInv(Holder)' /\ StoreBounded' /\ mu' \in {NoTxn} \cup Txn
  BY <1>0, <1>2, <1>4 DEF StoreBounded
<1> QED
  BY <1>4, <1>5, <1>6, <1>7, StrongNext

\* The store applies the record or turns it down, and SubmitCommit returns.
LEMMA ApplyStep ==
    ASSUME Strong, NEW t \in Txn, Apply(t) PROVE Strong'
<1> DEFINE writes == Record(Request(t), commitSeq)
           res == IF Rejected(writes) THEN Aborted("error") ELSE Committed(commitSeq)
<1>0. /\ mu = t /\ mu' = NoTxn /\ result' = [result EXCEPT ![t] = res]
      /\ Install(CommitRecordOf(Request(t), commitSeq))
      /\ UNCHANGED <<latestVersion, commitSeq, late, strays, faults, calls, phase, server>>
      /\ UNCHANGED <<idCounter, state, readSet, writeSet, observed>>
  BY DEF Apply, SubmitCommitApply, Return, Request, execVars, deployVars
<1>1. PICK H, G : H = {t} /\ G = {}
  OBVIOUS
<1>2. /\ Types /\ StoreBounded /\ DeployInv(H) /\ Holder = H /\ Holder' = G
  BY <1>0, <1>1, StrongParts, NoTxnIsNone DEF Holder
<1>3. /\ commitSeq \in Nat \ {0} /\ installed[t] = 0 /\ t \in calls
      /\ \A k \in Key : Writes(t, k) => latestVersion[k] = commitSeq
      /\ phase = "ready" /\ Synced
  BY <1>1, <1>2
  DEF Types, CertTypeOK, DeployInv, ClientInv, Unanswered, NotRunning, Synced
<1>4. /\ res \in TxnResult /\ res # NoResult /\ res.decision # "stale"
      /\ res.decision = "committed" => ~ Rejected(writes) /\ res.commitSeq = commitSeq
  BY <1>3 DEF Aborted, Committed, TxnResult, Decision, NoResult
<1> HIDE DEF res
<1>5. UNCHANGED <<execVars, latestVersion, commitSeq, late, strays, faults, deployVars>>
  BY <1>0 DEF execVars, deployVars
<1>6. Types' /\ DeployInv(G)'
  BY <1>0, <1>1, <1>2, <1>4, <1>5, HandOverInv
<1>7. result'[t] = res /\ \A u \in Txn \ {t} : result'[u] = result[u]
  BY <1>0, <1>2 DEF Types, CertTypeOK
<1>8. \A k \in Key : data'[k] = data[k] \/ data[k].version < data'[k].version
  BY <1>0, <1>2, <1>3, InstallRaises
<1>9. StoreHoldsLastCommit'
  <2>1. ~ Rejected(writes) => data' = Installed(t, commitSeq)
    BY <1>0, <1>2, <1>3, InstallFacts
  <2>2. ASSUME NEW u \in Txn, NEW k \in Key, IsCommitted(u)', Writes(u, k)'
        PROVE  \/ result'[u] = result[u] /\ writeSet'[u] = writeSet[u]
               \/ data'[k] = [value   |-> LastWrite(writeSet'[u], k).value,
                              version |-> result'[u].commitSeq]
    BY <1>0, <1>4, <1>7, <2>1, <2>2 DEF IsCommitted, Writes, Installed
  <2>3. StoreTypeOK' /\ CertTypeOK' /\ StoreHoldsLastCommit
    BY <1>6, StrongParts DEF Types, DeployTypeOK
  <2> QED
    BY <1>2, <1>8, <2>2, <2>3, CommitsKept
<1>10. Without(CallFailures)' => AbortInv'
  <2>1. SUFFICES ASSUME Without(CallFailures), AbortInv PROVE AbortInv'
    BY <1>0, StrongParts DEF Without, Happened
  <2>2. ReplacedByInstalled' /\ StaleByInstalled'
    BY <1>0, <1>2, <1>3, <1>4, <1>5, <1>7, <2>1, InstallReplaced DEF AbortInv
  <2>3. \A k \in Key : data[k].version < commitSeq
    BY <1>1, <1>2, <1>3, <2>1 DEF Without, CallFailures, SyncFailures, DeployInv, NumbersFresh
  <2>4. data' = Installed(t, commitSeq)
    BY <1>0, <1>2, <1>3, <2>3, InstallFacts, FreshRecordInstalled DEF Types, DeployTypeOK
  <2>5. \A k \in Key : latestVersion[k] = data'[k].version
    BY <1>1, <1>2, <1>3, <2>1, <2>4, InstalledVersion DEF AbortInv, MapAgrees
  <2>6. MapAgrees'
    BY <1>0, <1>3, <2>1, <2>5 DEF AbortInv, MapAgrees
  <2> QED
    BY <2>2, <2>6 DEF AbortInv
<1>11. DeployInv(Holder)' /\ StoreBounded' /\ mu' \in {NoTxn} \cup Txn
  BY <1>0, <1>2, <1>3, <1>6, InstallBounded
<1> QED
  BY <1>6, <1>9, <1>10, <1>11, StrongNext

\* The call fails: the record is lost or late, and the map stays ahead.
LEMMA ApplyFailsStep ==
    ASSUME Strong, NEW t \in Txn, ApplyFails(t) PROVE Strong'
<1>0. /\ mu = t /\ mu' = NoTxn /\ result' = [result EXCEPT ![t] = Aborted("error")]
      /\ Fails("apply") /\ LateGrows(t)
      /\ UNCHANGED <<data, latestVersion, commitSeq, strays, installed, calls, phase, server>>
      /\ UNCHANGED <<idCounter, state, readSet, writeSet, observed>>
  BY DEF ApplyFails, ApplyCommitFails, Abandon, LateGrows, Return, Request, execVars, deployVars
<1>1. PICK H, G : H = {t} /\ G = {}
  OBVIOUS
<1>2. /\ Types /\ StoreBounded /\ DeployInv(H) /\ Holder = H /\ Holder' = G
      /\ H \in SUBSET Txn /\ RemoteTypeOK
  BY <1>0, <1>1, StrongParts, NoTxnIsNone DEF Holder, Types, DeployTypeOK
<1>3. /\ t \in calls /\ result[t] = NoResult /\ phase = "ready" /\ server # "down"
      /\ (Synced' <=> Synced) /\ commitSeq \in Nat
  BY <1>0, <1>1, <1>2 DEF DeployInv, ClientInv, NotRunning, Unanswered, Synced, Accepting,
                          Types, CertTypeOK
<1>4. Types'
  <2>1. CertTypeOK'
    BY <1>0, <1>2 DEF Types, CertTypeOK, Aborted, TxnResult, Decision
  <2>2. RemoteTypeOK'
    <3>1. CommitRecordOf(Request(t), commitSeq) \in CommitRecord
      BY <1>2, <1>3, RecordType
    <3>2. faults' \in [Faulty -> Nat]
      BY <1>0, <1>2, FailsGrow DEF FaultsGrow
    <3> QED
      BY <1>0, <1>2, <3>1, <3>2 DEF RemoteTypeOK, LateGrows
  <2> QED
    BY <1>0, <1>2, <2>1, <2>2 DEF Types, DeployTypeOK, StoreTypeOK, ExecTypeOK
<1>5. /\ result'[t] = Aborted("error") /\ result'[t] # NoResult /\ ~ IsCommitted(t)'
      /\ \A u \in Txn \ {t} : result'[u] = result[u]
  BY <1>0, <1>2 DEF Types, CertTypeOK, Aborted, NoResult, IsCommitted
<1>6. FaultsGrow /\ UNCHANGED execVars
  BY <1>0, <1>2, FailsGrow DEF execVars
<1>7. DeployInv(G)'
  BY <1>0, <1>1, <1>2, <1>3, <1>4, <1>5, <1>6, AnswerInv
<1>8. StoreHoldsLastCommit'
  BY <1>0, <1>5, StrongParts DEF StoreHoldsLastCommit, IsCommitted, Writes
<1>9. ~ Without(CallFailures)'
  BY <1>0, <1>2, WithoutFailure DEF CallFailures
<1>10. DeployInv(Holder)' /\ StoreBounded' /\ mu' \in {NoTxn} \cup Txn
  BY <1>0, <1>2, <1>7 DEF StoreBounded
<1> QED
  BY <1>4, <1>8, <1>9, <1>10, StrongNext

\* The server moves towards its end, or nothing moves at all.
LEMMA ServerMoves ==
    ASSUME Strong, FaultsGrow,
           UNCHANGED <<data, execVars, certVars, mu, late, strays, installed, calls, phase>>,
           server' \in {"up", "stopping", "closing", "down"},
           server' = "down" => \A t \in calls : result[t] # NoResult,
           Synced' => Synced
    PROVE  Strong'
<1>0. /\ UNCHANGED <<data, latestVersion, commitSeq, result, late, strays, installed, calls>>
      /\ UNCHANGED <<phase, mu>>
      /\ UNCHANGED <<idCounter, state, readSet, writeSet, observed>>
  BY DEF execVars, certVars
<1>1. PICK H : H = Holder
  OBVIOUS
<1>2. /\ Types /\ StoreBounded /\ DeployInv(H) /\ Holder' = H /\ mu \in {NoTxn} \cup Txn
      /\ H \in SUBSET Txn /\ RemoteTypeOK
  BY <1>0, <1>1, StrongParts, HolderFacts DEF Holder, Types, DeployTypeOK
<1>3. Types'
  BY <1>0, <1>2
  DEF Types, DeployTypeOK, StoreTypeOK, ExecTypeOK, RemoteTypeOK, CertTypeOK, FaultsGrow
<1>4. \A t \in H : t \in calls
  BY <1>2 DEF DeployInv, ClientInv, Unanswered
<1>5. DeployInv(H)'
  BY <1>0, <1>2, <1>3, <1>4, AnswerInv
<1>6. StoreHoldsLastCommit' /\ StoreBounded'
  BY <1>0, StrongParts DEF StoreHoldsLastCommit, IsCommitted, Writes, StoreBounded
<1>7. Without(CallFailures)' => AbortInv'
  <2>1. SUFFICES ASSUME AbortInv PROVE AbortInv'
    BY <1>2, StrongParts, WithoutBefore
  <2>2. MapAgrees'
    BY <1>0, <1>1, <1>2, <2>1 DEF AbortInv, MapAgrees, Writes
  <2> QED
    BY <1>0, <2>1, <2>2, AbortKept
<1>8. DeployInv(Holder)'
  BY <1>2, <1>5
<1> QED
  BY <1>0, <1>2, <1>3, <1>6, <1>7, <1>8, StrongNext

\* The process dies; a record that was on its way to the store may be late.
LEMMA CrashStep ==
    ASSUME Strong, Crash PROVE Strong'
<1>0. /\ Fails("crash") /\ server' = "down" /\ calls' = {} /\ mu' = NoTxn
      /\ UNCHANGED <<data, latestVersion, commitSeq, result, strays, installed, phase>>
      /\ UNCHANGED <<idCounter, state, readSet, writeSet, observed>>
  BY DEF Crash, Die, Abandon, execVars, certVars
<1>1. PICK H, G : H = Holder /\ G = {}
  OBVIOUS
<1>2. /\ Types /\ StoreBounded /\ DeployInv(H) /\ Holder' = G /\ mu \in {NoTxn} \cup Txn
      /\ H \in SUBSET Txn /\ RemoteTypeOK
      /\ (mu = NoTxn => H = {}) /\ (mu # NoTxn => mu \in Txn /\ H = {mu})
      /\ commitSeq \in Nat
  BY <1>0, <1>1, StrongParts, HolderFacts DEF Holder, Types, DeployTypeOK, CertTypeOK
<1>3. late' = late \/ \E t \in H : LateGrows(t)
  BY <1>2 DEF Crash, Abandon, LateGrows
<1>4. FaultsGrow /\ ~ Synced'
  BY <1>0, <1>2, FailsGrow DEF Synced, Accepting
<1>5. Types'
  <2>1. \A t \in Txn : CommitRecordOf(Request(t), commitSeq) \in CommitRecord
    BY <1>2, RecordType
  <2>2. RemoteTypeOK'
    BY <1>0, <1>2, <1>3, <1>4, <2>1 DEF RemoteTypeOK, LateGrows, FaultsGrow
  <2> QED
    BY <1>0, <1>2, <2>2 DEF Types, DeployTypeOK, StoreTypeOK, ExecTypeOK, CertTypeOK
<1>6. UNCHANGED execVars
  BY <1>0 DEF execVars
<1>7. DeployInv(G)'
  BY <1>0, <1>1, <1>2, <1>3, <1>4, <1>5, <1>6, AnswerInv
<1>8. StoreHoldsLastCommit' /\ StoreBounded'
  BY <1>0, StrongParts DEF StoreHoldsLastCommit, IsCommitted, Writes, StoreBounded
<1>9. Without(CallFailures)' => AbortInv'
  <2>1. SUFFICES ASSUME AbortInv PROVE AbortInv'
    BY <1>2, <1>4, StrongParts, WithoutBefore
  <2>2. MapAgrees'
    BY <1>4 DEF MapAgrees
  <2> QED
    BY <1>0, <2>1, <2>2, AbortKept
<1>10. DeployInv(Holder)'
  BY <1>2, <1>7
<1> QED
  BY <1>0, <1>5, <1>8, <1>9, <1>10, StrongNext

\* The store executes a late record.
LEMMA LateStep ==
    ASSUME Strong, NEW rec \in late, ApplyLate(rec), UNCHANGED deployVars, UNCHANGED mu
    PROVE  Strong'
<1>1. ApplyLate(rec) /\ UNCHANGED deployVars
  OBVIOUS
<1>2. PICK H : H = Holder
  OBVIOUS
<1>3. Types /\ StoreBounded /\ DeployInv(H) /\ Holder' = H /\ mu \in {NoTxn} \cup Txn
  BY <1>2, StrongParts DEF Holder
<1>4. Types' /\ DeployInv(H)'
  BY <1>1, <1>3, ApplyLateInv
<1>5. PICK u \in Txn, n \in Nat \ {0} :
        rec = CommitRecordOf(Request(u), n) /\ installed[u] = 0 /\ u = rec.txnID
  <2>1. rec.txnID \in Txn /\ rec.commitSeq \in Nat \ {0}
    BY <1>3 DEF Types, DeployTypeOK, RemoteTypeOK, CommitRecord, CertTypeOK,
                DeployInv, ClientInv, LateRecords
  <2> QED
    BY <1>3, <2>1 DEF DeployInv, ClientInv, LateRecords
<1>6. /\ Install(CommitRecordOf(Request(u), n))
      /\ UNCHANGED <<execVars, result, faults, phase, server, calls, writeSet>>
  BY <1>1, <1>5 DEF ApplyLate, certVars, deployVars, execVars
<1>7. \A k \in Key : data'[k] = data[k] \/ data[k].version < data'[k].version
  BY <1>3, <1>6, InstallRaises
<1>8. StoreHoldsLastCommit'
  <2>1. StoreTypeOK' /\ CertTypeOK' /\ StoreHoldsLastCommit
    BY <1>4, StrongParts DEF Types, DeployTypeOK
  <2> QED
    BY <1>3, <1>6, <1>7, <2>1, CommitsKept
<1>9. Without(CallFailures)' => AbortInv'
  <2>1. SUFFICES ASSUME AbortInv PROVE AbortInv'
    BY <1>6, StrongParts DEF Without, Happened
  <2>2. ~ Synced'
    BY <1>1, <1>6, <2>1 DEF AbortInv, MapAgrees, Synced, Accepting
  <2>3. ReplacedByInstalled' /\ StaleByInstalled'
    BY <1>3, <1>5, <1>6, <2>1, InstallReplaced DEF AbortInv
  <2> QED
    BY <2>2, <2>3 DEF AbortInv, MapAgrees
<1>10. DeployInv(Holder)' /\ StoreBounded'
  BY <1>3, <1>4, <1>6, InstallBounded
<1> QED
  BY <1>3, <1>4, <1>8, <1>9, <1>10, StrongNext

\* The store executes a record of a certifier that is gone.  Whatever it replaces
\* is older, so that reported commits stay.
LEMMA StrayStep ==
    ASSUME Strong, NEW rec \in strays, ApplyStray(rec), UNCHANGED deployVars, UNCHANGED mu
    PROVE  Strong'
<1>0. /\ UNCHANGED <<readSet, writeSet, latestVersion, commitSeq, result, late>>
      /\ UNCHANGED <<calls, phase, server>>
  BY DEF ApplyStray, execVars, certVars, deployVars
<1>1. PICK H : H = Holder
  OBVIOUS
<1>2. /\ Types /\ StoreBounded /\ DeployInv(H) /\ Holder' = H /\ mu \in {NoTxn} \cup Txn
      /\ StrayRecords(H)
  BY <1>1, StrongParts DEF Holder, DeployInv, ClientInv
<1>3. Types' /\ DeployInv(H)' /\ StoreBounded'
  BY <1>2, ApplyStrayInv
<1>4. /\ \A k \in Key : data'[k] = data[k] \/ data[k].version < data'[k].version
      /\ UNCHANGED <<data, installed, faults>> \/ Happened("stray")'
  BY <1>2, StrayFacts
<1>5. StoreHoldsLastCommit'
  <2>1. StoreTypeOK' /\ CertTypeOK' /\ StoreHoldsLastCommit
    BY <1>3, StrongParts DEF Types, DeployTypeOK
  <2> QED
    BY <1>0, <1>2, <1>4, <2>1, CommitsKept
<1>6. Without(CallFailures)' => AbortInv'
  <2>1. SUFFICES ASSUME UNCHANGED <<data, installed, faults>>, AbortInv PROVE AbortInv'
    BY <1>4, StrongParts DEF Without, Happened, CallFailures
  <2>2. MapAgrees'
    BY <1>0, <1>1, <1>2, <2>1 DEF AbortInv, MapAgrees, Synced, Accepting, Writes
  <2> QED
    BY <1>0, <2>1, <2>2, AbortKept
<1>7. DeployInv(Holder)'
  BY <1>2, <1>3
<1> QED
  BY <1>2, <1>3, <1>5, <1>6, <1>7, StrongNext

\* A new certifier starts from the store, with transactions and records under way.
LEMMA RestartStep ==
    ASSUME Strong, Restart, UNCHANGED mu PROVE Strong'
<1>0. /\ late' = {}
      /\ UNCHANGED <<idCounter, state, readSet, writeSet, observed>>
      /\ UNCHANGED <<data, result, installed, calls, phase>>
  BY DEF Restart, execVars
<1>1. PICK H : H = Holder
  OBVIOUS
<1>2. /\ Types /\ StoreBounded /\ DeployInv(H) /\ Holder' = H /\ mu \in {NoTxn} \cup Txn
      /\ RemoteTypeOK
  BY <1>1, StrongParts DEF Holder, Types, DeployTypeOK
<1>3. H = {} /\ Types' /\ DeployInv(H)' /\ StoreBounded'
  BY <1>2, RestartInv
<1>4. StoreHoldsLastCommit'
  BY <1>0, StrongParts DEF StoreHoldsLastCommit, IsCommitted, Writes
<1>5. Without(CallFailures)' => AbortInv'
  <2>1. SUFFICES ASSUME Without(CallFailures)' PROVE AbortInv'
    OBVIOUS
  <2>2. FaultsGrow /\ ~ Fails("boot")
    BY <1>2, <2>1, FailsGrow, UnchangedGrow, WithoutFailure DEF Restart, Dumped, CallFailures
  <2>3. AbortInv
    BY <1>2, <2>1, <2>2, StrongParts, WithoutBefore
  <2>4. latestVersion' = VersionsIn(data)
    BY <2>2 DEF Restart, Dumped, DumpState
  <2>5. MapAgrees'
    BY <1>0, <2>4 DEF MapAgrees, VersionsIn
  <2> QED
    BY <1>0, <2>3, <2>5, AbortKept
<1>6. DeployInv(Holder)'
  BY <1>2, <1>3
<1> QED
  BY <1>2, <1>3, <1>4, <1>5, <1>6, StrongNext

LEMMA NextStrong ==
    ASSUME Strong, [RemoteNext]_vars PROVE Strong'
<1>0. Types /\ RemoteTypeOK
  BY StrongParts DEF Types, DeployTypeOK
<1>1. CASE ClientStep /\ UNCHANGED mu
  BY <1>0, <1>1, ClientStepCases, LoadStep, BeginStep, ClientOpStep
<1>2. ASSUME NEW t \in Txn, Submit(t), UNCHANGED mu PROVE Strong'
  BY <1>0, <1>2, SubmitCases, ClientOpStep
<1>3. ASSUME NEW t \in Txn, Handle(t) PROVE Strong'
  BY <1>3, StaleStep, AssignStep, ApplyStep, ApplyFailsStep DEF Handle, Validate
<1>4. CASE Signal
  <2>1. FaultsGrow /\ (Synced' => Synced)
    BY <1>0, <1>4, FailsGrow DEF Signal, Synced, Accepting
  <2> QED
    BY <1>4, <2>1, ServerMoves DEF Signal
<1>5. CASE Exit /\ UNCHANGED mu
  <2>1. FaultsGrow /\ (Synced' => Synced)
    BY <1>0, <1>5, UnchangedGrow DEF Exit, Synced, Accepting, remoteVars
  <2> QED
    BY <1>5, <2>1, ServerMoves DEF Exit, remoteVars
<1>6. CASE UNCHANGED vars
  <2>1. /\ UNCHANGED <<data, execVars, certVars, mu, late, strays, faults, installed>>
        /\ UNCHANGED <<calls, phase, server>>
    BY <1>6 DEF vars, remoteVars, deployVars
  <2>2. FaultsGrow /\ (Synced' => Synced) /\ server \in {"up", "stopping", "closing", "down"}
    BY <1>0, <2>1, UnchangedGrow DEF Synced, Accepting, Types, DeployTypeOK
  <2>3. server = "down" => \A t \in calls : result[t] # NoResult
    BY StrongParts DEF DeployInv, ClientInv, Unanswered
  <2> QED
    BY <2>1, <2>2, <2>3, ServerMoves
<1>7. CASE StorageStep /\ UNCHANGED mu
  BY <1>7, LateStep, StrayStep DEF StorageStep
<1> QED
  BY <1>1, <1>2, <1>3, <1>4, <1>5, <1>6, <1>7, SynchroniseStep, CrashStep, RestartStep
  DEF RemoteNext, ServerStep

-----------------------------------------------------------------------------
LEMMA StrongInvariant ==
    RemoteSpec => []Strong
BY InitStrong, NextStrong, PTL DEF RemoteSpec

\* The variables of the three processes have their types, whatever fails and
\* whenever ccaas-server is killed and started again.
THEOREM TypeCorrect ==
    RemoteSpec => []TypeOK
<1>1. Strong => TypeOK
  BY DEF Strong
<1> QED
  BY <1>1, StrongInvariant, PTL

\* The facts that the properties below rest on hold in every reachable state.
THEOREM InductiveInvariant ==
    RemoteSpec => []IInv
<1>1. Strong => IInv
  BY DEF Strong
<1> QED
  BY <1>1, StrongInvariant, PTL

(***************************************************************************)
(* A commit that SubmitCommit has reported to the client is in the store:  *)
(* a version that is stored is replaced only by a higher one, by records   *)
(* of a certifier that is gone as well.                                    *)
(***************************************************************************)
THEOREM ReportedCommitsHeld ==
    RemoteSpec => []ReportedCommitInStore
<1>1. ASSUME Strong PROVE ReportedCommitInStore
  <2>1. StoreHoldsLastCommit /\ ReportedAnswer /\ Types
    BY <1>1, StrongParts DEF DeployInv, ClientInv
  <2>2. \A t \in Txn, k \in Key : Writes(t, k) => writeSet[t] # << >>
    BY DEF Writes, KeysOf
  <2> QED
    BY <2>1, <2>2 DEF ReportedCommitInStore, StoreHoldsLastCommit, ReportedAnswer
<1> QED
  BY <1>1, StrongInvariant, PTL

(***************************************************************************)
(* The records that the store has applied, whether their clients learned   *)
(* of it or not, are a serial history through crashes and restarts, unless *)
(* a certifier that started anew has missed a record: its DumpState        *)
(* failed, or the record arrived after it.                                 *)
(***************************************************************************)
THEOREM InstalledSerial ==
    RemoteSpec => []InstalledHistorySerial
<1>1. Strong => InstalledHistorySerial
  BY StrongParts, SerialHistory
<1> QED
  BY <1>1, StrongInvariant, PTL

(***************************************************************************)
(* When SubmitCommit hands a record to the store, everything the           *)
(* transaction has read is current, unless a Get or the DumpState of a     *)
(* restart has failed, or a record has arrived after that DumpState.       *)
(***************************************************************************)
THEOREM ObservedCurrentAtCommit ==
    RemoteSpec => []ObservedUnlessGetFails
<1>1. ASSUME Strong PROVE ObservedUnlessGetFails
  <2>1. SUFFICES ASSUME Without({"get"} \cup MapFailures), mu # NoTxn, NEW o \in observed[mu]
                 PROVE  data[o.key].value = o.value
    BY DEF ObservedUnlessGetFails, ObservedAtCommit, Without, MapFailures
  <2>2. /\ mu \in Txn /\ mu \in Holder
        /\ ReadInv(Holder) /\ ReadsRecorded
    BY <1>1, <2>1, StrongParts, HolderFacts DEF DeployInv, VersionInv
  <2>3. PICK r \in readSet[mu] : r.key = o.key
    BY <2>2 DEF ReadsRecorded, Seen
  <2>4. r.versionSeen = data[r.key].version
    BY <2>2, <2>3 DEF ReadInv, SentReadsCurrent
  <2> QED
    BY <2>2, <2>3, <2>4 DEF ReadInv, ObservedCurrent
<1> QED
  BY <1>1, StrongInvariant, PTL

(***************************************************************************)
(* As long as none of the calls fails that let the map and the store       *)
(* disagree, and no record arrives after a new certifier has read the      *)
(* store, a transaction is turned down as stale only because a record in   *)
(* the store has replaced what it read.  Kills, restarts and a second      *)
(* client do not change that.                                              *)
(***************************************************************************)
THEOREM AbortsJustified ==
    RemoteSpec => []AbortUnlessCallFails
<1>1. ASSUME Strong PROVE AbortUnlessCallFails
  <2>1. Without(CallFailures) \/ \E what \in CallFailures : Happened(what)
    BY DEF Without
  <2>2. Without(CallFailures) => StaleByInstalled
    BY <1>1, StrongParts DEF AbortInv
  <2> QED
    BY <2>1, <2>2 DEF AbortUnlessCallFails, AbortRejectsInterleaving, StaleByInstalled
<1> QED
  BY <1>1, StrongInvariant, PTL
=============================================================================

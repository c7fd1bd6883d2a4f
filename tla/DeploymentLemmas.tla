-------------------------- MODULE DeploymentLemmas --------------------------
(***************************************************************************)
(* Facts about the three processes that hold whichever certifier runs: the *)
(* types and DeployInv(H) are preserved by the steps of the client, of the *)
(* store and of a certifier, where H is the transaction whose record is    *)
(* being handed to the store.  The proofs about a certifier show which of  *)
(* these steps each of its actions is.                                     *)
(***************************************************************************)
EXTENDS Deployment, TransactionLemmas

Types == DeployTypeOK /\ CertTypeOK

\* A step of the deployment forgets none of the failures.
FaultsGrow ==
    faults' \in [Faulty -> Nat] /\ \A what \in Faulty : faults[what] <= faults'[what]

-----------------------------------------------------------------------------
LEMMA FailsGrow ==
    ASSUME RemoteTypeOK, NEW what, Fails(what)
    PROVE  FaultsGrow
BY DEF RemoteTypeOK, Fails, FaultsGrow

LEMMA UnchangedGrow ==
    ASSUME RemoteTypeOK, UNCHANGED faults
    PROVE  FaultsGrow
BY DEF RemoteTypeOK, FaultsGrow

LEMMA WithoutBefore ==
    ASSUME RemoteTypeOK, FaultsGrow, NEW bad, Without(bad)'
    PROVE  Without(bad)
<1>1. \A what \in Faulty : faults[what] \in Nat /\ faults'[what] \in Nat
                           /\ faults[what] <= faults'[what]
  BY DEF RemoteTypeOK, FaultsGrow
<1>2. \A what \in bad : what \in Faulty => ~ (faults'[what] > 0)
  BY DEF Without, Happened
<1> QED
  BY <1>1, <1>2 DEF Without, Happened

\* A failure that a property excludes has not happened in this step either.
LEMMA WithoutFailure ==
    ASSUME RemoteTypeOK, NEW what, Fails(what), NEW bad, Without(bad)'
    PROVE  what \notin bad
<1>1. what \in Faulty /\ faults[what] \in Nat /\ faults'[what] = faults[what] + 1
  BY DEF RemoteTypeOK, Fails
<1> QED
  BY <1>1 DEF Without, Happened

\* A stray that the store has executed is not forgotten.
LEMMA StraySince ==
    ASSUME RemoteTypeOK, FaultsGrow, Happened("stray")
    PROVE  Happened("stray")'
BY DEF RemoteTypeOK, FaultsGrow, Happened

LEMMA NumbersType ==
    ASSUME RemoteTypeOK, CertTypeOK, NEW H, NEW t \in Txn
    PROVE  Numbers(t, H) \subseteq Nat
BY DEF RemoteTypeOK, CertTypeOK, CommitRecord, Numbers

\* The numbers of t: the installed one, late ones and the one handed over.
LEMMA NumbersIn ==
    \A t, H, n : n \in Numbers(t, H) <=>
        \/ n # 0 /\ n = installed[t]
        \/ \E rec \in late : rec.txnID = t /\ rec.commitSeq = n
        \/ t \in H /\ n = commitSeq
BY DEF Numbers

LEMMA LateNumbered ==
    ASSUME RemoteTypeOK, NEW H, NEW rec \in late
    PROVE  rec.txnID \in Txn /\ rec.commitSeq \in Numbers(rec.txnID, H)
BY DEF RemoteTypeOK, CommitRecord, Numbers

\* What keeps the strays as they are described: the certifier and the client no
\* longer do anything for their transactions.
LEMMA StraysKept ==
    ASSUME NEW H, NEW G, StrayRecords(H), strays' \subseteq strays,
           \A rec \in strays' :
             /\ installed'[rec.txnID] = 0
             /\ writeSet'[rec.txnID] \in {<< >>, writeSet[rec.txnID]}
             /\ rec.txnID \notin G
             /\ state'[rec.txnID] \notin {"unborn", "active"}
             /\ rec.txnID \in calls' => result'[rec.txnID] # NoResult
             /\ \A other \in late' : other \in late \/ other.txnID # rec.txnID
    PROVE  StrayRecords(G)'
<1>1. ASSUME NEW rec \in strays'
      PROVE  /\ rec.commitSeq # 0
             /\ \A i \in 1 .. Len(rec.writes) : rec.writes[i].newVersion = rec.commitSeq
             /\ writeSet'[rec.txnID] \in {<< >>, Written(rec)}
             /\ \A other \in late' \cup (strays' \ {rec}) : other.txnID # rec.txnID
  BY <1>1 DEF StrayRecords
<1> QED
  BY <1>1 DEF StrayRecords, Written

\* The record of a late call is what its transaction has written.
LEMMA LateWritten ==
    ASSUME Types, NEW H, LateRecords(H), NEW rec \in late
    PROVE  /\ rec.txnID \in Txn
           /\ rec.commitSeq # 0
           /\ \A i \in 1 .. Len(rec.writes) : rec.writes[i].newVersion = rec.commitSeq
           /\ writeSet[rec.txnID] = Written(rec)
<1>1. /\ rec.txnID \in Txn /\ rec.commitSeq # 0
      /\ rec.writes = Record(Request(rec.txnID), rec.commitSeq)
  <2>1. rec.txnID \in Txn
    BY DEF Types, DeployTypeOK, RemoteTypeOK, CommitRecord
  <2>2. rec = CommitRecordOf(Request(rec.txnID), rec.commitSeq) /\ rec.commitSeq # 0
    BY DEF LateRecords
  <2> QED
    BY <2>1, <2>2 DEF CommitRecordOf
<1>2. PICK ws \in Seq(WriteEntry) : ws = writeSet[rec.txnID]
  BY <1>1 DEF Types, DeployTypeOK, ExecTypeOK
<1>3. rec.writes = [i \in 1 .. Len(ws) |->
          [key |-> ws[i].key, value |-> ws[i].value, newVersion |-> rec.commitSeq]]
  BY <1>1, <1>2 DEF Record, Request
<1>4. Len(ws) \in Nat /\ ws \in [1 .. Len(ws) -> WriteEntry]
  BY <1>2, LenProperties
<1>5. \A i \in 1 .. Len(ws) : ws[i] = [key |-> ws[i].key, value |-> ws[i].value]
  <2>1. \A e \in WriteEntry : e = [key |-> e.key, value |-> e.value]
    BY DEF WriteEntry
  <2> QED
    BY <1>4, <2>1
<1>6. Len(rec.writes) = Len(ws)
  BY <1>3, <1>4
<1>7. \A i \in 1 .. Len(ws) : /\ rec.writes[i].newVersion = rec.commitSeq
                              /\ rec.writes[i].key = ws[i].key
                              /\ rec.writes[i].value = ws[i].value
  BY <1>3
<1>8. ws = [i \in 1 .. Len(ws) |-> [key |-> ws[i].key, value |-> ws[i].value]]
  BY <1>4, <1>5
<1>9. Written(rec) = [i \in 1 .. Len(ws) |-> [key |-> ws[i].key, value |-> ws[i].value]]
  BY <1>6, <1>7 DEF Written
<1> QED
  BY <1>1, <1>2, <1>6, <1>7, <1>8, <1>9

\* The late records outlive the certifier or the client.
LEMMA StraysGrow ==
    ASSUME Types, NEW H, NEW G, G = {},
           LateRecords(H), StrayRecords(H), SentNotActive(H),
           strays' = strays \cup late, late' = {},
           \A u \in Txn : /\ installed'[u] \in {0, installed[u]}
                          /\ writeSet'[u] \in {<< >>, writeSet[u]}
                          /\ state'[u] = state[u]
                          /\ u \in calls' => u \in calls /\ result'[u] = result[u]
    PROVE  StrayRecords(G)'
<1>0. \A rec \in strays \cup late : rec.txnID \in Txn
  BY DEF Types, DeployTypeOK, RemoteTypeOK, CommitRecord
<1>1. ASSUME NEW rec \in strays'
      PROVE  /\ rec.commitSeq # 0
             /\ \A i \in 1 .. Len(rec.writes) : rec.writes[i].newVersion = rec.commitSeq
             /\ writeSet[rec.txnID] \in {<< >>, Written(rec)}
             /\ installed[rec.txnID] = 0
             /\ state[rec.txnID] \notin {"unborn", "active"}
             /\ rec.txnID \in calls => result[rec.txnID] # NoResult
             /\ \A other \in strays' \ {rec} : other.txnID # rec.txnID
  <2>1. CASE rec \in strays
    BY <2>1 DEF StrayRecords
  <2>2. CASE rec \in late
    <3>1. Numbers(rec.txnID, H) # {}
      BY <2>2, LateNumbered DEF Types, DeployTypeOK
    <3>2. \A other \in strays : other.txnID # rec.txnID
      BY <2>2 DEF StrayRecords
    <3> QED
      BY <1>0, <2>2, <3>1, <3>2, LateWritten DEF LateRecords, SentNotActive
  <2> QED
    BY <1>1, <2>1, <2>2
<1>2. ASSUME NEW rec \in strays'
      PROVE  /\ installed'[rec.txnID] = 0
             /\ writeSet'[rec.txnID] \in {<< >>, Written(rec)}
             /\ state'[rec.txnID] \notin {"unborn", "active"}
             /\ rec.txnID \in calls' => result'[rec.txnID] # NoResult
  BY <1>0, <1>1, <1>2
<1> QED
  BY <1>1, <1>2 DEF StrayRecords, Written

-----------------------------------------------------------------------------
\* The numbered history stays serial when records arrive or get lost and the
\* map and the counter move ahead.
LEMMA SerialShrinks ==
    ASSUME Types, Types', NEW H, NEW G, SerialInv(H),
           \A k \in Key : latestVersion[k] <= latestVersion'[k],
           commitSeq <= commitSeq',
           \A u \in Txn : Numbers(u, G)' \subseteq Numbers(u, H),
           \A u \in Txn : Numbers(u, H) # {} => UNCHANGED <<readSet[u], writeSet[u]>>
    PROVE  SerialInv(G)'
<1>1. /\ \A u \in Txn : Numbers(u, H) \subseteq Nat
      /\ \A u \in Txn : \A r \in readSet[u] : r.versionSeen \in Nat /\ r.key \in Key
      /\ \A k \in Key : latestVersion[k] \in Nat /\ latestVersion'[k] \in Nat
      /\ commitSeq \in Nat /\ commitSeq' \in Nat
  BY NumbersType DEF Types, DeployTypeOK, ExecTypeOK, CertTypeOK, ReadEntry
<1>2. \A u \in Txn, k \in Key : Numbers(u, H) # {} => (Writes(u, k)' <=> Writes(u, k))
  BY DEF Writes
<1>3. MapCoversNumbers(G)'
  BY <1>1, <1>2 DEF SerialInv, MapCoversNumbers
<1>4. ReadsBelow(G)'
  BY <1>1 DEF SerialInv, ReadsBelow
<1>5. WritersSerial(G)'
  BY <1>1, <1>2 DEF SerialInv, WritersSerial
<1>6. ReadersSerial(G)'
  BY <1>1, <1>2 DEF SerialInv, ReadersSerial
<1> QED
  BY <1>3, <1>4, <1>5, <1>6 DEF SerialInv
-----------------------------------------------------------------------------
(***************************************************************************)
(* Steps of the client.                                                    *)
(***************************************************************************)

\* An operation of the client on t, with the outcomes of calls that fail.
ClientOp(t) ==
    \/ Operation(t)
    \/ \E k \in Key : ReadFrom(t, k, NotFound) /\ Fails("get")
    \/ CommitReturn(t, Aborted("error"))

\* What such a step may change besides: SubmitCommit reaches the server.
ClientFrame(t) ==
    /\ FaultsGrow
    /\ calls' \in {calls, calls \cup {t}}
    /\ calls' # calls => Commit(t) /\ Accepting
    /\ UNCHANGED <<data, certVars, late, strays, installed, phase, server>>

LEMMA FailedReadTypeOK ==
    ASSUME ExecTypeOK, NEW t \in Txn, NEW k \in Key, ReadFrom(t, k, NotFound)
    PROVE  ExecTypeOK'
<1> USE DEF ExecTypeOK
<1>1. [key |-> k, versionSeen |-> NotFound.version] \in ReadEntry
  BY DEF NotFound, ReadEntry
<1>2. [key |-> k, value |-> NotFound.value] \in Observation
  BY ValueAssumption DEF NotFound, Observation
<1>3. readSet' \in [Txn -> SUBSET ReadEntry]
  BY <1>1 DEF ReadFrom, RecordRead
<1>4. observed' \in [Txn -> SUBSET Observation]
  BY <1>2 DEF ReadFrom
<1>5. OneEntryPerKey'
  BY RecordReadOnce DEF ReadFrom
<1> QED
  BY <1>3, <1>4, <1>5 DEF ReadFrom, OneEntryPerKey

LEMMA ClientTypes ==
    ASSUME Types, NEW t \in Txn, ClientOp(t), ClientFrame(t)
    PROVE  Types'
<1>1. ExecTypeOK'
  <2>1. CASE Operation(t)
    BY <2>1, OperationTypeOK DEF Types, DeployTypeOK
  <2>2. CASE \E k \in Key : ReadFrom(t, k, NotFound) /\ Fails("get")
    BY <2>2, FailedReadTypeOK DEF Types, DeployTypeOK
  <2>3. CASE CommitReturn(t, Aborted("error"))
    BY <2>3 DEF Types, DeployTypeOK, ExecTypeOK, CommitReturn, TxnState
  <2> QED
    BY <2>1, <2>2, <2>3 DEF ClientOp
<1>2. StoreTypeOK' /\ CertTypeOK'
  BY DEF Types, DeployTypeOK, ClientFrame, StoreTypeOK, CertTypeOK, certVars
<1>3. RemoteTypeOK'
  BY DEF Types, DeployTypeOK, ClientFrame, RemoteTypeOK, FaultsGrow
<1> QED
  BY <1>1, <1>2, <1>3 DEF Types, DeployTypeOK, ClientFrame

\* One transaction moves, and its sets do not once it has been submitted.
LEMMA ClientOpFacts ==
    ASSUME Types, NEW t \in Txn, ClientOp(t)
    PROVE  /\ idCounter' = idCounter
           /\ \A u \in Txn \ {t} : UNCHANGED <<state[u], readSet[u], writeSet[u], observed[u]>>
           /\ state[t] # "unborn" /\ state'[t] # "unborn"
           /\ state[t] # "active" =>
                /\ UNCHANGED <<readSet[t], writeSet[t], observed[t]>>
                /\ state'[t] \notin {"active", "submitted"}
           /\ state'[t] = "committed" => IsCommitted(t)
           /\ Commit(t) => state'[t] = "submitted"
<1> USE DEF Types, DeployTypeOK, ExecTypeOK
<1>1. CASE \E k \in Key : Read(t, k) \/ ReadFrom(t, k, NotFound)
  BY <1>1 DEF Read, ReadFrom, RecordRead, Active, Commit
<1>2. CASE \E k \in Key, v \in Value : Write(t, k, v)
  BY <1>2 DEF Write, Active, Commit
<1>3. CASE Commit(t) \/ Abort(t)
  BY <1>3 DEF Commit, Abort, Active
<1>4. CASE CommitReturn(t, result[t])
  BY <1>4 DEF CommitReturn, Commit, Active, IsCommitted
<1>5. CASE CommitReturn(t, Aborted("error"))
  BY <1>5 DEF CommitReturn, Commit, Active, Aborted
<1> QED
  BY <1>1, <1>2, <1>3, <1>4, <1>5 DEF ClientOp, Operation

\* What a step of t's may add to its read set and to its observations.
LEMMA ClientOpReads ==
    ASSUME Types, NEW t \in Txn, ClientOp(t)
    PROVE  /\ \A r \in readSet'[t] : r \in readSet[t] \/ r.versionSeen <= data[r.key].version
           /\ readSet[t] \subseteq readSet'[t]
           /\ \A r \in readSet'[t] : r \in readSet[t] \/ ~ Seen(t, r.key)
           /\ \A o \in observed'[t] : o \in observed[t] \/ \E r \in readSet'[t] : r.key = o.key
           /\ ~ Fails("get") =>
                /\ \A r \in readSet'[t] : r \in readSet[t] \/ r.versionSeen = data[r.key].version
                /\ \A o \in observed'[t] : o \in observed[t] \/ o.value = data[o.key].value
<1> DEFINE Result(k, x) == [key |-> k, versionSeen |-> x]
<1>1. ASSUME NEW k \in Key, NEW x \in ReadResult, ReadFrom(t, k, x)
      PROVE  /\ \A r \in readSet'[t] : r \in readSet[t] \/ r = Result(k, x.version)
             /\ readSet[t] \subseteq readSet'[t]
             /\ \A r \in readSet'[t] : r \in readSet[t] \/ ~ Seen(t, r.key)
             /\ \A o \in observed'[t] : o \in observed[t] \/ o = [key |-> k, value |-> x.value]
             /\ \E r \in readSet'[t] : r.key = k
  <2>1. observed' = [observed EXCEPT ![t] = @ \cup {[key |-> k, value |-> x.value]}]
    BY <1>1 DEF ReadFrom
  <2>2. observed \in [Txn -> SUBSET Observation] /\ readSet \in [Txn -> SUBSET ReadEntry]
    BY DEF Types, DeployTypeOK, ExecTypeOK
  <2>3. CASE Seen(t, k)
    BY <1>1, <2>1, <2>2, <2>3 DEF ReadFrom, RecordRead, Seen
  <2>4. CASE ~ Seen(t, k)
    <3>1. readSet'[t] = readSet[t] \cup {Result(k, x.version)}
      BY <1>1, <2>2, <2>4 DEF ReadFrom, RecordRead
    <3>2. Result(k, x.version).key = k
      OBVIOUS
    <3> QED
      BY <2>1, <2>2, <2>4, <3>1, <3>2
  <2> QED
    BY <2>3, <2>4
<1>2. \A k \in Key : data[k] \in ReadResult /\ data[k].version \in Nat
  BY DEF Types, DeployTypeOK, StoreTypeOK, ReadResult
<1>3. CASE \E k \in Key : Read(t, k)
  <2>1. PICK k \in Key : ReadFrom(t, k, data[k])
    BY <1>3 DEF Read, Get
  <2> QED
    BY <1>1, <1>2, <2>1
<1>4. CASE \E k \in Key : ReadFrom(t, k, NotFound) /\ Fails("get")
  <2>1. PICK k \in Key : ReadFrom(t, k, NotFound)
    BY <1>4
  <2>2. NotFound \in ReadResult /\ NotFound.version = 0
    BY ValueAssumption DEF NotFound, ReadResult
  <2> QED
    BY <1>1, <1>2, <1>4, <2>1, <2>2
<1>5. CASE UNCHANGED <<readSet, observed>>
  BY <1>5
<1> QED
  BY <1>3, <1>4, <1>5 DEF ClientOp, Operation, Write, Commit, CommitReturn, Abort
\* A record is determined by the sets of its transaction.
LEMMA SameRecord ==
    ASSUME NEW u, UNCHANGED <<readSet[u], writeSet[u]>>, NEW n
    PROVE  CommitRecordOf(Request(u), n)' = CommitRecordOf(Request(u), n)
BY DEF CommitRecordOf, Request, Record

LEMMA ClientOpClientInv ==
    ASSUME Types, NEW H \in SUBSET Txn, ClientInv(H),
           NEW t \in Txn, ClientOp(t), ClientFrame(t)
    PROVE  ClientInv(H)'
<1>0. UNCHANGED <<data, latestVersion, commitSeq, result, late, strays, installed, phase, server>>
  BY DEF ClientFrame, certVars
<1>1. \A u \in Txn : Numbers(u, H)' = Numbers(u, H)
  BY <1>0 DEF Numbers
<1>2. \A u \in Txn : u \in calls \/ result[u] # NoResult \/ Numbers(u, H) # {} =>
        UNCHANGED <<readSet[u], writeSet[u], observed[u]>>
  BY ClientOpFacts DEF ClientInv, SentNotActive
<1>3. NotRunning(H)'
  <2>1. phase # "ready" => calls' = calls
    BY DEF ClientInv, NotRunning, ClientFrame, Commit, Active
  <2>2. Happened("stray") => Happened("stray")'
    BY StraySince DEF ClientFrame, Types, DeployTypeOK
  <2> QED
    BY <1>0, <2>1, <2>2, ClientOpFacts DEF ClientInv, NotRunning
<1>4. NotBegun'
  BY ClientOpFacts DEF ClientInv, NotBegun
<1>5. SentNotActive(H)'
  <2>1. \A u \in Txn : u \in calls' => u \in calls \/ (u = t /\ state'[t] = "submitted")
    BY ClientOpFacts DEF ClientFrame
  <2> QED
    BY <1>0, <1>1, <2>1, ClientOpFacts DEF ClientInv, SentNotActive
<1>6. LateRecords(H)'
  <2>1. \A rec \in late : rec.txnID \in Txn /\ rec.commitSeq \in Numbers(rec.txnID, H)
    BY LateNumbered DEF Types, DeployTypeOK
  <2>2. \A rec \in late : CommitRecordOf(Request(rec.txnID), rec.commitSeq)'
                          = CommitRecordOf(Request(rec.txnID), rec.commitSeq)
    BY <1>2, <2>1, SameRecord
  <2>3. \A rec \in late : rec.txnID \in calls' => rec.txnID \in calls
    BY <2>1 DEF ClientFrame, ClientInv, SentNotActive, Commit, Active
  <2> QED
    BY <1>0, <2>1, <2>2, <2>3 DEF ClientInv, LateRecords
<1>7. Unanswered(H)'
  <2>1. \A u \in calls' : u \in calls \/ (u = t /\ installed[t] = 0 /\ server # "down")
    <3>1. Commit(t) => installed[t] = 0
      BY DEF ClientInv, SentNotActive, Commit, Active, Numbers, Types, DeployTypeOK, ExecTypeOK
    <3> QED
      BY <3>1 DEF ClientFrame, Accepting
  <2>2. \A u \in H : u \in calls
    BY DEF ClientInv, Unanswered
  <2>3. \A u \in H, k \in Key : Writes(u, k)' <=> Writes(u, k)
    BY <1>2, <2>2 DEF Writes
  <2>4. calls \subseteq calls'
    BY DEF ClientFrame
  <2>5. \A u \in calls' : result'[u] = NoResult => installed'[u] = 0 /\ server' # "down"
    BY <1>0, <2>1 DEF ClientInv, Unanswered
  <2> QED
    BY <1>0, <2>2, <2>3, <2>4, <2>5 DEF ClientInv, Unanswered
<1>8. ReportedAnswer'
  <2>1. \A u \in Txn : IsCommitted(u)' <=> IsCommitted(u)
    BY <1>0 DEF IsCommitted
  <2>2. \A u \in Txn : state'[u] = "committed" => IsCommitted(u) \/
                         (state[u] = "committed" /\ writeSet'[u] = writeSet[u])
    BY ClientOpFacts
  <2> QED
    BY <2>1, <2>2 DEF ClientInv, ReportedAnswer
<1>9. StrayRecords(H)'
  <2>1. \A rec \in strays : rec.txnID \in Txn
    BY DEF Types, DeployTypeOK, RemoteTypeOK, CommitRecord
  <2>2. ASSUME NEW rec \in strays
        PROVE  /\ writeSet'[rec.txnID] = writeSet[rec.txnID]
               /\ state'[rec.txnID] \notin {"unborn", "active"}
               /\ rec.txnID \in calls' => rec.txnID \in calls
    BY <2>1, <2>2, ClientOpFacts DEF ClientInv, StrayRecords, ClientFrame, Commit, Active
  <2>3. StrayRecords(H)
    BY DEF ClientInv
  <2>4. \A rec \in strays : /\ installed[rec.txnID] = 0 /\ rec.txnID \notin H
                            /\ rec.txnID \in calls => result[rec.txnID] # NoResult
    BY <2>3 DEF StrayRecords
  <2> QED
    BY <1>0, <2>2, <2>3, <2>4, StraysKept
<1> QED
  BY <1>3, <1>4, <1>5, <1>6, <1>7, <1>8, <1>9 DEF ClientInv

LEMMA ClientOpInv ==
    ASSUME Types, NEW H \in SUBSET Txn, DeployInv(H),
           NEW t \in Txn, ClientOp(t), ClientFrame(t)
    PROVE  Types' /\ DeployInv(H)'
<1>0. UNCHANGED <<data, latestVersion, commitSeq, result, late, installed, phase, server>>
  BY DEF ClientFrame, certVars
<1>1. Types'
  BY ClientTypes
<1>2. ClientInv(H)'
  BY ClientOpClientInv DEF DeployInv
<1>3. \A u \in Txn : Numbers(u, H)' = Numbers(u, H)
  BY <1>0 DEF Numbers
<1>4. \A u \in Txn : u \in H \/ Numbers(u, H) # {} =>
        UNCHANGED <<readSet[u], writeSet[u], observed[u]>>
  BY ClientOpFacts DEF DeployInv, ClientInv, SentNotActive, Unanswered
<1>5. \A k \in Key : data[k].version \in Nat /\ latestVersion[k] \in Nat
  BY DEF Types, DeployTypeOK, StoreTypeOK, ReadResult, CertTypeOK
<1>6. VersionInv'
  <2>1. InstalledHeld'
    <3>1. \A u \in Txn : installed[u] \in Nat /\ (installed[u] # 0 => Numbers(u, H) # {})
      BY DEF Types, DeployTypeOK, RemoteTypeOK, Numbers
    <3> QED
      BY <1>0, <1>4, <1>5, <3>1 DEF DeployInv, VersionInv, InstalledHeld, Writes
  <2>2. ReadsNotAhead'
    BY <1>0, ClientOpFacts, ClientOpReads DEF DeployInv, VersionInv, ReadsNotAhead
  <2>3. ReadsRecorded'
    BY ClientOpFacts, ClientOpReads DEF DeployInv, VersionInv, ReadsRecorded, Seen
  <2>4. MapBounded'
    BY <1>0 DEF DeployInv, VersionInv, MapBounded
  <2> QED
    BY <2>1, <2>2, <2>3, <2>4 DEF VersionInv
<1>7. ASSUME NEW bad, Without(bad)' PROVE Without(bad)
  BY <1>7, WithoutBefore DEF ClientFrame, Types, DeployTypeOK
<1>8. Without(MapFailures)' => SerialInv(H)'
  <2>1. SUFFICES ASSUME SerialInv(H) PROVE SerialInv(H)'
    BY <1>7 DEF DeployInv
  <2>2. commitSeq \in Nat
    BY DEF Types, CertTypeOK
  <2> QED
    BY <1>0, <1>1, <1>3, <1>4, <1>5, <2>1, <2>2, SerialShrinks
<1>9. Without({"get"} \cup MapFailures)' => ReadInv(H)'
  <2>1. SUFFICES ASSUME ReadInv(H), ~ Fails("get") PROVE ReadInv(H)'
    BY <1>7, WithoutFailure DEF DeployInv, Types, DeployTypeOK
  <2>2. ObservedCurrent'
    <3>1. \A o \in observed'[t], r \in readSet'[t] :
            r.key = o.key /\ r.versionSeen = data[r.key].version => o.value = data[r.key].value
      <4>1. SUFFICES ASSUME NEW o \in observed'[t], NEW r \in readSet'[t],
                            r.key = o.key, r.versionSeen = data[r.key].version,
                            o \in observed[t]
                     PROVE  o.value = data[r.key].value
        BY <2>1, ClientOpReads
      <4>2. PICK q \in readSet[t] : q.key = o.key
        BY <4>1 DEF DeployInv, VersionInv, ReadsRecorded, Seen
      <4>3. r \in readSet[t]
        BY <4>1, <4>2, ClientOpReads DEF Seen
      <4> QED
        BY <4>1, <4>3, <2>1 DEF ReadInv, ObservedCurrent
    <3> QED
      BY <1>0, <2>1, <3>1, ClientOpFacts DEF ReadInv, ObservedCurrent
  <2>3. ReplacedKnown'
    BY <1>0, <2>1, ClientOpFacts, ClientOpReads DEF ReadInv, ReplacedKnown
  <2>4. SentReadsCurrent(H)'
    <3>1. \A rec \in late : rec.txnID \in Txn /\ rec.commitSeq \in Numbers(rec.txnID, H)
      BY LateNumbered DEF Types, DeployTypeOK
    <3> QED
      BY <1>0, <1>4, <2>1, <3>1 DEF ReadInv, SentReadsCurrent, Writes
  <2> QED
    BY <2>2, <2>3, <2>4 DEF ReadInv
<1>10. Without(SyncFailures)' => NumbersFresh(H)'
  <2>1. Synced' => Synced
    BY <1>0 DEF Synced, ClientFrame, Accepting
  <2> QED
    BY <1>0, <1>7, <2>1 DEF DeployInv, NumbersFresh
<1> QED
  BY <1>1, <1>2, <1>6, <1>8, <1>9, <1>10 DEF DeployInv
-----------------------------------------------------------------------------
(***************************************************************************)
(* Steps that leave the store, the map and the counter alone.              *)
(***************************************************************************)

\* Record t's call is abandoned, or it never was under way.
LateGrows(t) == late' \in {late, late \cup {CommitRecordOf(Request(t), commitSeq)}}

\* If the client's side is in order, so is the rest: no version has moved.
LEMMA KeptInv ==
    ASSUME Types, Types', NEW H, NEW G, DeployInv(H), FaultsGrow,
           UNCHANGED <<data, readSet, writeSet, observed, latestVersion, commitSeq, installed>>,
           G = {} \/ (G = H /\ late' = late),
           \A u \in Txn : Numbers(u, G)' \subseteq Numbers(u, H),
           Synced' => Synced,
           ClientInv(G)'
    PROVE  DeployInv(G)'
<1>1. ASSUME NEW bad, Without(bad)' PROVE Without(bad)
  BY <1>1, WithoutBefore DEF Types, DeployTypeOK
<1>2. VersionInv'
  BY DEF DeployInv, VersionInv, InstalledHeld, ReadsNotAhead, ReadsRecorded, Seen,
         MapBounded, Writes
<1>3. Without(MapFailures)' => SerialInv(G)'
  <2>1. SUFFICES ASSUME SerialInv(H) PROVE SerialInv(G)'
    BY <1>1 DEF DeployInv
  <2>2. commitSeq \in Nat /\ \A k \in Key : latestVersion[k] \in Nat
    BY DEF Types, CertTypeOK
  <2> QED
    BY <2>1, <2>2, SerialShrinks
<1>4. Without({"get"} \cup MapFailures)' => ReadInv(G)'
  <2>1. SUFFICES ASSUME ReadInv(H) PROVE ReadInv(G)'
    BY <1>1 DEF DeployInv
  <2>2. ObservedCurrent' /\ ReplacedKnown'
    BY <2>1 DEF ReadInv, ObservedCurrent, ReplacedKnown
  <2>3. SentReadsCurrent(G)'
    BY <2>1 DEF ReadInv, SentReadsCurrent, Writes
  <2> QED
    BY <2>2, <2>3 DEF ReadInv
<1>5. Without(SyncFailures)' => NumbersFresh(G)'
  BY <1>1 DEF DeployInv, NumbersFresh
<1> QED
  BY <1>2, <1>3, <1>4, <1>5 DEF DeployInv

LEMMA BeginInv ==
    ASSUME Types, NEW H, DeployInv(H), StartTxn
    PROVE  Types' /\ DeployInv(H)'
<1>0. /\ phase = "ready" /\ idCounter < MaxTxns /\ idCounter' = idCounter + 1
      /\ state' = [state EXCEPT ![idCounter + 1] = "active"]
      /\ UNCHANGED <<readSet, writeSet, observed, data, latestVersion, commitSeq, result,
                     late, strays, faults, installed, calls, phase, server>>
  BY DEF StartTxn, Begin, Local, certVars, remoteVars, deployVars
<1>1. Types'
  <2>1. ExecTypeOK'
    BY BeginTypeOK DEF Types, DeployTypeOK, StartTxn
  <2>2. StoreTypeOK' /\ CertTypeOK' /\ RemoteTypeOK'
    BY <1>0 DEF Types, DeployTypeOK, StoreTypeOK, CertTypeOK, RemoteTypeOK
  <2> QED
    BY <1>0, <2>1, <2>2 DEF Types, DeployTypeOK
<1>2. \A u \in Txn : Numbers(u, H)' = Numbers(u, H)
  BY <1>0 DEF Numbers
<1>3. ClientInv(H)'
  <2>1. idCounter + 1 \in Txn /\ state[idCounter + 1] = "unborn"
    BY <1>0, MaxTxnsAssumption
    DEF Txn, Types, DeployTypeOK, ExecTypeOK, DeployInv, ClientInv, NotBegun
  <2>2. NotRunning(H)' /\ Unanswered(H)'
    BY <1>0 DEF DeployInv, ClientInv, NotRunning, Unanswered, Writes, Happened
  <2>3. NotBegun'
    BY <1>0, <2>1 DEF DeployInv, ClientInv, NotBegun, Types, DeployTypeOK, ExecTypeOK, Txn
  <2>4. SentNotActive(H)'
    BY <1>0, <1>2, <2>1
    DEF DeployInv, ClientInv, SentNotActive, Types, DeployTypeOK, ExecTypeOK
  <2>5. LateRecords(H)'
    BY <1>0, SameRecord DEF DeployInv, ClientInv, LateRecords
  <2>6. ReportedAnswer'
    BY <1>0, <2>1 DEF DeployInv, ClientInv, ReportedAnswer, IsCommitted,
                      Types, DeployTypeOK, ExecTypeOK
  <2>7. StrayRecords(H)'
    <3>1. \A rec \in strays : rec.txnID \in Txn
      BY DEF Types, DeployTypeOK, RemoteTypeOK, CommitRecord
    <3>2. StrayRecords(H)
      BY DEF DeployInv, ClientInv
    <3>3. \A rec \in strays : /\ installed[rec.txnID] = 0 /\ rec.txnID \notin H
                              /\ rec.txnID \in calls => result[rec.txnID] # NoResult
                              /\ state'[rec.txnID] \notin {"unborn", "active"}
      BY <1>0, <2>1, <3>1, <3>2 DEF StrayRecords, Types, DeployTypeOK, ExecTypeOK
    <3> QED
      BY <1>0, <3>2, <3>3, StraysKept
  <2> QED
    BY <2>2, <2>3, <2>4, <2>5, <2>6, <2>7 DEF ClientInv
<1>4. FaultsGrow /\ (Synced' => Synced)
  BY <1>0, UnchangedGrow DEF Types, DeployTypeOK, Synced, Accepting
<1> QED
  BY <1>0, <1>1, <1>2, <1>3, <1>4, KeptInv

\* The certifier answers calls, gives up the record it was handing over, the
\* server moves towards its end.
LEMMA AnswerInv ==
    ASSUME Types, Types', NEW H \in SUBSET Txn, NEW G, DeployInv(H), FaultsGrow,
           UNCHANGED <<data, execVars, latestVersion, commitSeq, strays, installed, phase>>,
           calls' \subseteq calls,
           server' = "down" => \A u \in calls' : result'[u] # NoResult,
           \A u \in Txn : result'[u] = result[u] \/ (u \in calls /\ result[u] = NoResult),
           \/ G = {} /\ \E t \in H : LateGrows(t) /\ (t \in calls' => result'[t] # NoResult)
           \/ late' = late /\ G = {}
           \/ late' = late /\ G = H /\ \A u \in H : u \in calls' /\ result'[u] = result[u],
           Synced' => Synced
    PROVE  DeployInv(G)'
<1>0. /\ UNCHANGED <<idCounter, state, readSet, writeSet, observed>>
      /\ DeployInv(H) /\ ClientInv(H)
  BY DEF execVars, DeployInv
<1>1. \A u \in Txn : Numbers(u, G)' \subseteq Numbers(u, H)
  <2>1. ASSUME NEW u \in Txn, NEW n \in Numbers(u, G)' PROVE n \in Numbers(u, H)
    <3>1. \/ n # 0 /\ n = installed[u]
          \/ \E rec \in late' : rec.txnID = u /\ rec.commitSeq = n
          \/ u \in G /\ n = commitSeq
      BY <2>1 DEF Numbers
    <3>2. \A rec \in late' : rec \in late \/
            \E t \in H : rec.txnID = t /\ rec.commitSeq = commitSeq
      <4>1. \A t : LET new == CommitRecordOf(Request(t), commitSeq)
                  IN  new.txnID = t /\ new.commitSeq = commitSeq
        BY DEF CommitRecordOf, Request
      <4> QED
        BY <4>1 DEF LateGrows
    <3> QED
      BY <3>1, <3>2, NumbersIn
  <2> QED
    BY <2>1
<1>2. ClientInv(G)'
  <2>1. NotRunning(G)'
    <3>1. phase # "ready" => H = {} /\ calls = {}
      BY <1>0 DEF ClientInv, NotRunning
    <3>2. Happened("stray") => Happened("stray")'
      BY StraySince DEF Types, DeployTypeOK
    <3> QED
      BY <1>0, <3>1, <3>2 DEF ClientInv, NotRunning
  <2>2. NotBegun'
    BY <1>0 DEF ClientInv, NotBegun
  <2>3. SentNotActive(G)'
    BY <1>0, <1>1 DEF ClientInv, SentNotActive
  <2>4. LateRecords(G)'
    <3>0. /\ \A u \in Txn : \A n : CommitRecordOf(Request(u), n)' = CommitRecordOf(Request(u), n)
          /\ \A rec \in late : rec.txnID \in Txn
          /\ commitSeq \in Nat
      BY <1>0, SameRecord, LateNumbered DEF Types, DeployTypeOK, CertTypeOK
    <3>1. CASE late' = late
      BY <1>0, <3>0, <3>1 DEF ClientInv, LateRecords
    <3>2. ASSUME G = {}, NEW t \in H, late' = late \cup {CommitRecordOf(Request(t), commitSeq)},
                 t \in calls' => result'[t] # NoResult
          PROVE  LateRecords(G)'
      <4> DEFINE new == CommitRecordOf(Request(t), commitSeq)
      <4>1. new.txnID = t /\ new.commitSeq = commitSeq
        BY DEF CommitRecordOf, Request
      <4>2. t \in calls /\ result[t] = NoResult /\ commitSeq > 0 /\ installed[t] = 0
        BY <1>0 DEF ClientInv, Unanswered
      <4>3. \A rec \in late : rec.txnID # t
        BY <1>0 DEF ClientInv, LateRecords
      <4>4. new = CommitRecordOf(Request(new.txnID), new.commitSeq)'
        BY <3>0, <4>1
      <4> HIDE DEF new
      <4>5. \A rec \in late' : rec \in late \/ rec = new
        BY <3>2 DEF new
      <4> QED
        BY <1>0, <3>0, <3>2, <4>1, <4>2, <4>3, <4>4, <4>5 DEF ClientInv, LateRecords
    <3> QED
      BY <3>1, <3>2 DEF LateGrows
  <2>5. Unanswered(G)'
    <3>1. \A u \in calls' : result'[u] = NoResult => installed'[u] = 0 /\ server' # "down"
      BY <1>0 DEF ClientInv, Unanswered, Types, DeployTypeOK
    <3>2. ASSUME NEW u \in G
          PROVE  /\ G = {u} /\ u \in calls' /\ result'[u] = NoResult /\ commitSeq' > 0
                 /\ \A k \in Key : Writes(u, k)' => latestVersion'[k] = commitSeq'
      BY <1>0, <3>2 DEF ClientInv, Unanswered, Writes
    <3> QED
      BY <3>1, <3>2 DEF Unanswered
  <2>6. ReportedAnswer'
    <3>1. \A u \in Txn : IsCommitted(u) => IsCommitted(u)'
      BY DEF IsCommitted, NoResult
    <3> QED
      BY <1>0, <3>1 DEF ClientInv, ReportedAnswer
  <2>7. StrayRecords(G)'
    <3>0. StrayRecords(H)
      BY <1>0 DEF ClientInv
    <3>1. \A rec \in strays : rec.txnID \in Txn
      BY DEF Types, DeployTypeOK, RemoteTypeOK, CommitRecord
    <3>2. \A t \in H : CommitRecordOf(Request(t), commitSeq).txnID = t
      BY DEF CommitRecordOf, Request
    <3>3. ASSUME NEW rec \in strays, NEW other \in late'
          PROVE  other \in late \/ other.txnID # rec.txnID
      BY <3>0, <3>2, <3>3 DEF StrayRecords, LateGrows
    <3>4. \A rec \in strays : /\ installed[rec.txnID] = 0 /\ rec.txnID \notin G
                              /\ state[rec.txnID] \notin {"unborn", "active"}
                              /\ rec.txnID \in calls' => result'[rec.txnID] # NoResult
      BY <3>0, <3>1 DEF StrayRecords
    <3> QED
      BY <1>0, <3>0, <3>3, <3>4, StraysKept
  <2> QED
    BY <2>1, <2>2, <2>3, <2>4, <2>5, <2>6, <2>7 DEF ClientInv
<1> QED
  BY <1>0, <1>1, <1>2, KeptInv
-----------------------------------------------------------------------------
(***************************************************************************)
(* Steps that take a number and that change the store.                     *)
(***************************************************************************)

\* The numbers after a step, as a function of the transaction.
LEMMA WritersAsNumbered ==
    ASSUME NEW G, NEW new, \A u \in Txn : Numbers(u, G)' = new[u],
           UNCHANGED <<readSet, writeSet>>,
           \A t \in Txn : \A n \in new[t], r \in readSet[t] : writeSet[t] # << >> =>
             /\ r.versionSeen < n
             /\ \A u \in Txn \ {t} : Writes(u, r.key) =>
                 \A m \in new[u] : ~ (r.versionSeen < m /\ m < n)
    PROVE  WritersSerial(G)'
BY DEF WritersSerial, Writes

LEMMA ReadersAsNumbered ==
    ASSUME NEW G, NEW new, \A u \in Txn : Numbers(u, G)' = new[u],
           UNCHANGED <<readSet, writeSet>>,
           \A t \in Txn : new[t] # {} /\ writeSet[t] = << >> =>
             \A r, q \in readSet[t] : \A u \in Txn \ {t} : Writes(u, r.key) =>
                 \A m \in new[u] : ~ (r.versionSeen < m /\ m <= q.versionSeen)
    PROVE  ReadersSerial(G)'
BY DEF ReadersSerial, Writes

\* Validation has let t pass: it gets the next number.
LEMMA AssignInv ==
    ASSUME Types, NEW H, NEW G, H = {}, DeployInv(H), NEW t \in Txn, G = {t},
           t \in calls, result[t] = NoResult,
           ~ StaleRead(Request(t)),
           commitSeq' = commitSeq + 1, latestVersion' = Bumped(Request(t), commitSeq + 1),
           UNCHANGED <<data, execVars, result, remoteVars, deployVars>>
    PROVE  Types' /\ DeployInv(G)'
<1>0. /\ UNCHANGED <<idCounter, state, readSet, writeSet, observed>>
      /\ UNCHANGED <<data, result, late, strays, faults, installed, calls, phase, server>>
      /\ ClientInv(H) /\ VersionInv
  BY DEF execVars, remoteVars, deployVars, DeployInv
<1>1. commitSeq \in Nat /\ \A k \in Key : latestVersion[k] \in Nat /\ data[k].version \in Nat
  BY DEF Types, DeployTypeOK, StoreTypeOK, ReadResult, CertTypeOK
<1>2. \A k \in Key : latestVersion'[k] = IF Writes(t, k) THEN commitSeq + 1 ELSE latestVersion[k]
  BY DEF Bumped, Request, Writes
<1>3. \A k \in Key : latestVersion[k] <= commitSeq /\ latestVersion[k] <= latestVersion'[k]
  BY <1>0, <1>1, <1>2 DEF VersionInv, MapBounded
<1>4. \A r \in readSet[t] : r.key \in Key /\ latestVersion[r.key] = r.versionSeen
  BY DEF StaleRead, Request, Types, DeployTypeOK, ExecTypeOK, ReadEntry
<1> DEFINE new == [u \in Txn |-> Numbers(u, G)']
<1>5. /\ \A u \in Txn : Numbers(u, G)' = new[u]
      /\ new[t] = {commitSeq + 1}
      /\ \A u \in Txn \ {t} : new[u] = Numbers(u, H)
  <2>1. installed[t] = 0 /\ \A rec \in late : rec.txnID # t
    BY <1>0 DEF ClientInv, Unanswered, LateRecords
  <2> QED
    BY <1>0, <2>1 DEF Numbers
<1> HIDE DEF new
<1>6. \A u \in Txn, k \in Key : Writes(u, k)' <=> Writes(u, k)
  BY <1>0 DEF Writes
<1>7. Types'
  <2>1. latestVersion' \in [Key -> Nat]
    BY <1>1 DEF Bumped
  <2>2. CertTypeOK'
    BY <1>1, <2>1 DEF Types, CertTypeOK
  <2> QED
    BY <1>0, <2>2 DEF Types, DeployTypeOK, StoreTypeOK, ExecTypeOK, RemoteTypeOK
<1>8. ClientInv(G)'
  <2>1. NotRunning(G)' /\ NotBegun' /\ ReportedAnswer'
    BY <1>0 DEF ClientInv, NotRunning, NotBegun, ReportedAnswer, IsCommitted, Happened
  <2>2. SentNotActive(G)'
    BY <1>0, <1>5 DEF ClientInv, SentNotActive
  <2>3. LateRecords(G)'
    <3>1. /\ \A u \in Txn : \A n : CommitRecordOf(Request(u), n)' = CommitRecordOf(Request(u), n)
          /\ \A rec \in late : rec.txnID \in Txn /\ rec.txnID # t
      BY <1>0, SameRecord, LateNumbered DEF Types, DeployTypeOK, ClientInv, LateRecords
    <3> QED
      BY <1>0, <1>1, <3>1 DEF ClientInv, LateRecords
  <2>4. Unanswered(G)'
    BY <1>0, <1>1, <1>2, <1>6 DEF ClientInv, Unanswered
  <2>5. StrayRecords(G)'
    <3>0. StrayRecords(H)
      BY <1>0 DEF ClientInv
    <3>1. \A rec \in strays : /\ installed[rec.txnID] = 0 /\ rec.txnID \notin G
                              /\ state[rec.txnID] \notin {"unborn", "active"}
                              /\ rec.txnID \in calls => result[rec.txnID] # NoResult
      BY <3>0 DEF StrayRecords
    <3> QED
      BY <1>0, <3>0, <3>1, StraysKept
  <2> QED
    BY <2>1, <2>2, <2>3, <2>4, <2>5 DEF ClientInv
<1>9. VersionInv'
  <2>1. InstalledHeld' /\ ReadsNotAhead' /\ ReadsRecorded'
    BY <1>0, <1>6 DEF VersionInv, InstalledHeld, ReadsNotAhead, ReadsRecorded, Seen
  <2>2. MapBounded'
    BY <1>1, <1>2, <1>3 DEF MapBounded
  <2> QED
    BY <2>1, <2>2 DEF VersionInv
<1>10. ASSUME NEW bad, Without(bad)' PROVE Without(bad)
  BY <1>0, <1>10 DEF Without, Happened
<1>11. ASSUME SerialInv(H) PROVE SerialInv(G)'
  <2>0. \A u \in Txn : /\ Numbers(u, H) \subseteq Nat
                       /\ \A r \in readSet[u] : r.key \in Key /\ r.versionSeen \in Nat
    BY NumbersType DEF Types, DeployTypeOK, ExecTypeOK, ReadEntry
  <2>1. MapCoversNumbers(G)'
    BY <1>1, <1>2, <1>3, <1>5, <1>6, <1>11, <2>0 DEF SerialInv, MapCoversNumbers
  <2>2. ReadsBelow(G)'
    <3>1. \A u \in Txn : new[u] # {} => \A r \in readSet[u] : r.versionSeen <= commitSeq + 1
      <4>1. \A r \in readSet[t] : r.versionSeen <= commitSeq + 1
        BY <1>1, <1>3, <1>4, <2>0
      <4>2. \A u \in Txn \ {t} : new[u] # {} => \A r \in readSet[u] : r.versionSeen <= commitSeq
        BY <1>5, <1>11 DEF SerialInv, ReadsBelow
      <4> QED
        BY <1>1, <2>0, <4>1, <4>2
    <3> QED
      BY <1>0, <1>5, <3>1 DEF ReadsBelow
  <2>3. \A u \in Txn, k \in Key : Writes(u, k) =>
            \A n \in Numbers(u, H) : n <= latestVersion[k] /\ n <= commitSeq
    BY <1>1, <1>3, <1>11, <2>0 DEF SerialInv, MapCoversNumbers
  <2>4. WritersSerial(G)'
    <3>1. ASSUME NEW v \in Txn, NEW n \in new[v], NEW r \in readSet[v],
                 writeSet[v] # << >>
          PROVE  /\ r.versionSeen < n
                 /\ \A u \in Txn \ {v} : Writes(u, r.key) =>
                      \A m \in new[u] : ~ (r.versionSeen < m /\ m < n)
      <4>1. CASE v = t
        BY <1>1, <1>3, <1>4, <1>5, <2>0, <2>3, <3>1, <4>1
      <4>2. CASE v # t
        <5>1. n \in Numbers(v, H) /\ n <= commitSeq
          <6>1. n \in Numbers(v, H) /\ n \in Nat
            BY <1>5, <2>0, <3>1, <4>2
          <6>2. \E k \in Key : Writes(v, k)
            <7>1. writeSet[v] \in Seq(WriteEntry) /\ Len(writeSet[v]) \in Nat \ {0}
              BY <3>1 DEF Types, DeployTypeOK, ExecTypeOK
            <7>2. writeSet[v][1].key \in KeysOf(writeSet[v])
              BY <7>1 DEF KeysOf
            <7> QED
              BY <7>1, <7>2, KeysOfSubset DEF Writes
          <6> QED
            BY <2>3, <6>1, <6>2
        <5>2. /\ r.versionSeen < n
              /\ \A u \in Txn \ {v} : Writes(u, r.key) =>
                   \A m \in Numbers(u, H) : ~ (r.versionSeen < m /\ m < n)
          BY <1>11, <3>1, <5>1 DEF SerialInv, WritersSerial
        <5> QED
          BY <1>1, <1>5, <2>0, <5>1, <5>2
      <4> QED
        BY <4>1, <4>2
    <3>2. \A v \in Txn : \A n \in new[v], r \in readSet[v] : writeSet[v] # << >> =>
            /\ r.versionSeen < n
            /\ \A u \in Txn \ {v} : Writes(u, r.key) =>
                 \A m \in new[u] : ~ (r.versionSeen < m /\ m < n)
      BY <3>1
    <3>3. UNCHANGED <<readSet, writeSet>> /\ \A u \in Txn : Numbers(u, G)' = new[u]
      BY <1>0, <1>5
    <3> QED
      BY <3>2, <3>3, WritersAsNumbered
  <2>5. ReadersSerial(G)'
    <3>1. ASSUME NEW v \in Txn, new[v] # {}, writeSet[v] = << >>,
                 NEW r \in readSet[v], NEW q \in readSet[v],
                 NEW u \in Txn \ {v}, Writes(u, r.key), NEW m \in new[u]
          PROVE  ~ (r.versionSeen < m /\ m <= q.versionSeen)
      <4>1. CASE v = t
        BY <1>1, <1>3, <1>4, <1>5, <2>0, <2>3, <3>1, <4>1
      <4>2. CASE v # t
        <5>1. Numbers(v, H) # {} /\ q.versionSeen <= commitSeq
          BY <1>5, <1>11, <3>1, <4>2 DEF SerialInv, ReadsBelow
        <5>2. m \in Numbers(u, H) => ~ (r.versionSeen < m /\ m <= q.versionSeen)
          BY <1>11, <3>1, <5>1 DEF SerialInv, ReadersSerial
        <5> QED
          BY <1>1, <1>5, <2>0, <5>1, <5>2
      <4> QED
        BY <4>1, <4>2
    <3>2. \A v \in Txn : new[v] # {} /\ writeSet[v] = << >> =>
            \A r, q \in readSet[v] : \A u \in Txn \ {v} : Writes(u, r.key) =>
                \A m \in new[u] : ~ (r.versionSeen < m /\ m <= q.versionSeen)
      BY <3>1
    <3>3. UNCHANGED <<readSet, writeSet>> /\ \A u \in Txn : Numbers(u, G)' = new[u]
      BY <1>0, <1>5
    <3> QED
      BY <3>2, <3>3, ReadersAsNumbered
  <2> QED
    BY <2>1, <2>2, <2>4, <2>5 DEF SerialInv
<1>12. ASSUME SerialInv(H), ReadInv(H) PROVE ReadInv(G)'
  <2>0. /\ \A r \in readSet[t] : r.versionSeen <= data[r.key].version
        /\ \A u \in Txn : \A r \in readSet[u] : r.key \in Key
    BY <1>0 DEF VersionInv, ReadsNotAhead, Types, DeployTypeOK, ExecTypeOK, ReadEntry
  <2>1. ObservedCurrent'
    BY <1>0, <1>12 DEF ReadInv, ObservedCurrent
  <2>2. ReplacedKnown'
    <3>1. \A u \in Txn : \A r \in readSet[u] :
            r.versionSeen # data[r.key].version => data[r.key].version <= latestVersion[r.key]
      BY <1>12 DEF ReadInv, ReplacedKnown
    <3>2. \A k \in Key : data[k].version <= latestVersion[k] => data[k].version <= latestVersion'[k]
      BY <1>1, <1>2, <1>3
    <3> QED
      BY <1>0, <2>0, <3>1, <3>2 DEF ReplacedKnown
  <2>3. SentReadsCurrent(G)'
    <3>1. \A r \in readSet[t] : r.versionSeen = data[r.key].version
      BY <1>1, <1>4, <1>12, <2>0 DEF ReadInv, ReplacedKnown
    <3>2. \A r \in readSet[t], rec \in late :
            Writes(rec.txnID, r.key) => rec.commitSeq <= r.versionSeen
      BY <1>4, <1>12, LateNumbered DEF SerialInv, MapCoversNumbers, Types, DeployTypeOK
    <3>3. \A rec \in late : rec.txnID \in Txn
      BY LateNumbered DEF Types, DeployTypeOK
    <3> QED
      BY <1>0, <1>6, <2>0, <3>1, <3>2, <3>3 DEF SentReadsCurrent
  <2> QED
    BY <2>1, <2>2, <2>3 DEF ReadInv
<1>13. NumbersFresh(H) => NumbersFresh(G)'
  BY <1>0, <1>1 DEF NumbersFresh, Synced, Accepting
<1>14. Without({"get"} \cup MapFailures) => Without(MapFailures)
  BY DEF Without
<1> QED
  BY <1>7, <1>8, <1>9, <1>10, <1>11, <1>12, <1>13, <1>14 DEF DeployInv

LEMMA RecordType ==
    ASSUME Types, NEW u \in Txn, NEW n \in Nat
    PROVE  CommitRecordOf(Request(u), n) \in CommitRecord
<1>1. Request(u).txnID = u /\ Request(u).writeSet \in Seq(WriteEntry)
  BY DEF Request, Types, DeployTypeOK, ExecTypeOK
<1> DEFINE ws == Request(u).writeSet
<1>2. Len(ws) \in Nat /\ ws \in [1 .. Len(ws) -> WriteEntry]
  BY <1>1, LenProperties
<1>3. Record(Request(u), n) \in [1 .. Len(ws) -> CommitWrite]
  BY <1>2 DEF Record, WriteEntry, CommitWrite
<1>4. Record(Request(u), n) \in Seq(CommitWrite)
  BY <1>2, <1>3
<1> QED
  BY <1>1, <1>4 DEF CommitRecordOf, CommitRecord

\* The store takes a record only if that raises the version of all its keys.
LEMMA InstallFacts ==
    ASSUME Types, NEW u \in Txn, NEW n \in Nat \ {0}, Install(CommitRecordOf(Request(u), n))
    PROVE  \/ /\ data' = Installed(u, n)
              /\ installed' = [installed EXCEPT ![u] = n]
              /\ \A k \in Key : Writes(u, k) => data[k].version < n
              /\ ~ Rejected(Record(Request(u), n))
           \/ /\ UNCHANGED <<data, installed>>
              /\ Rejected(Record(Request(u), n))
<1> DEFINE rec == CommitRecordOf(Request(u), n)
           writes == Record(Request(u), n)
           ws == writeSet[u]
<1>1. rec.txnID = u /\ rec.commitSeq = n /\ rec.writes = writes
  BY DEF CommitRecordOf, Request
<1>2. Request(u).writeSet = ws /\ ws \in Seq(WriteEntry)
  BY DEF Request, Types, DeployTypeOK, ExecTypeOK
<1>3. /\ data' = IF Rejected(writes) THEN data ELSE Applied(data, writes)
      /\ installed' = IF Rejected(writes) THEN installed ELSE [installed EXCEPT ![u] = n]
  BY <1>1 DEF Install, ApplyCommit
<1>4. Applied(data, writes) = Installed(u, n)
  BY <1>2, AppliedRecord DEF Installed, Writes
<1>5. ASSUME ~ Rejected(writes), NEW k \in Key, Writes(u, k) PROVE data[k].version < n
  <2>1. Len(writes) = Len(ws) /\ Len(ws) \in Nat
    BY <1>2, RecordShape
  <2>2. PICK i \in 1 .. Len(ws) : ws[i].key = k
    BY <1>5 DEF Writes, KeysOf
  <2>3. writes[i].key = k /\ writes[i].newVersion = n
    BY <1>2, <2>2 DEF Record
  <2>4. data[k].version \in Nat
    BY DEF Types, DeployTypeOK, StoreTypeOK, ReadResult
  <2>5. ~ (Found(data[k]) /\ n <= data[k].version)
    BY <1>5, <2>1, <2>2, <2>3 DEF Rejected
  <2> QED
    BY <2>4, <2>5 DEF Found
<1> QED
  BY <1>3, <1>4, <1>5

LEMMA InstallTypes ==
    ASSUME Types, NEW u \in Txn, NEW n \in Nat \ {0}, Install(CommitRecordOf(Request(u), n))
    PROVE  StoreTypeOK' /\ installed' \in [Txn -> Nat]
<1>1. installed \in [Txn -> Nat] /\ StoreTypeOK
  BY DEF Types, DeployTypeOK, RemoteTypeOK
<1>2. Request(u).writeSet \in Seq(WriteEntry)
  BY DEF Request, Types, DeployTypeOK, ExecTypeOK
<1>3. ApplyCommit(Record(Request(u), n))
  BY DEF Install, CommitRecordOf
<1>4. StoreTypeOK'
  BY <1>1, <1>2, <1>3, ApplyTypeOK
<1> QED
  BY <1>1, <1>4, InstallFacts

\* Versions never go back, and a key's entry changes with its version only.
LEMMA InstallRaises ==
    ASSUME Types, NEW u \in Txn, NEW n \in Nat \ {0}, Install(CommitRecordOf(Request(u), n)),
           NEW k \in Key
    PROVE  /\ data[k].version \in Nat /\ data'[k].version \in Nat
           /\ data[k].version <= data'[k].version
           /\ data'[k] # data[k] => Writes(u, k) /\ data'[k].version = n /\ data[k].version < n
           /\ installed' # installed /\ Writes(u, k) => data'[k].version = n
<1>1. data[k].version \in Nat
  BY DEF Types, DeployTypeOK, StoreTypeOK, ReadResult
<1>2. CASE UNCHANGED <<data, installed>>
  BY <1>1, <1>2
<1>3. CASE /\ data' = Installed(u, n)
           /\ \A i \in Key : Writes(u, i) => data[i].version < n
  <2>1. /\ Writes(u, k) => data'[k].version = n
        /\ ~ Writes(u, k) => data'[k] = data[k]
    BY <1>3, InstalledVersion
  <2> QED
    BY <1>1, <1>3, <2>1
<1> QED
  BY <1>2, <1>3, InstallFacts

LEMMA InstallInv ==
    ASSUME Types, Types', NEW H, NEW G, DeployInv(H),
           NEW u \in Txn, NEW n \in Nat \ {0}, n <= commitSeq, n \in Numbers(u, H),
           Install(CommitRecordOf(Request(u), n)), late' \subseteq late,
           UNCHANGED <<execVars, latestVersion, commitSeq, faults, calls, phase, server>>,
           \/ G = {}
           \/ G = H /\ n # commitSeq /\ \E rec \in late : rec.txnID = u /\ rec.commitSeq = n,
           \A v \in Txn : Numbers(v, G)' \subseteq Numbers(v, H),
           ClientInv(G)'
    PROVE  DeployInv(G)'
<1>0. /\ UNCHANGED <<idCounter, state, readSet, writeSet, observed>>
      /\ ClientInv(H) /\ VersionInv /\ commitSeq \in Nat
  BY DEF execVars, DeployInv, Types, CertTypeOK
<1>1. ASSUME NEW bad, Without(bad)' PROVE Without(bad)
  BY <1>1 DEF Without, Happened
<1>2. \A k \in Key : /\ data[k].version \in Nat /\ data'[k].version \in Nat
                     /\ data[k].version <= data'[k].version
                     /\ data'[k] # data[k] => Writes(u, k) /\ data'[k].version = n
                                              /\ data[k].version < n
                     /\ installed' # installed /\ Writes(u, k) => data'[k].version = n
  BY InstallRaises
<1>3. /\ \A v \in Txn, k \in Key : Writes(v, k)' <=> Writes(v, k)
      /\ \A v \in Txn : \A r \in readSet[v] : r.key \in Key /\ r.versionSeen \in Nat
  BY <1>0 DEF Writes, Types, DeployTypeOK, ExecTypeOK, ReadEntry
<1>4. VersionInv'
  <2>1. InstalledHeld'
    <3>1. \A v \in Txn : /\ installed[v] \in Nat
                         /\ installed'[v] = installed[v] \/ (v = u /\ installed'[v] = n)
      BY InstallFacts DEF Types, DeployTypeOK, RemoteTypeOK
    <3> QED
      BY <1>0, <1>2, <1>3, <3>1 DEF VersionInv, InstalledHeld
  <2>2. ReadsNotAhead'
    BY <1>0, <1>2, <1>3 DEF VersionInv, ReadsNotAhead
  <2>3. ReadsRecorded' /\ MapBounded'
    BY <1>0 DEF VersionInv, ReadsRecorded, Seen, MapBounded
  <2> QED
    BY <2>1, <2>2, <2>3 DEF VersionInv
<1>5. SerialInv(H) => SerialInv(G)'
  <2>1. \A k \in Key : latestVersion[k] \in Nat
    BY DEF Types, CertTypeOK
  <2> QED
    BY <1>0, <2>1, SerialShrinks
<1>6. ASSUME SerialInv(H), ReadInv(H) PROVE ReadInv(G)'
  <2>1. ObservedCurrent'
    <3>1. \A v \in Txn : \A r \in readSet[v] :
            r.versionSeen = data'[r.key].version => data'[r.key] = data[r.key]
      BY <1>0, <1>2, <1>3 DEF VersionInv, ReadsNotAhead
    <3> QED
      BY <1>0, <1>6, <3>1 DEF ReadInv, ObservedCurrent
  <2>2. ReplacedKnown'
    <3>1. \A k \in Key : Writes(u, k) => n <= latestVersion[k]
      BY <1>6 DEF SerialInv, MapCoversNumbers
    <3> QED
      BY <1>0, <1>2, <1>3, <1>6, <3>1 DEF ReadInv, ReplacedKnown
  <2>3. SentReadsCurrent(G)'
    <3>1. CASE G = {}
      BY <3>1 DEF SentReadsCurrent
    <3>2. CASE G = H /\ \E rec \in late : rec.txnID = u /\ rec.commitSeq = n
      <4>1. \A t \in H : t \in Txn
        BY <1>0 DEF ClientInv, Unanswered, Types, DeployTypeOK
      <4>2. \A t \in H : \A r \in readSet[t] : Writes(u, r.key) => n <= data[r.key].version
        BY <1>6, <3>2 DEF ReadInv, SentReadsCurrent
      <4>3. \A t \in H : \A r \in readSet[t] : data'[r.key] = data[r.key]
        BY <1>2, <1>3, <4>1, <4>2
      <4>4. \A rec \in late : rec.txnID \in Txn
        BY LateNumbered DEF Types, DeployTypeOK
      <4> QED
        BY <1>0, <1>3, <1>6, <3>2, <4>1, <4>3, <4>4 DEF ReadInv, SentReadsCurrent
    <3> QED
      BY <3>1, <3>2
  <2> QED
    BY <2>1, <2>2, <2>3 DEF ReadInv
<1>7. NumbersFresh(H) => NumbersFresh(G)'
  <2>1. Synced' => Synced
    BY DEF Synced, Accepting
  <2>2. \A k \in Key : data'[k].version = data[k].version \/ data'[k].version = n
    BY <1>2
  <2> QED
    BY <1>0, <1>2, <2>1, <2>2 DEF NumbersFresh
<1>8. Without({"get"} \cup MapFailures) => Without(MapFailures)
  BY DEF Without
<1> QED
  BY <1>1, <1>4, <1>5, <1>6, <1>7, <1>8 DEF DeployInv
\* The store executes ApplyCommit for the certifier, which answers t.
LEMMA HandOverInv ==
    ASSUME Types, NEW H, NEW G, NEW t \in Txn, H = {t}, G = {}, DeployInv(H),
           Install(CommitRecordOf(Request(t), commitSeq)),
           NEW res \in TxnResult, res # NoResult, result' = [result EXCEPT ![t] = res],
           UNCHANGED <<execVars, latestVersion, commitSeq, late, strays, faults, deployVars>>
    PROVE  Types' /\ DeployInv(G)'
<1>0. /\ UNCHANGED <<idCounter, state, readSet, writeSet, observed, calls, phase, server>>
      /\ UNCHANGED <<latestVersion, commitSeq, late, strays, faults>>
      /\ ClientInv(H) /\ VersionInv
  BY DEF execVars, deployVars, DeployInv
<1>1. /\ t \in calls /\ result[t] = NoResult /\ commitSeq \in Nat \ {0}
      /\ installed[t] = 0 /\ server # "down" /\ phase = "ready"
  BY <1>0 DEF ClientInv, Unanswered, NotRunning, Types, CertTypeOK
<1>2. /\ \A v \in Txn \ {t} : result'[v] = result[v] /\ installed'[v] = installed[v]
      /\ result'[t] = res
      /\ installed'[t] \in {0, commitSeq}
  BY <1>1, InstallFacts DEF Types, DeployTypeOK, RemoteTypeOK, CertTypeOK
<1>3. Types'
  <2>1. StoreTypeOK' /\ installed' \in [Txn -> Nat]
    BY <1>1, InstallTypes
  <2>2. CertTypeOK'
    BY <1>0 DEF Types, CertTypeOK
  <2> QED
    BY <1>0, <2>1, <2>2 DEF Types, DeployTypeOK, ExecTypeOK, RemoteTypeOK
<1>4. \A v \in Txn : Numbers(v, G)' \subseteq Numbers(v, H)
  <2>1. ASSUME NEW v \in Txn, NEW n \in Numbers(v, G)' PROVE n \in Numbers(v, H)
    <3>1. \/ n # 0 /\ n = installed'[v]
          \/ \E rec \in late : rec.txnID = v /\ rec.commitSeq = n
      BY <1>0, <2>1 DEF Numbers
    <3> QED
      BY <1>2, <3>1, NumbersIn
  <2> QED
    BY <2>1
<1>5. ClientInv(G)'
  <2>1. NotRunning(G)' /\ NotBegun'
    BY <1>0, <1>1 DEF ClientInv, NotRunning, NotBegun
  <2>2. SentNotActive(G)'
    BY <1>0, <1>1, <1>2, <1>4 DEF ClientInv, SentNotActive
  <2>3. LateRecords(G)'
    <3>1. /\ \A u \in Txn : \A n : CommitRecordOf(Request(u), n)' = CommitRecordOf(Request(u), n)
          /\ \A rec \in late : rec.txnID \in Txn /\ rec.txnID # t
      BY <1>0, SameRecord, LateNumbered DEF Types, DeployTypeOK, ClientInv, LateRecords
    <3> QED
      BY <1>0, <1>2, <3>1 DEF ClientInv, LateRecords
  <2>4. Unanswered(G)'
    BY <1>0, <1>1, <1>2 DEF ClientInv, Unanswered, Types, DeployTypeOK
  <2>5. ReportedAnswer'
    BY <1>0, <1>1, <1>2 DEF ClientInv, ReportedAnswer, IsCommitted, NoResult
  <2>6. StrayRecords(G)'
    <3>0. StrayRecords(H)
      BY <1>0 DEF ClientInv
    <3>1. \A rec \in strays : rec.txnID \in Txn /\ rec.txnID # t
      BY <3>0 DEF StrayRecords, Types, DeployTypeOK, RemoteTypeOK, CommitRecord
    <3>2. \A rec \in strays : /\ installed'[rec.txnID] = 0 /\ rec.txnID \notin G
                              /\ state[rec.txnID] \notin {"unborn", "active"}
                              /\ rec.txnID \in calls => result'[rec.txnID] # NoResult
      BY <1>2, <3>0, <3>1 DEF StrayRecords
    <3> QED
      BY <1>0, <3>0, <3>2, StraysKept
  <2> QED
    BY <2>1, <2>2, <2>3, <2>4, <2>5, <2>6 DEF ClientInv
<1>6. commitSeq \in Numbers(t, H) /\ late' \subseteq late /\ commitSeq <= commitSeq
  BY <1>0, <1>1, NumbersIn
<1> QED
  BY <1>0, <1>1, <1>3, <1>4, <1>5, <1>6, InstallInv

\* The store executes an ApplyCommit that the certifier has given up.
LEMMA ApplyLateInv ==
    ASSUME Types, NEW H, DeployInv(H), NEW rec \in late, ApplyLate(rec), UNCHANGED deployVars
    PROVE  Types' /\ DeployInv(H)'
<1> DEFINE u == rec.txnID
           n == rec.commitSeq
<1>0. /\ UNCHANGED <<idCounter, state, readSet, writeSet, observed, calls, phase, server>>
      /\ UNCHANGED <<latestVersion, commitSeq, result, strays, faults>>
      /\ UNCHANGED execVars
      /\ late' = late \ {rec}
      /\ ClientInv(H) /\ VersionInv
  BY DEF ApplyLate, execVars, certVars, deployVars, DeployInv
<1>1. /\ u \in Txn /\ n \in Nat \ {0} /\ n <= commitSeq /\ n \in Numbers(u, H)
      /\ rec = CommitRecordOf(Request(u), n)
      /\ H # {} => n # commitSeq
      /\ installed[u] = 0 /\ u \notin H
      /\ u \in calls => result[u] # NoResult
      /\ \A other \in late' : other.txnID # u
  <2>1. u \in Txn /\ n \in Numbers(u, H)
    BY LateNumbered DEF Types, DeployTypeOK
  <2>2. commitSeq \in Nat
    BY DEF Types, CertTypeOK
  <2> QED
    BY <1>0, <2>1, <2>2 DEF ClientInv, LateRecords
<1> HIDE DEF u, n
<1>2. Install(CommitRecordOf(Request(u), n))
  BY <1>1 DEF ApplyLate
<1>3. (\A v \in Txn \ {u} : installed'[v] = installed[v]) /\ installed'[u] \in {0, n}
  BY <1>1, <1>2, InstallFacts DEF Types, DeployTypeOK, RemoteTypeOK
<1>4. Types'
  <2>1. StoreTypeOK' /\ installed' \in [Txn -> Nat]
    BY <1>1, <1>2, InstallTypes
  <2> QED
    BY <1>0, <2>1 DEF Types, DeployTypeOK, ExecTypeOK, RemoteTypeOK, CertTypeOK
<1>5. \A v \in Txn : Numbers(v, H)' \subseteq Numbers(v, H)
  <2>1. ASSUME NEW v \in Txn, NEW m \in Numbers(v, H)' PROVE m \in Numbers(v, H)
    <3>1. \/ m # 0 /\ m = installed'[v]
          \/ \E q \in late : q.txnID = v /\ q.commitSeq = m
          \/ v \in H /\ m = commitSeq
      BY <1>0, <2>1 DEF Numbers
    <3> QED
      BY <1>1, <1>3, <3>1, NumbersIn
  <2> QED
    BY <2>1
<1>6. ClientInv(H)'
  <2>1. NotRunning(H)' /\ NotBegun'
    BY <1>0 DEF ClientInv, NotRunning, NotBegun, Happened
  <2>2. SentNotActive(H)'
    BY <1>0, <1>5 DEF ClientInv, SentNotActive
  <2>3. LateRecords(H)'
    <3>1. /\ \A v \in Txn : \A m : CommitRecordOf(Request(v), m)' = CommitRecordOf(Request(v), m)
          /\ \A q \in late : q.txnID \in Txn
      BY <1>0, SameRecord, LateNumbered DEF Types, DeployTypeOK
    <3> QED
      BY <1>0, <1>1, <1>3, <3>1 DEF ClientInv, LateRecords
  <2>4. Unanswered(H)'
    BY <1>0, <1>1, <1>3 DEF ClientInv, Unanswered, Types, DeployTypeOK, Writes
  <2>5. ReportedAnswer'
    BY <1>0 DEF ClientInv, ReportedAnswer, IsCommitted
  <2>6. StrayRecords(H)'
    <3>0. StrayRecords(H)
      BY <1>0 DEF ClientInv
    <3>1. \A q \in strays : q.txnID \in Txn /\ q.txnID # rec.txnID
      BY <3>0 DEF StrayRecords, Types, DeployTypeOK, RemoteTypeOK, CommitRecord
    <3>2. \A q \in strays : /\ installed'[q.txnID] = 0 /\ q.txnID \notin H
                            /\ state[q.txnID] \notin {"unborn", "active"}
                            /\ q.txnID \in calls => result[q.txnID] # NoResult
      BY <1>3, <3>0, <3>1 DEF StrayRecords, u
    <3> QED
      BY <1>0, <3>0, <3>2, StraysKept
  <2> QED
    BY <2>1, <2>2, <2>3, <2>4, <2>5, <2>6 DEF ClientInv
<1>7. /\ late' \subseteq late
      /\ \/ H = {}
         \/ H = H /\ n # commitSeq /\ \E q \in late : q.txnID = u /\ q.commitSeq = n
  BY <1>0, <1>1 DEF u, n
<1>8. UNCHANGED <<execVars, latestVersion, commitSeq, faults, calls, phase, server>>
  BY <1>0
<1>9. DeployInv(H)'
  BY <1>1, <1>2, <1>4, <1>5, <1>6, <1>7, <1>8, InstallInv
<1> QED
  BY <1>4, <1>9
-----------------------------------------------------------------------------
(***************************************************************************)
(* Start-up: a client that loads the store, a certifier that starts from   *)
(* what DumpState returns.                                                 *)
(***************************************************************************)

\* The store has seen finitely many numbers, so that MaxVersion has a meaning.
StoreBounded == \E n \in Nat : \A k \in Key : data[k].version <= n

LEMMA MaxVersionFacts ==
    ASSUME NEW d, \A k \in Key : d[k].version \in Nat,
           \E n \in Nat : \A k \in Key : d[k].version <= n
    PROVE  MaxVersion(d) \in Nat /\ \A k \in Key : d[k].version <= MaxVersion(d)
<1> DEFINE V == {0} \cup {d[k].version : k \in Key}
<1>1. PICK n \in Nat : \A k \in Key : d[k].version <= n
  OBVIOUS
<1>2. V \subseteq Nat /\ V # {} /\ \A x \in V : x <= n
  BY <1>1
<1>3. MaxVersion(d) = Max(V)
  BY DEF MaxVersion
<1>4. \A k \in Key : d[k].version \in V
  OBVIOUS
<1> HIDE DEF V
<1>5. Max(V) \in V /\ \A y \in V : y <= Max(V)
  BY <1>1, <1>2, BoundedMax
<1> QED
  BY <1>2, <1>3, <1>4, <1>5

\* A store without keys, as a failed DumpState makes it appear.
LEMMA EmptyDump ==
    /\ NewMemStore \in [Key -> ReadResult]
    /\ \A k \in Key : NewMemStore[k].version = 0
    /\ MaxVersion(NewMemStore) \in Nat
<1>1. NewMemStore \in [Key -> ReadResult] /\ \A k \in Key : NewMemStore[k].version = 0
  BY ValueAssumption DEF NewMemStore, NotFound, ReadResult
<1> QED
  BY <1>1, MaxVersionFacts

\* What a certifier learns from DumpState.
LEMMA DumpFacts ==
    ASSUME StoreTypeOK, StoreBounded, NEW dump \in {data, NewMemStore}
    PROVE  /\ VersionsIn(dump) \in [Key -> Nat]
           /\ MaxVersion(dump) \in Nat
           /\ \A k \in Key : VersionsIn(dump)[k] <= MaxVersion(dump)
           /\ \A k \in Key : VersionsIn(dump)[k] = dump[k].version
<1>1. dump \in [Key -> ReadResult] /\ \A k \in Key : dump[k].version \in Nat
  BY EmptyDump DEF StoreTypeOK, ReadResult
<1>2. \E n \in Nat : \A k \in Key : dump[k].version <= n
  BY EmptyDump DEF StoreBounded
<1>3. MaxVersion(dump) \in Nat /\ \A k \in Key : dump[k].version <= MaxVersion(dump)
  BY <1>1, <1>2, MaxVersionFacts
<1> QED
  BY <1>1, <1>3 DEF VersionsIn

\* A history without transactions, but for records of an earlier one.
NothingRuns ==
    /\ calls = {} /\ late = {}
    /\ \A t \in Txn : /\ state[t] \notin {"active", "submitted"}
                      /\ readSet[t] = {} /\ writeSet[t] = << >> /\ observed[t] = {}
                      /\ result[t] = NoResult
                      /\ installed[t] # 0 => Happened("stray") /\ state[t] # "unborn"

LEMMA FreshHistory ==
    ASSUME Types', NEW H, H = {}, NothingRuns', NotBegun', StrayRecords(H)', MapBounded',
           Without(SyncFailures)' /\ Synced' => \A k \in Key : data'[k].version <= commitSeq'
    PROVE  DeployInv(H)'
<1>0. \A t \in Txn : /\ readSet'[t] = {} /\ writeSet'[t] = << >> /\ observed'[t] = {}
                     /\ result'[t] = NoResult
                     /\ installed'[t] # 0 => Happened("stray")' /\ state'[t] # "unborn"
                     /\ state'[t] \notin {"active", "submitted"}
  BY DEF NothingRuns
<1>1. calls' = {} /\ late' = {}
  BY DEF NothingRuns
<1>2. \A t \in Txn : Numbers(t, H)' # {} => installed'[t] # 0
  BY <1>0, <1>1 DEF Numbers
<1>3. ClientInv(H)'
  <2>1. NotRunning(H)' /\ LateRecords(H)' /\ Unanswered(H)'
    BY <1>0, <1>1 DEF NotRunning, LateRecords, Unanswered
  <2>2. SentNotActive(H)'
    BY <1>0, <1>1, <1>2 DEF SentNotActive
  <2>3. ReportedAnswer'
    BY <1>0 DEF ReportedAnswer
  <2> QED
    BY <2>1, <2>2, <2>3 DEF ClientInv
<1>4. VersionInv'
  <2>1. \A k \in Key : data'[k].version \in Nat
    BY DEF Types, DeployTypeOK, StoreTypeOK, ReadResult
  <2> QED
    BY <1>0, <2>1 DEF VersionInv, InstalledHeld, ReadsNotAhead, ReadsRecorded, Writes, KeysOf
<1>5. SerialInv(H)'
  BY <1>0 DEF SerialInv, MapCoversNumbers, ReadsBelow, WritersSerial, ReadersSerial, Writes,
              KeysOf
<1>6. ReadInv(H)'
  BY <1>0 DEF ReadInv, ObservedCurrent, ReplacedKnown, SentReadsCurrent
<1>7. Without(SyncFailures)' => NumbersFresh(H)'
  BY DEF NumbersFresh
<1> QED
  BY <1>3, <1>4, <1>5, <1>6, <1>7 DEF DeployInv

LEMMA InitInv ==
    ASSUME DeployInit, NewCertifier, NEW H, H = {}
    PROVE  Types /\ DeployInv(H) /\ StoreBounded
<1>0. /\ data = NewMemStore /\ latestVersion = VersionsIn(data)
      /\ commitSeq = MaxVersion(data) /\ result = [t \in Txn |-> NoResult]
      /\ late = {} /\ strays = {} /\ installed = [t \in Txn |-> 0] /\ calls = {}
      /\ faults = [what \in Faulty |-> 0]
      /\ phase = "empty" /\ server = "up"
  BY DEF DeployInit, NewRemoteStore, NewCertifier, DumpState
<1>1. \A t \in Txn : /\ readSet[t] = {} /\ writeSet[t] = << >> /\ observed[t] = {}
                     /\ result[t] = NoResult /\ installed[t] = 0 /\ state[t] = "unborn"
  BY <1>0 DEF DeployInit, NewEngine
<1>2. StoreTypeOK /\ StoreBounded /\ \A k \in Key : data[k].version \in Nat
  BY <1>0, EmptyDump DEF StoreTypeOK, StoreBounded, ReadResult
<1>3. Types
  <2>1. CertTypeOK
    BY <1>0, <1>2, DumpFacts DEF CertTypeOK, NoResult, TxnResult, Decision
  <2> QED
    BY <1>0, <1>2, <2>1, NewEngineTypeOK DEF DeployInit, Types, DeployTypeOK, RemoteTypeOK
<1>4. \A t \in Txn : Numbers(t, H) = {}
  BY <1>0, <1>1 DEF Numbers
<1>5. ClientInv(H)
  BY <1>0, <1>1, <1>4
  DEF ClientInv, NotRunning, NotBegun, SentNotActive, LateRecords, StrayRecords, Unanswered,
      ReportedAnswer
<1>6. VersionInv
  <2>1. MapBounded
    BY <1>0, <1>2, DumpFacts DEF MapBounded
  <2> QED
    BY <1>1, <1>2, <2>1 DEF VersionInv, InstalledHeld, ReadsNotAhead, ReadsRecorded
<1>7. SerialInv(H) /\ ReadInv(H)
  BY <1>1, <1>4 DEF SerialInv, MapCoversNumbers, ReadsBelow, WritersSerial, ReadersSerial,
                    ReadInv, ObservedCurrent, ReplacedKnown, SentReadsCurrent
<1>8. NumbersFresh(H)
  BY <1>0 DEF NumbersFresh, Synced
<1> QED
  BY <1>2, <1>3, <1>5, <1>6, <1>7, <1>8 DEF DeployInv
LEMMA LoadedFacts ==
    ASSUME StoreTypeOK, StoreBounded, NEW keys \in SUBSET Key, NEW initial \in [keys -> Value],
           data' = Loaded(data, initial)
    PROVE  StoreTypeOK' /\ StoreBounded'
<1>1. \A k \in Key : data[k] \in ReadResult
  BY DEF StoreTypeOK
<1>2. StoreTypeOK'
  BY <1>1 DEF StoreTypeOK, Loaded, ReadResult
<1>3. PICK n \in Nat : \A k \in Key : data[k].version <= n
  BY DEF StoreBounded
<1>4. \A k \in Key : data[k].version \in Nat
  BY <1>1 DEF ReadResult
<1>5. \A k \in Key : data'[k].version \in {1, data[k].version}
  BY DEF Loaded
<1>6. n + 1 \in Nat /\ \A k \in Key : data'[k].version <= n + 1
  BY <1>3, <1>4, <1>5
<1> QED
  BY <1>2, <1>6 DEF StoreBounded

\* Before the first transaction a step of the start-up begins no history.
LEMMA StillNothing ==
    ASSUME Types, NEW H, ClientInv(H), phase # "ready", FaultsGrow,
           UNCHANGED <<state, readSet, writeSet, observed, result, late, strays, installed, calls>>
    PROVE  NothingRuns' /\ StrayRecords(H)'
<1>1. Happened("stray") => Happened("stray")'
  BY StraySince DEF Types, DeployTypeOK
<1>2. \A t \in Txn : installed[t] # 0 => state[t] # "unborn"
  BY DEF ClientInv, SentNotActive, Numbers
<1>3. NothingRuns'
  BY <1>1, <1>2 DEF ClientInv, NotRunning, NothingRuns
<1>4. H = {} /\ StrayRecords(H) /\ calls = {} /\ late = {}
  BY DEF ClientInv, NotRunning
<1>5. \A rec \in strays : installed[rec.txnID] = 0 /\ state[rec.txnID] \notin {"unborn", "active"}
  BY <1>4 DEF StrayRecords
<1>6. StrayRecords(H)'
  BY <1>4, <1>5, StraysKept
<1> QED
  BY <1>3, <1>6

LEMMA LoadInv ==
    ASSUME Types, StoreBounded, NEW H, DeployInv(H),
           NEW keys \in SUBSET Key, NEW initial \in [keys -> Value], Load(initial)
    PROVE  Types' /\ DeployInv(H)' /\ StoreBounded'
<1>0. /\ phase = "empty" /\ phase' = "loaded" /\ LoadInitialData(initial)
      /\ UNCHANGED <<idCounter, state, readSet, writeSet, observed>>
      /\ UNCHANGED <<latestVersion, commitSeq, result, late, strays, installed, calls, server>>
  BY DEF Load, execVars, certVars
<1>1. FaultsGrow
  BY <1>0, FailsGrow, UnchangedGrow DEF LoadInitialData, Types, DeployTypeOK
<1>2. StoreTypeOK' /\ StoreBounded'
  <2>1. data' = Loaded(data, initial) \/ data' = data
    BY <1>0 DEF LoadInitialData
  <2>2. CASE data' = data
    BY <2>2 DEF Types, DeployTypeOK, StoreTypeOK, StoreBounded
  <2> QED
    BY <2>1, <2>2, LoadedFacts DEF Types, DeployTypeOK
<1>3. Types'
  BY <1>0, <1>1, <1>2
  DEF Types, DeployTypeOK, ExecTypeOK, RemoteTypeOK, CertTypeOK, FaultsGrow
<1>4. H = {} /\ NothingRuns' /\ StrayRecords(H)'
  BY <1>0, <1>1, StillNothing DEF DeployInv, ClientInv, NotRunning
<1>5. NotBegun' /\ MapBounded' /\ ~ Synced'
  BY <1>0 DEF DeployInv, ClientInv, VersionInv, NotBegun, MapBounded, Synced
<1> QED
  BY <1>2, <1>3, <1>4, <1>5, FreshHistory

LEMMA ReloadInv ==
    ASSUME Types, StoreBounded, NEW H, DeployInv(H),
           NEW keys \in SUBSET Key, NEW initial \in [keys -> Value], Reload(initial)
    PROVE  H = {} /\ Types' /\ DeployInv(H)' /\ StoreBounded'
<1>0. /\ \A t \in Txn : state[t] \notin {"active", "submitted"}
      /\ \A t \in calls : result[t] # NoResult
      /\ strays' = strays \cup late /\ late' = {}
      /\ Fails("reload") /\ phase' = "loaded" /\ data' = Loaded(data, initial)
      /\ readSet' = [t \in Txn |-> {}] /\ writeSet' = [t \in Txn |-> << >>]
      /\ observed' = [t \in Txn |-> {}] /\ result' = [t \in Txn |-> NoResult]
      /\ installed' = [t \in Txn |-> 0] /\ calls' = {}
      /\ UNCHANGED <<idCounter, state, latestVersion, commitSeq, server>>
  BY DEF Reload
<1>1. FaultsGrow
  BY <1>0, FailsGrow DEF Types, DeployTypeOK
<1>2. StoreTypeOK' /\ StoreBounded'
  BY <1>0, LoadedFacts DEF Types, DeployTypeOK
<1>3. Types'
  <2>1. ExecTypeOK'
    BY <1>0 DEF Types, DeployTypeOK, ExecTypeOK
  <2>2. CertTypeOK'
    BY <1>0 DEF Types, CertTypeOK, NoResult, TxnResult, Decision
  <2>3. RemoteTypeOK'
    BY <1>0, <1>1 DEF Types, DeployTypeOK, RemoteTypeOK, FaultsGrow
  <2> QED
    BY <1>0, <1>2, <2>1, <2>2, <2>3 DEF Types, DeployTypeOK
<1>4. H = {}
  BY <1>0 DEF DeployInv, ClientInv, Unanswered
<1>5. NothingRuns'
  BY <1>0 DEF NothingRuns
<1>6. NotBegun' /\ MapBounded' /\ ~ Synced'
  BY <1>0 DEF DeployInv, ClientInv, VersionInv, NotBegun, MapBounded, Synced
<1>7. StrayRecords(H)'
  BY <1>0, <1>4, StraysGrow DEF DeployInv, ClientInv
<1> QED
  BY <1>2, <1>3, <1>4, <1>5, <1>6, <1>7, FreshHistory

LEMMA SyncInv ==
    ASSUME Types, StoreBounded, NEW H, DeployInv(H), Sync
    PROVE  H = {} /\ Types' /\ DeployInv(H)' /\ StoreBounded'
<1>0. /\ phase = "loaded" /\ phase' = "ready"
      /\ UNCHANGED <<idCounter, state, readSet, writeSet, observed>>
      /\ UNCHANGED <<data, result, late, strays, installed, calls, server>>
  BY DEF Sync, SyncFromStorage, execVars, certVars
<1>1. H = {} /\ calls = {}
  BY <1>0 DEF DeployInv, ClientInv, NotRunning
<1>2. /\ commitSeq \in Nat /\ latestVersion \in [Key -> Nat] /\ MapBounded
      /\ \A k \in Key : data[k].version \in Nat
  BY DEF Types, CertTypeOK, DeployInv, VersionInv, DeployTypeOK, StoreTypeOK, ReadResult
<1>3. /\ FaultsGrow
      /\ latestVersion' \in [Key -> Nat] /\ commitSeq' \in Nat /\ MapBounded'
      /\ Without(SyncFailures)' /\ Synced' => \A k \in Key : data'[k].version <= commitSeq'
  <2>1. ASSUME NEW dump \in {DumpState, NewMemStore},
               Accepting, Dumped(dump, "dump"), SyncFromStorage(dump)
        PROVE  /\ FaultsGrow
               /\ latestVersion' \in [Key -> Nat] /\ commitSeq' \in Nat /\ MapBounded'
               /\ Without(SyncFailures)' /\ Synced' => \A k \in Key : data'[k].version <= commitSeq'
    <3>1. dump \in {data, NewMemStore}
      BY DEF DumpState
    <3>2. /\ VersionsIn(dump) \in [Key -> Nat] /\ MaxVersion(dump) \in Nat
          /\ \A k \in Key : VersionsIn(dump)[k] <= MaxVersion(dump)
          /\ \A k \in Key : VersionsIn(dump)[k] = dump[k].version
      BY <3>1, DumpFacts DEF Types, DeployTypeOK
    <3>3. /\ latestVersion' = VersionsIn(dump)
          /\ commitSeq' = IF MaxVersion(dump) > commitSeq THEN MaxVersion(dump) ELSE commitSeq
      BY <2>1 DEF SyncFromStorage
    <3>4. FaultsGrow
      BY <2>1, FailsGrow, UnchangedGrow DEF Dumped, Types, DeployTypeOK
    <3>5. MaxVersion(dump) <= commitSeq' /\ commitSeq' \in Nat
      BY <1>2, <3>2, <3>3
    <3>6. MapBounded'
      BY <3>2, <3>3, <3>5 DEF MapBounded
    <3>7. Without(SyncFailures)' => dump = data
      BY <2>1, WithoutFailure DEF Dumped, DumpState, SyncFailures, Types, DeployTypeOK
    <3> QED
      BY <1>0, <1>2, <3>2, <3>3, <3>4, <3>5, <3>6, <3>7
  <2>2. CASE Fails("sync") /\ UNCHANGED certVars
    <3>1. ~ Without(SyncFailures)'
      BY <2>2, WithoutFailure DEF SyncFailures, Types, DeployTypeOK
    <3>2. FaultsGrow
      BY <2>2, FailsGrow DEF Types, DeployTypeOK
    <3> QED
      BY <1>2, <2>2, <3>1, <3>2 DEF certVars, MapBounded
  <2>3. CASE ~ Accepting /\ UNCHANGED <<faults, certVars>>
    <3>1. ~ Synced'
      BY <1>0, <1>1, <2>3 DEF Synced, Accepting
    <3>2. FaultsGrow
      BY <2>3, UnchangedGrow DEF Types, DeployTypeOK
    <3> QED
      BY <1>2, <2>3, <3>1, <3>2 DEF certVars, MapBounded
  <2> QED
    BY <2>1, <2>2, <2>3 DEF Sync
<1>4. Types'
  <2>1. CertTypeOK'
    BY <1>0, <1>3 DEF Types, CertTypeOK
  <2> QED
    BY <1>0, <1>3, <2>1
    DEF Types, DeployTypeOK, StoreTypeOK, ExecTypeOK, RemoteTypeOK, FaultsGrow
<1>5. NotBegun'
  BY <1>0 DEF DeployInv, ClientInv, NotBegun
<1>6. StoreBounded'
  BY <1>0 DEF StoreBounded
<1>7. NothingRuns' /\ StrayRecords(H)'
  BY <1>0, <1>3, StillNothing DEF DeployInv
<1> QED
  BY <1>1, <1>3, <1>4, <1>5, <1>6, <1>7, FreshHistory
\* A new certifier starts from the live store, while transactions are under way.
LEMMA RestartInv ==
    ASSUME Types, StoreBounded, NEW H, DeployInv(H), Restart
    PROVE  H = {} /\ Types' /\ DeployInv(H)' /\ StoreBounded'
<1>0. /\ server = "down" /\ server' = "up"
      /\ strays' = strays \cup late /\ late' = {}
      /\ UNCHANGED <<idCounter, state, readSet, writeSet, observed>>
      /\ UNCHANGED <<data, result, installed, calls, phase>>
      /\ ClientInv(H) /\ VersionInv
  BY DEF Restart, execVars, DeployInv
<1>1. PICK dump \in {DumpState, NewMemStore} :
        /\ Dumped(dump, "boot")
        /\ latestVersion' = VersionsIn(dump) /\ commitSeq' = MaxVersion(dump)
  BY DEF Restart
<1>2. /\ latestVersion' \in [Key -> Nat] /\ commitSeq' \in Nat /\ MapBounded'
      /\ \A k \in Key : latestVersion'[k] = dump[k].version
  <2>1. dump \in {data, NewMemStore}
    BY DEF DumpState
  <2> QED
    BY <1>1, <2>1, DumpFacts DEF MapBounded, Types, DeployTypeOK
<1>3. FaultsGrow
  BY <1>1, FailsGrow, UnchangedGrow DEF Dumped, Types, DeployTypeOK
<1>4. Types'
  <2>1. CertTypeOK'
    BY <1>0, <1>2 DEF Types, CertTypeOK
  <2> QED
    BY <1>0, <1>3, <2>1
    DEF Types, DeployTypeOK, StoreTypeOK, ExecTypeOK, RemoteTypeOK, FaultsGrow
<1>5. H = {}
  BY <1>0 DEF ClientInv, Unanswered
<1>6. \A u \in Txn : /\ Numbers(u, H)' \subseteq Numbers(u, H)
                     /\ \A n \in Numbers(u, H)' : n = installed[u]
  BY <1>0, <1>5 DEF Numbers
<1>7. \A k \in Key : data[k].version \in Nat
  BY DEF Types, DeployTypeOK, StoreTypeOK, ReadResult
<1>8. ClientInv(H)'
  <2>0. Happened("stray") => Happened("stray")'
    BY <1>3, StraySince DEF Types, DeployTypeOK
  <2>1. NotRunning(H)' /\ NotBegun' /\ LateRecords(H)' /\ ReportedAnswer'
    BY <1>0, <2>0 DEF ClientInv, NotRunning, NotBegun, LateRecords, ReportedAnswer, IsCommitted
  <2>2. SentNotActive(H)'
    BY <1>0, <1>6 DEF ClientInv, SentNotActive
  <2>3. Unanswered(H)'
    BY <1>0, <1>5 DEF ClientInv, Unanswered
  <2>4. StrayRecords(H)'
    <3>1. \A u \in Txn : installed'[u] = installed[u] /\ state'[u] = state[u]
      BY <1>0
    <3> QED
      BY <1>0, <1>5, <3>1, StraysGrow DEF ClientInv
  <2> QED
    BY <2>1, <2>2, <2>3, <2>4 DEF ClientInv
<1>9. VersionInv'
  BY <1>0, <1>2 DEF VersionInv, InstalledHeld, ReadsNotAhead, ReadsRecorded, Seen, Writes
<1>10. ASSUME NEW bad, Without(bad)' PROVE Without(bad) /\ ("boot" \in bad => dump = data)
  BY <1>1, <1>3, <1>10, WithoutBefore, WithoutFailure DEF Dumped, DumpState, Types, DeployTypeOK
<1>11. ASSUME dump = data
       PROVE  \A k \in Key : latestVersion'[k] = data[k].version /\ data[k].version <= commitSeq'
  BY <1>1, <1>2, <1>11 DEF MapBounded
<1>12. Without(MapFailures)' => SerialInv(H)'
  <2>1. SUFFICES ASSUME SerialInv(H), dump = data PROVE SerialInv(H)'
    BY <1>10 DEF DeployInv, MapFailures
  <2>2. MapCoversNumbers(H)'
    <3>1. \A u \in Txn, k \in Key : Writes(u, k) => installed[u] <= data[k].version
      BY <1>0 DEF VersionInv, InstalledHeld
    <3> QED
      BY <1>0, <1>6, <1>11, <2>1, <3>1 DEF MapCoversNumbers, Writes
  <2>3. ReadsBelow(H)'
    <3>1. \A u \in Txn : \A r \in readSet[u] :
            /\ r.key \in Key /\ r.versionSeen \in Nat
            /\ r.versionSeen <= data[r.key].version
      BY <1>0 DEF VersionInv, ReadsNotAhead, Types, DeployTypeOK, ExecTypeOK, ReadEntry
    <3>2. \A u \in Txn : \A r \in readSet[u] : r.versionSeen <= commitSeq'
      BY <1>2, <1>7, <1>11, <2>1, <3>1
    <3> QED
      BY <1>0, <3>2 DEF ReadsBelow
  <2>4. WritersSerial(H)' /\ ReadersSerial(H)'
    <3> DEFINE now == [u \in Txn |-> Numbers(u, H)']
    <3>1. \A u \in Txn : Numbers(u, H)' = now[u] /\ now[u] \subseteq Numbers(u, H)
      BY <1>6
    <3> HIDE DEF now
    <3>2. UNCHANGED <<readSet, writeSet>>
      BY <1>0
    <3>3. \A t \in Txn : \A n \in now[t], r \in readSet[t] : writeSet[t] # << >> =>
            /\ r.versionSeen < n
            /\ \A u \in Txn \ {t} : Writes(u, r.key) =>
                 \A m \in now[u] : ~ (r.versionSeen < m /\ m < n)
      BY <2>1, <3>1 DEF SerialInv, WritersSerial
    <3>4. \A t \in Txn : now[t] # {} /\ writeSet[t] = << >> =>
            \A r, q \in readSet[t] : \A u \in Txn \ {t} : Writes(u, r.key) =>
                \A m \in now[u] : ~ (r.versionSeen < m /\ m <= q.versionSeen)
      BY <2>1, <3>1 DEF SerialInv, ReadersSerial
    <3> QED
      BY <3>1, <3>2, <3>3, <3>4, WritersAsNumbered, ReadersAsNumbered
  <2> QED
    BY <2>2, <2>3, <2>4 DEF SerialInv
<1>13. Without({"get"} \cup MapFailures)' => ReadInv(H)'
  <2>1. SUFFICES ASSUME ReadInv(H), dump = data PROVE ReadInv(H)'
    BY <1>10 DEF DeployInv, MapFailures
  <2>2. ObservedCurrent'
    BY <1>0, <2>1 DEF ReadInv, ObservedCurrent
  <2>3. ReplacedKnown'
    <3>1. \A u \in Txn : \A r \in readSet[u] : r.key \in Key
      BY DEF Types, DeployTypeOK, ExecTypeOK, ReadEntry
    <3> QED
      BY <1>0, <1>7, <1>11, <2>1, <3>1 DEF ReplacedKnown
  <2>4. SentReadsCurrent(H)'
    BY <1>5 DEF SentReadsCurrent
  <2> QED
    BY <2>2, <2>3, <2>4 DEF ReadInv
<1>14. Without(SyncFailures)' => NumbersFresh(H)'
  <2>1. SUFFICES ASSUME dump = data PROVE NumbersFresh(H)'
    BY <1>10 DEF SyncFailures
  <2> QED
    BY <1>0, <1>5, <1>11, <2>1 DEF NumbersFresh
<1>15. StoreBounded'
  BY <1>0 DEF StoreBounded
<1> QED
  BY <1>4, <1>5, <1>8, <1>9, <1>12, <1>13, <1>14, <1>15 DEF DeployInv

LEMMA InstallBounded ==
    ASSUME Types, StoreBounded, NEW u \in Txn, NEW n \in Nat \ {0},
           Install(CommitRecordOf(Request(u), n))
    PROVE  StoreBounded'
<1>1. PICK b \in Nat : \A k \in Key : data[k].version <= b
  BY DEF StoreBounded
<1>2. \A k \in Key : /\ data[k].version \in Nat
                     /\ data'[k] = data[k] \/ data'[k].version = n
  BY InstallRaises
<1>3. b + n \in Nat /\ \A k \in Key : data'[k].version <= b + n
  BY <1>1, <1>2
<1> QED
  BY <1>3 DEF StoreBounded

\* A stray as the record of a request.
LEMMA StrayShape ==
    ASSUME Types, NEW H, StrayRecords(H), NEW rec \in strays
    PROVE  /\ rec.txnID \in Txn /\ rec.commitSeq \in Nat \ {0}
           /\ Written(rec) \in Seq(WriteEntry)
           /\ rec.writes = Record([writeSet |-> Written(rec)], rec.commitSeq)
<1>1. /\ rec.txnID \in Txn /\ rec.commitSeq \in Nat \ {0}
      /\ \A i \in 1 .. Len(rec.writes) : rec.writes[i].newVersion = rec.commitSeq
  BY DEF StrayRecords, Types, DeployTypeOK, RemoteTypeOK, CommitRecord
<1>2. PICK writes \in Seq(CommitWrite) : writes = rec.writes
  BY DEF Types, DeployTypeOK, RemoteTypeOK, CommitRecord
<1>3. Len(writes) \in Nat /\ writes \in [1 .. Len(writes) -> CommitWrite]
  BY <1>2, LenProperties
<1>4. \A w \in CommitWrite :
        /\ w = [key |-> w.key, value |-> w.value, newVersion |-> w.newVersion]
        /\ [key |-> w.key, value |-> w.value] \in WriteEntry
  BY DEF CommitWrite, WriteEntry
<1> DEFINE ws == [i \in 1 .. Len(writes) |-> [key |-> writes[i].key, value |-> writes[i].value]]
<1>5. Written(rec) = ws
  BY <1>2 DEF Written
<1>6. ws \in [1 .. Len(writes) -> WriteEntry]
  BY <1>3, <1>4
<1>7. ws \in Seq(WriteEntry) /\ Len(ws) = Len(writes)
  BY <1>3, <1>6
<1>8. Record([writeSet |-> ws], rec.commitSeq) =
        [i \in 1 .. Len(writes) |->
            [key |-> writes[i].key, value |-> writes[i].value, newVersion |-> rec.commitSeq]]
  BY <1>7 DEF Record
<1>9. writes = [i \in 1 .. Len(writes) |->
            [key |-> writes[i].key, value |-> writes[i].value, newVersion |-> rec.commitSeq]]
  <2>1. \A i \in 1 .. Len(writes) : writes[i] =
          [key |-> writes[i].key, value |-> writes[i].value, newVersion |-> rec.commitSeq]
    BY <1>1, <1>2, <1>3, <1>4
  <2>2. writes = [i \in 1 .. Len(writes) |-> writes[i]]
    BY <1>3
  <2> QED
    BY <2>1, <2>2
<1> QED
  BY <1>1, <1>2, <1>5, <1>7, <1>8, <1>9

\* What the store makes of a stray: its keys get the number, or nothing changes.
LEMMA StrayFacts ==
    ASSUME Types, StoreBounded, NEW H, StrayRecords(H), NEW rec \in strays, ApplyStray(rec)
    PROVE  /\ StoreTypeOK' /\ StoreBounded' /\ FaultsGrow
           /\ \A k \in Key : /\ data[k].version \in Nat /\ data'[k].version \in Nat
                             /\ data[k].version <= data'[k].version
                             /\ data'[k] # data[k] => data[k].version < data'[k].version
                             /\ k \in KeysOf(Written(rec)) /\ data'[k] # data[k]
                                  => data'[k].version = rec.commitSeq
           /\ \/ UNCHANGED <<data, installed, faults>>
              \/ /\ data' = Applied(data, rec.writes)
                 /\ installed' = [installed EXCEPT ![rec.txnID] = rec.commitSeq]
                 /\ \A k \in KeysOf(Written(rec)) : data'[k].version = rec.commitSeq
                 /\ Happened("stray")'
<1> DEFINE n == rec.commitSeq
           ws == Written(rec)
           req == [writeSet |-> ws]
<1>1. /\ rec.txnID \in Txn /\ n \in Nat \ {0} /\ ws \in Seq(WriteEntry)
      /\ rec.writes = Record(req, n)
  BY StrayShape
<1>2. /\ data' = IF Rejected(rec.writes) THEN data ELSE Applied(data, rec.writes)
      /\ installed' = IF Rejected(rec.writes) THEN installed
                      ELSE [installed EXCEPT ![rec.txnID] = n]
      /\ faults' = IF Rejected(rec.writes) THEN faults
                   ELSE [faults EXCEPT !["stray"] = @ + 1]
      /\ "stray" \in Faulty
  BY DEF ApplyStray, Install, ApplyCommit
<1>3. \A k \in Key : data[k] \in ReadResult /\ data[k].version \in Nat
  BY DEF Types, DeployTypeOK, StoreTypeOK, ReadResult
<1>4. req.writeSet = ws
  OBVIOUS
<1> HIDE DEF ws, req, n
<1>5. StoreTypeOK'
  <2>1. ApplyCommit(Record(req, n))
    BY <1>1 DEF ApplyStray, Install
  <2>2. StoreTypeOK /\ n \in Nat
    BY <1>1 DEF Types, DeployTypeOK
  <2> QED
    BY <1>1, <1>4, <2>1, <2>2, ApplyTypeOK
<1>6. FaultsGrow /\ (~ Rejected(rec.writes) => Happened("stray")')
  BY <1>2 DEF FaultsGrow, Happened, Types, DeployTypeOK, RemoteTypeOK
<1>7. Applied(data, rec.writes) = [k \in Key |->
        IF k \in KeysOf(ws) THEN [value |-> LastWrite(ws, k).value, version |-> n] ELSE data[k]]
  <2>1. n \in Nat
    BY <1>1
  <2> QED
    BY <1>1, <1>4, <2>1, AppliedRecord
<1>8. ASSUME ~ Rejected(rec.writes), NEW k \in KeysOf(ws) PROVE k \in Key /\ data[k].version < n
  <2>1. Len(rec.writes) = Len(ws) /\ Len(ws) \in Nat
    BY <1>1, <1>4, RecordShape
  <2>2. PICK i \in 1 .. Len(ws) : ws[i].key = k
    BY <1>8 DEF KeysOf
  <2>3. rec.writes[i].key = k /\ rec.writes[i].newVersion = n
    BY <1>1, <1>4, <2>2 DEF Record
  <2>4. k \in Key
    BY <1>1, KeysOfSubset
  <2>5. ~ (Found(data[k]) /\ n <= data[k].version)
    BY <1>8, <2>1, <2>2, <2>3 DEF Rejected
  <2> QED
    BY <1>1, <1>3, <2>4, <2>5 DEF Found
<1>9. CASE Rejected(rec.writes)
  <2>1. UNCHANGED <<data, installed, faults>>
    BY <1>2, <1>9
  <2>2. StoreBounded'
    BY <2>1 DEF StoreBounded
  <2> QED
    BY <1>3, <1>5, <1>6, <2>1, <2>2
<1>10. CASE ~ Rejected(rec.writes)
  <2>1. \A k \in Key : /\ k \in KeysOf(ws) => data'[k].version = n /\ data[k].version < n
                       /\ k \notin KeysOf(ws) => data'[k] = data[k]
    BY <1>2, <1>7, <1>8, <1>10
  <2>2. KeysOf(ws) \subseteq Key
    BY <1>1, KeysOfSubset
  <2>3. PICK b \in Nat : \A k \in Key : data[k].version <= b
    BY DEF StoreBounded
  <2>4. b + n \in Nat /\ \A k \in Key : data'[k].version <= b + n
    BY <1>1, <1>3, <2>1, <2>3
  <2>5. StoreBounded'
    BY <2>4 DEF StoreBounded
  <2> QED
    BY <1>1, <1>2, <1>3, <1>5, <1>6, <1>10, <2>1, <2>2, <2>5 DEF n, ws
<1> QED
  BY <1>9, <1>10

\* The store executes a call of a certifier that is gone.
LEMMA ApplyStrayInv ==
    ASSUME Types, StoreBounded, NEW H, DeployInv(H), NEW rec \in strays, ApplyStray(rec),
           UNCHANGED deployVars
    PROVE  Types' /\ DeployInv(H)' /\ StoreBounded'
<1>0. /\ UNCHANGED <<idCounter, state, readSet, writeSet, observed, calls, phase, server>>
      /\ UNCHANGED <<latestVersion, commitSeq, result, late>>
      /\ strays' = strays \ {rec}
      /\ ClientInv(H) /\ VersionInv /\ StrayRecords(H)
  BY DEF ApplyStray, execVars, certVars, deployVars, DeployInv, ClientInv
<1>1. /\ StoreTypeOK' /\ StoreBounded' /\ FaultsGrow
      /\ \A k \in Key : /\ data[k].version \in Nat /\ data'[k].version \in Nat
                        /\ data[k].version <= data'[k].version
      /\ \/ UNCHANGED <<data, installed, faults>>
         \/ /\ installed' = [installed EXCEPT ![rec.txnID] = rec.commitSeq]
            /\ \A k \in KeysOf(Written(rec)) : data'[k].version = rec.commitSeq
            /\ Happened("stray")'
  BY <1>0, StrayFacts
<1>2. /\ rec.txnID \in Txn /\ rec.commitSeq \in Nat \ {0}
      /\ writeSet[rec.txnID] \in {<< >>, Written(rec)}
      /\ installed[rec.txnID] = 0 /\ rec.txnID \notin H
      /\ state[rec.txnID] \notin {"unborn", "active"}
      /\ rec.txnID \in calls => result[rec.txnID] # NoResult
      /\ \A other \in late \cup strays' : other.txnID # rec.txnID
  BY <1>0, StrayShape DEF StrayRecords
<1>3. /\ installed' \in [Txn -> Nat]
      /\ \A u \in Txn \ {rec.txnID} : installed'[u] = installed[u]
      /\ installed'[rec.txnID] \in {0, rec.commitSeq}
      /\ \A u \in Txn : installed'[u] # installed[u] => Happened("stray")'
  BY <1>1, <1>2 DEF Types, DeployTypeOK, RemoteTypeOK
<1>4. Types'
  BY <1>0, <1>1, <1>3
  DEF Types, DeployTypeOK, ExecTypeOK, CertTypeOK, RemoteTypeOK, FaultsGrow
<1>5. \A u \in Txn : u # rec.txnID => Numbers(u, H)' = Numbers(u, H)
  BY <1>0, <1>3 DEF Numbers
<1>6. ClientInv(H)'
  <2>1. NotRunning(H)' /\ NotBegun' /\ ReportedAnswer'
    <3>1. Happened("stray") => Happened("stray")'
      BY <1>1, StraySince DEF Types, DeployTypeOK
    <3> QED
      BY <1>0, <1>3, <3>1 DEF ClientInv, NotRunning, NotBegun, ReportedAnswer, IsCommitted
  <2>2. SentNotActive(H)'
    BY <1>0, <1>2, <1>5 DEF ClientInv, SentNotActive
  <2>3. LateRecords(H)'
    <3>1. /\ \A v \in Txn : \A m : CommitRecordOf(Request(v), m)' = CommitRecordOf(Request(v), m)
          /\ \A q \in late : q.txnID \in Txn /\ q.txnID # rec.txnID
      BY <1>0, <1>2, SameRecord, LateNumbered DEF Types, DeployTypeOK
    <3> QED
      BY <1>0, <1>3, <3>1 DEF ClientInv, LateRecords
  <2>4. StrayRecords(H)'
    <3>1. \A q \in strays' : /\ q.txnID \in Txn /\ q.txnID # rec.txnID /\ q \in strays
      BY <1>0, <1>2 DEF Types, DeployTypeOK, RemoteTypeOK, CommitRecord
    <3>2. \A q \in strays' : /\ installed'[q.txnID] = 0 /\ q.txnID \notin H
                             /\ state[q.txnID] \notin {"unborn", "active"}
                             /\ q.txnID \in calls => result[q.txnID] # NoResult
      BY <1>0, <1>3, <3>1 DEF StrayRecords
    <3>3. strays' \subseteq strays
      BY <1>0
    <3> QED
      BY <1>0, <3>2, <3>3, StraysKept
  <2>5. Unanswered(H)'
    <3>1. \A u \in calls : result[u] = NoResult => installed'[u] = installed[u]
      BY <1>2, <1>3 DEF Types, DeployTypeOK
    <3>2. \A u \in H, k \in Key : Writes(u, k)' <=> Writes(u, k)
      BY <1>0 DEF Writes
    <3> QED
      BY <1>0, <3>1, <3>2 DEF ClientInv, Unanswered
  <2> QED
    BY <2>1, <2>2, <2>3, <2>4, <2>5 DEF ClientInv
<1>7. VersionInv'
  <2>1. InstalledHeld'
    <3>1. ASSUME NEW u \in Txn, NEW k \in Key, Writes(u, k)'
          PROVE  installed'[u] <= data'[k].version
      <4>1. Writes(u, k) /\ installed[u] <= data[k].version /\ installed[u] \in Nat
        BY <1>0, <3>1 DEF VersionInv, InstalledHeld, Writes, Types, DeployTypeOK, RemoteTypeOK
      <4>2. CASE installed'[u] = installed[u]
        BY <1>1, <4>1, <4>2
      <4>3. CASE installed'[u] # installed[u]
        <5>1. u = rec.txnID /\ installed'[u] = rec.commitSeq /\ ~ UNCHANGED installed
          BY <1>2, <1>3, <4>3
        <5>2. k \in KeysOf(Written(rec))
          BY <1>2, <4>1, <5>1 DEF Writes, KeysOf
        <5>3. data'[k].version = rec.commitSeq
          BY <1>1, <5>1, <5>2
        <5> QED
          BY <1>1, <5>1, <5>3
      <4> QED
        BY <4>2, <4>3
    <3> QED
      BY <3>1 DEF InstalledHeld
  <2>2. ReadsNotAhead'
    <3>1. \A v \in Txn : \A r \in readSet[v] : r.key \in Key /\ r.versionSeen \in Nat
      BY DEF Types, DeployTypeOK, ExecTypeOK, ReadEntry
    <3> QED
      BY <1>0, <1>1, <3>1 DEF VersionInv, ReadsNotAhead
  <2>3. ReadsRecorded' /\ MapBounded'
    BY <1>0 DEF VersionInv, ReadsRecorded, Seen, MapBounded
  <2> QED
    BY <2>1, <2>2, <2>3 DEF VersionInv
<1>8. CASE Happened("stray")'
  <2>1. /\ ~ Without(MapFailures)' /\ ~ Without({"get"} \cup MapFailures)'
        /\ ~ Without(SyncFailures)'
    BY <1>8 DEF Without, MapFailures, SyncFailures
  <2> QED
    BY <1>1, <1>4, <1>6, <1>7, <2>1 DEF DeployInv
<1>9. CASE UNCHANGED <<data, installed, faults>>
  <2>1. \A v \in Txn : Numbers(v, H)' = Numbers(v, H)
    BY <1>0, <1>9 DEF Numbers
  <2>2. Synced' => Synced
    BY <1>0 DEF Synced, Accepting
  <2>3. DeployInv(H)'
    <3>1. \A bad : Without(bad)' <=> Without(bad)
      BY <1>9 DEF Without, Happened
    <3>2. SerialInv(H)' <=> SerialInv(H)
      BY <1>0, <2>1
      DEF SerialInv, MapCoversNumbers, ReadsBelow, WritersSerial, ReadersSerial, Writes
    <3>3. ReadInv(H)' <=> ReadInv(H)
      BY <1>0, <1>9 DEF ReadInv, ObservedCurrent, ReplacedKnown, SentReadsCurrent, Writes
    <3>4. NumbersFresh(H) => NumbersFresh(H)'
      BY <1>0, <1>9, <2>2 DEF NumbersFresh
    <3> QED
      BY <1>6, <1>7, <3>1, <3>2, <3>3, <3>4 DEF DeployInv
  <2> QED
    BY <1>1, <1>4, <2>3
<1> QED
  BY <1>1, <1>8, <1>9

-----------------------------------------------------------------------------
\* The steps of the client process are the ones above.
LEMMA ClientStepCases ==
    ASSUME Types, ClientStep
    PROVE  \/ \E keys \in SUBSET Key : \E initial \in [keys -> Value] :
                Load(initial) \/ Reload(initial)
           \/ StartTxn
           \/ \E t \in Txn : ClientOp(t) /\ ClientFrame(t)
<1>1. ASSUME NEW t \in Txn, NEW k \in Key, ReadKey(t, k)
      PROVE  ClientOp(t) /\ ClientFrame(t)
  BY <1>1, FailsGrow, UnchangedGrow
  DEF ReadKey, GetFails, Local, remoteVars, deployVars, ClientOp, Operation, ClientFrame,
      Types, DeployTypeOK
<1>2. ASSUME NEW t \in Txn, NEW k \in Key, NEW v \in Value, WriteKey(t, k, v)
      PROVE  ClientOp(t) /\ ClientFrame(t)
  BY <1>2, UnchangedGrow
  DEF WriteKey, Local, remoteVars, deployVars, ClientOp, Operation, ClientFrame,
      Types, DeployTypeOK
<1>3. ASSUME NEW t \in Txn, SubmitLost(t) \/ ReplyLost(t)
      PROVE  ClientOp(t) /\ ClientFrame(t)
  BY <1>3, FailsGrow, UnchangedGrow
  DEF SubmitLost, ReplyLost, deployVars, ClientOp, Operation, ClientFrame, Types, DeployTypeOK
<1>4. ASSUME NEW t \in Txn, Discard(t) \/ Disconnected(t) \/ Reply(t)
      PROVE  ClientOp(t) /\ ClientFrame(t)
  BY <1>4, UnchangedGrow
  DEF Discard, Disconnected, Reply, Local, remoteVars, deployVars, ClientOp, Operation,
      ClientFrame, Types, DeployTypeOK
<1> QED
  BY <1>1, <1>2, <1>3, <1>4 DEF ClientStep

LEMMA SubmitCases ==
    ASSUME Types, NEW t \in Txn, Submit(t)
    PROVE  ClientOp(t) /\ ClientFrame(t)
BY UnchangedGrow
DEF Submit, remoteVars, ClientOp, Operation, ClientFrame, Types, DeployTypeOK

-----------------------------------------------------------------------------
(***************************************************************************)
(* The properties of the deployment that DeployInv entails.                *)
(***************************************************************************)
LEMMA SerialHistory ==
    ASSUME Types, NEW H, DeployInv(H)
    PROVE  InstalledHistorySerial
<1>1. SUFFICES ASSUME NEW t \in Txn, installed[t] # 0, ~ Happened("boot"), ~ Happened("stray")
               PROVE  SnapshotAt(t, IF writeSet[t] # << >> THEN installed[t] - 1
                                    ELSE Max({0} \cup {r.versionSeen : r \in readSet[t]}))
  BY DEF InstalledHistorySerial
<1>2. SerialInv(H)
  BY <1>1 DEF DeployInv, Without, MapFailures
<1>3. /\ \A u \in Txn : installed[u] \in Nat
      /\ \A u \in Txn : installed[u] # 0 => installed[u] \in Numbers(u, H)
      /\ \A r \in readSet[t] : r.versionSeen \in Nat
      /\ commitSeq \in Nat
  BY NumbersIn
  DEF Types, DeployTypeOK, RemoteTypeOK, ExecTypeOK, ReadEntry, CertTypeOK
<1>4. CASE writeSet[t] # << >>
  <2>1. \A r \in readSet[t] :
          /\ r.versionSeen < installed[t]
          /\ \A u \in Txn \ {t} : Writes(u, r.key) => \A m \in Numbers(u, H) :
               ~ (r.versionSeen < m /\ m < installed[t])
    BY <1>1, <1>2, <1>3, <1>4 DEF SerialInv, WritersSerial
  <2>2. ASSUME NEW r \in readSet[t], NEW u \in Txn \ {t}, Writes(u, r.key)
        PROVE  installed[u] \notin r.versionSeen + 1 .. installed[t] - 1
    BY <1>1, <1>3, <2>1, <2>2
  <2>3. \A r \in readSet[t] : r.versionSeen <= installed[t] - 1
    BY <1>1, <1>3, <2>1
  <2> QED
    BY <1>4, <2>2, <2>3 DEF SnapshotAt
<1>5. CASE writeSet[t] = << >>
  <2> DEFINE V == {0} \cup {r.versionSeen : r \in readSet[t]}
  <2>1. \A r \in readSet[t] : r.versionSeen <= commitSeq
    BY <1>1, <1>2, <1>3 DEF SerialInv, ReadsBelow
  <2>2. V \subseteq Nat /\ V # {} /\ \A x \in V : x <= commitSeq
    BY <1>3, <2>1
  <2>3. Max(V) \in V /\ \A y \in V : y <= Max(V)
    <3> HIDE DEF V
    <3> QED
      BY <1>3, <2>2, BoundedMax
  <2>4. ASSUME NEW r \in readSet[t], NEW u \in Txn \ {t}, Writes(u, r.key)
        PROVE  installed[u] \notin r.versionSeen + 1 .. Max(V)
    <3>1. Max(V) = 0 \/ \E s \in readSet[t] : Max(V) = s.versionSeen
      BY <2>3
    <3>2. \A s \in readSet[t] : \A m \in Numbers(u, H) :
            ~ (r.versionSeen < m /\ m <= s.versionSeen)
      BY <1>1, <1>2, <1>3, <1>5, <2>4 DEF SerialInv, ReadersSerial
    <3> HIDE DEF V
    <3>3. Max(V) \in Nat
      BY <2>2, <2>3
    <3> QED
      BY <1>3, <3>1, <3>2, <3>3
  <2>5. \A r \in readSet[t] : r.versionSeen <= Max(V)
    BY <2>3
  <2> QED
    BY <1>5, <2>4, <2>5 DEF SnapshotAt
<1> QED
  BY <1>1, <1>4, <1>5
\* Reported commits stay in the store as long as entries are replaced by higher
\* versions only.
LEMMA CommitsKept ==
    ASSUME Types, StoreTypeOK', StoreHoldsLastCommit, CertTypeOK',
           \A k \in Key : data'[k] = data[k] \/ data[k].version < data'[k].version,
           \A t \in Txn, k \in Key : IsCommitted(t)' /\ Writes(t, k)' =>
             \/ result'[t] = result[t] /\ writeSet'[t] = writeSet[t]
             \/ data'[k] = [value   |-> LastWrite(writeSet'[t], k).value,
                            version |-> result'[t].commitSeq]
    PROVE  StoreHoldsLastCommit'
<1>1. \A k \in Key : data[k].version \in Nat /\ data'[k].version \in Nat
  BY DEF Types, DeployTypeOK, StoreTypeOK, ReadResult
<1>2. ASSUME NEW t \in Txn, NEW k \in Key, IsCommitted(t)', Writes(t, k)'
      PROVE  \/ data'[k].version > result'[t].commitSeq
             \/ data'[k] = [value   |-> LastWrite(writeSet'[t], k).value,
                            version |-> result'[t].commitSeq]
  <2>1. CASE result'[t] = result[t] /\ writeSet'[t] = writeSet[t]
    <3>1. IsCommitted(t) /\ Writes(t, k)
      BY <1>2, <2>1 DEF IsCommitted, Writes
    <3>2. \/ data[k].version > result[t].commitSeq
          \/ data[k] = [value   |-> LastWrite(writeSet[t], k).value,
                        version |-> result[t].commitSeq]
      BY <3>1 DEF StoreHoldsLastCommit
    <3>3. result[t].commitSeq \in Nat
      BY DEF Types, CertTypeOK, TxnResult
    <3>4. CASE data'[k] = data[k]
      BY <2>1, <3>2, <3>4
    <3>5. CASE data[k].version < data'[k].version
      <4>1. data[k].version >= result[t].commitSeq
        BY <1>1, <3>2, <3>3
      <4> QED
        BY <1>1, <2>1, <3>3, <3>5, <4>1
    <3> QED
      BY <3>4, <3>5
  <2> QED
    BY <1>2, <2>1
<1> QED
  BY <1>2 DEF StoreHoldsLastCommit
=============================================================================

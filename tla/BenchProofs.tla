---------------------------- MODULE BenchProofs -----------------------------
(***************************************************************************)
(* Proofs about BenchDriver, for any number of clients, keys and           *)
(* transactions: the benchmark's clients drive the three layers as         *)
(* ImmediateSystem allows, no increment is lost, retries are bounded and   *)
(* the report is consistent.                                               *)
(***************************************************************************)
EXTENDS BenchDriver, ImmediateProofs, FiniteSetTheorems

WritesEach == Min({WritesPerTxn, ReadsPerTxn})

Job == [txn : Txn, readKeys : SUBSET Key, writeKeys : SUBSET Key, conflict : BOOLEAN]

BenchTypes ==
    /\ DOMAIN collector = {"totalCommitted", "totalAborted", "conflictCount", "latencies"}
    /\ collector.totalCommitted \in Nat
    /\ collector.totalAborted \in Nat
    /\ collector.conflictCount \in Nat
    /\ retryOnAbort \in BOOLEAN
    /\ job \in [Client -> {NoJob} \cup Job]
    /\ completed \in [Client -> 0 .. TotalTxnsPerClient]

InJob(t) == \E c \in Client : job[c].txn = t

\* Where a client is in its loop.
Working(c) ==
    LET t == job[c].txn
    IN  /\ t <= idCounter
        /\ completed[c] < TotalTxnsPerClient
        /\ job[c].conflict => state[t] = "aborted"
        /\ job[c].writeKeys \subseteq job[c].readKeys
        /\ Cardinality(job[c].writeKeys) = WritesEach
        /\ KeysOf(writeSet[t]) \subseteq job[c].writeKeys

\* Every transaction that has begun and has no answer is the job of one client.
JobInv ==
    /\ \A c \in Client : job[c] # NoJob => Working(c)
    /\ \A c, d \in Client : c # d /\ job[c] # NoJob => job[c].txn # job[d].txn
    /\ \A t \in Txn : t <= idCounter /\ result[t] = NoResult => InJob(t)

\* What the state of a transaction says about its sets and its answer.
StateInv ==
    \A t \in Txn :
        /\ state[t] = "committed" => IsCommitted(t)
        /\ state[t] = "aborted" => result[t] # NoResult /\ ~ IsCommitted(t)
        /\ state[t] = "unborn" => writeSet[t] = << >> /\ readSet[t] = {}
        /\ state[t] \notin {"unborn", "active"} =>
            Cardinality(KeysOf(writeSet[t])) = WritesEach

Writers(k) == {t \in CommittedTxns : Writes(t, k)}

CountersExact == \A k \in Key : data[k].value = Itoa(Cardinality(Writers(k)))

\* What was read is small enough to be incremented.
ReadsSmall ==
    \A t \in Txn : \A o \in observed[t] :
        \E n \in Nat : n + 1 <= MaxTxns /\ o.value = Itoa(n)

\* Every write is the increment of a value that was read.
WritesIncrement ==
    \A t \in Txn : \A i \in 1 .. Len(writeSet[t]) : \E o \in observed[t] :
        /\ o.key = writeSet[t][i].key
        /\ writeSet[t][i].value = Itoa(Atoi(o.value) + 1)

ValueInv == CountersExact /\ ReadsSmall /\ WritesIncrement

\* What the collector has been told of.
RecordedCommits == {t \in CommittedTxns : ~ InJob(t)}

Conflicted == {c \in Client : job[c] # NoJob /\ job[c].conflict}

Done == {p \in Client \X (1 .. TotalTxnsPerClient) : p[2] <= completed[p[1]]}

CountInv ==
    /\ collector.totalCommitted = Cardinality(RecordedCommits)
    /\ collector.totalAborted = collector.conflictCount + Cardinality(Conflicted)
    /\ Cardinality(Done) = collector.totalCommitted
                           + IF retryOnAbort THEN 0 ELSE collector.conflictCount
    /\ report # NoReport =>
        /\ \A c \in Client : completed[c] = TotalTxnsPerClient
        /\ report.TotalCommitted = collector.totalCommitted
        /\ report.TotalAborted = collector.totalAborted
        /\ report.ConflictCount = collector.conflictCount

Stale == {t \in Txn : result[t].decision = "stale"}

(***************************************************************************)
(* own[t] is the client of t, blame[t] the commit that made t's read       *)
(* stale.  What a client has committed, and what its transactions were     *)
(* turned down for, its next transaction reads or does not read at all, so *)
(* it cannot be turned down for it again.                                  *)
(***************************************************************************)
Known(own, blame, t, u) ==
    own[u] = own[t] \/ \E s \in Stale : own[s] = own[t] /\ blame[s] = u

Blamed(own, blame) ==
    /\ \A t \in Txn : t <= idCounter => own[t] \in Client
    /\ \A c \in Client : job[c] # NoJob => own[job[c].txn] = c
    /\ \A t \in Stale : blame[t] \in CommittedTxns /\ own[blame[t]] # own[t]
    /\ \A s, t \in Stale : s # t /\ own[s] = own[t] => blame[s] # blame[t]
    /\ \A t \in Txn, u \in CommittedTxns : result[t] = NoResult /\ Known(own, blame, t, u) =>
        \A r \in readSet[t] : Writes(u, r.key) => result[u].commitSeq <= r.versionSeen

RetryInv == \E own, blame : Blamed(own, blame)

LoopInv == BenchTypes /\ JobInv /\ StateInv /\ ValueInv

(***************************************************************************)
(* The inductive invariant: that of the layers, and the benchmark's own.   *)
(***************************************************************************)
BenchInv == TypeOK /\ IInv /\ LoopInv /\ CountInv /\ RetryInv

-----------------------------------------------------------------------------
LEMMA AtoiItoa == \A n : Atoi(Itoa(n)) = n
BY DEF Atoi, Itoa

LEMMA TxnFinite == IsFiniteSet(Txn) /\ Cardinality(Txn) = MaxTxns
BY FS_Interval, MaxTxnsAssumption DEF Txn

LEMMA TxnSubsetFinite ==
    ASSUME NEW S, S \subseteq Txn
    PROVE  IsFiniteSet(S) /\ Cardinality(S) \in Nat
BY TxnFinite, FS_Subset, FS_CardinalityType

LEMMA JobFacts ==
    ASSUME BenchTypes, NEW c \in Client
    PROVE  /\ job[c] # NoJob => job[c] \in Job /\ job[c].txn \in Txn
           /\ job[c].txn \in Txn => job[c] # NoJob /\ job[c] \in Job
           /\ NoJob.txn \notin Txn
BY DEF BenchTypes, Job, NoJob, NoTxn, Txn

\* What a client's step within its transaction is.
LEMMA WorkFacts ==
    ASSUME BenchInv, NEW c \in Client, Work(c), NEW t, t = job[c].txn
    PROVE  /\ t \in Txn /\ t <= idCounter
           /\ UNCHANGED <<data, latestVersion, commitSeq, result, mu>>
           /\ UNCHANGED <<collector, retryOnAbort, job, completed, report>>
           /\ \/ \E k \in Key : Read(t, k)
              \/ \E k \in Key, o \in observed[t] :
                    /\ o.key = k /\ k \in job[c].writeKeys
                    /\ Write(t, k, Itoa(Atoi(o.value) + 1))
              \/ Commit(t) /\ KeysOf(writeSet[t]) = job[c].writeKeys
              \/ CommitReturn(t, result[t])
<1>0. /\ job[c] \in Job /\ t \in Txn
      /\ job[c].readKeys \subseteq Key /\ job[c].writeKeys \subseteq job[c].readKeys
      /\ t <= idCounter /\ KeysOf(writeSet[t]) \subseteq job[c].writeKeys
  BY JobFacts DEF BenchInv, LoopInv, JobInv, Working, Work, Job
<1>1. /\ UNCHANGED <<data, latestVersion, commitSeq, result, mu>>
      /\ UNCHANGED <<collector, retryOnAbort, job, completed, report>>
  BY DEF Work, certVars, benchVars
<1>2. Increment(job[c])
  BY DEF Work
<1>3. CASE \E k \in job[c].readKeys : ~ HasRead(job[c], k) /\ Read(t, k)
  BY <1>0, <1>1, <1>3
<1>4. CASE CommitReturn(t, result[t])
  BY <1>0, <1>1, <1>4
<1>5. CASE /\ \A k \in job[c].readKeys : HasRead(job[c], k)
           /\ job[c].writeKeys \subseteq KeysOf(writeSet[t])
           /\ Commit(t)
  BY <1>0, <1>1, <1>5
<1>6. CASE /\ \A k \in job[c].readKeys : HasRead(job[c], k)
           /\ \E k \in job[c].writeKeys \ KeysOf(writeSet[t]) :
                  Write(t, k, Itoa(Atoi(OldValue(job[c], k)) + 1))
  <2>1. PICK k \in job[c].writeKeys : Write(t, k, Itoa(Atoi(OldValue(job[c], k)) + 1))
    BY <1>6
  <2>2. k \in Key /\ \E o \in observed[t] : o.key = k
    BY <1>0, <1>6 DEF HasRead
  <2>3. PICK o \in observed[t] : o.key = k /\ OldValue(job[c], k) = o.value
    BY <2>2 DEF OldValue
  <2> QED
    BY <1>0, <1>1, <2>1, <2>2, <2>3
<1> QED
  BY <1>2, <1>3, <1>4, <1>5, <1>6 DEF Increment

\* What a client's begin of a transaction is.
LEMMA StartFacts ==
    ASSUME BenchInv, NEW c \in Client, StartTxn(c), NEW t, t = idCounter + 1
    PROVE  /\ t \in Txn /\ idCounter \in Nat /\ idCounter' = t
           /\ state[t] = "unborn" /\ state'[t] = "active" /\ result[t] = NoResult
           /\ \A u \in Txn \ {t} : state'[u] = state[u]
           /\ UNCHANGED <<readSet, writeSet, observed>>
           /\ UNCHANGED <<data, latestVersion, commitSeq, result, mu>>
           /\ UNCHANGED <<collector, retryOnAbort, completed, report>>
           /\ job[c] = NoJob /\ completed[c] < TotalTxnsPerClient
           /\ \A d \in Client \ {c} : job'[d] = job[d]
           /\ job' \in [Client -> {NoJob} \cup Job]
           /\ job'[c] \in Job /\ job'[c] # NoJob /\ job'[c].txn = t /\ ~ job'[c].conflict
           /\ job'[c].writeKeys \subseteq job'[c].readKeys
           /\ Cardinality(job'[c].writeKeys) = WritesEach
<1>1. /\ t \in Txn /\ idCounter' = t
      /\ state[t] = "unborn" /\ state'[t] = "active" /\ result[t] = NoResult
      /\ \A u \in Txn \ {t} : state'[u] = state[u]
      /\ UNCHANGED <<readSet, writeSet, observed>>
  BY BeginFacts DEF StartTxn, BenchInv, TypeOK, IInv, Begin
<1>2. idCounter \in Nat
  BY DEF BenchInv, TypeOK, ExecTypeOK
<1>3a. PICK readKeys \in PickKeys : \E writeKeys \in PickFromSlice(readKeys) :
        job' = [job EXCEPT ![c] = [txn |-> t, readKeys |-> readKeys,
                                   writeKeys |-> writeKeys, conflict |-> FALSE]]
  BY DEF StartTxn
<1>3. PICK writeKeys \in PickFromSlice(readKeys) :
        job' = [job EXCEPT ![c] = [txn |-> t, readKeys |-> readKeys,
                                   writeKeys |-> writeKeys, conflict |-> FALSE]]
  BY <1>3a
<1>4. /\ readKeys \subseteq Key /\ Cardinality(readKeys) = ReadsPerTxn
      /\ writeKeys \subseteq readKeys
      /\ Cardinality(writeKeys) = Min({WritesPerTxn, Cardinality(readKeys)})
  BY DEF PickKeys, PickFromSlice, kSubset
<1>5. Cardinality(writeKeys) = WritesEach
  BY <1>4 DEF WritesEach
<1> DEFINE j == [txn |-> t, readKeys |-> readKeys, writeKeys |-> writeKeys, conflict |-> FALSE]
<1>6. /\ j \in Job /\ j.txn = t /\ ~ j.conflict
      /\ j.readKeys = readKeys /\ j.writeKeys = writeKeys
  BY <1>1, <1>4 DEF Job
<1>7. job \in [Client -> {NoJob} \cup Job]
  BY DEF BenchInv, LoopInv, BenchTypes
<1> HIDE DEF j
<1>8. job'[c] = j /\ (\A d \in Client \ {c} : job'[d] = job[d])
      /\ job' \in [Client -> {NoJob} \cup Job]
  BY <1>3, <1>6, <1>7 DEF j
<1>9. j # NoJob
  BY <1>1, <1>6 DEF NoJob, NoTxn, Txn
<1> QED
  BY <1>1, <1>2, <1>4, <1>5, <1>6, <1>8, <1>9 DEF StartTxn, certVars

\* SubmitCommit for a client's transaction.
LEMMA CertifyFacts ==
    ASSUME BenchInv, NEW c \in Client, CertifyFor(c), NEW t, t = job[c].txn
    PROVE  /\ t \in Txn /\ t <= idCounter /\ Waiting(t) /\ job[c] # NoJob
           /\ UNCHANGED <<idCounter, state, readSet, writeSet, observed>>
           /\ UNCHANGED <<collector, retryOnAbort, job, completed, report>>
           /\ \/ /\ UNCHANGED data
                 /\ Answered(t, Aborted("stale"))
                 /\ \E r \in readSet[t] : r.versionSeen # data[r.key].version
              \/ UNCHANGED <<data, result>>
              \/ /\ Answered(t, Committed(commitSeq))
                 /\ data' = Installed(t, commitSeq)
                 /\ commitSeq \in Nat
                 /\ \A r \in readSet[t] : r.versionSeen = data[r.key].version
<1>1. t \in Txn /\ t <= idCounter /\ job[c] # NoJob
  BY JobFacts DEF BenchInv, LoopInv, JobInv, Working, CertifyFor
<1>2. /\ Waiting(t) /\ SubmitCommit(Request(t)) /\ UNCHANGED execVars
      /\ UNCHANGED <<collector, retryOnAbort, job, completed, report>>
  BY DEF CertifyFor, Certify, benchVars
<1>3. UNCHANGED <<idCounter, state, readSet, writeSet, observed>>
  BY <1>2 DEF execVars
<1>4. CASE SubmitCommitStale(Request(t))
  BY <1>1, <1>2, <1>3, <1>4, StaleFacts DEF BenchInv
<1>5. CASE SubmitCommitAssign(Request(t))
  BY <1>1, <1>2, <1>3, <1>5 DEF SubmitCommitAssign
<1>6. CASE SubmitCommitApply(Request(t))
  BY <1>1, <1>2, <1>3, <1>6, ApplyFacts DEF BenchInv
<1> QED
  BY <1>2, <1>4, <1>5, <1>6 DEF SubmitCommit

\* A client leaves its transaction, or has told the collector of its abort.
LEMMA RecordFacts ==
    ASSUME BenchInv, NEW c \in Client, NEW t, t = job[c].txn,
           RecordCommitted(c) \/ RecordAborted(c) \/ RecordConflicted(c)
    PROVE  /\ t \in Txn /\ job[c] \in Job /\ job[c] # NoJob
           /\ completed[c] + 1 \in 1 .. TotalTxnsPerClient
           /\ UNCHANGED vars /\ UNCHANGED <<retryOnAbort, report>>
           /\ \A d \in Client \ {c} : job'[d] = job[d]
           /\ job' \in [Client -> {NoJob} \cup Job]
           /\ completed' \in [Client -> 0 .. TotalTxnsPerClient]
           /\ RecordAborted(c) =>
                /\ completed' = completed
                /\ ~ job[c].conflict /\ state[t] = "aborted" /\ result[t] # NoResult
                /\ job'[c] \in Job /\ job'[c].txn = t /\ job'[c].conflict
                /\ job'[c].readKeys = job[c].readKeys /\ job'[c].writeKeys = job[c].writeKeys
           /\ RecordCommitted(c) =>
                /\ completed' = [completed EXCEPT ![c] = @ + 1]
                /\ ~ job[c].conflict /\ IsCommitted(t) /\ result[t] # NoResult
                /\ job'[c] = NoJob
           /\ RecordConflicted(c) =>
                /\ completed' = IF retryOnAbort THEN completed
                                ELSE [completed EXCEPT ![c] = @ + 1]
                /\ job[c].conflict /\ ~ IsCommitted(t) /\ result[t] # NoResult
                /\ job'[c] = NoJob
<1>1. /\ job[c] # NoJob /\ UNCHANGED vars /\ UNCHANGED <<retryOnAbort, report>>
  BY DEF RecordCommitted, RecordAborted, RecordConflicted, Recorded
<1>2. /\ t \in Txn /\ job[c] \in Job /\ completed[c] < TotalTxnsPerClient
      /\ job[c].conflict => state[t] = "aborted"
  BY <1>1, JobFacts DEF BenchInv, LoopInv, JobInv, Working
<1>3. /\ job \in [Client -> {NoJob} \cup Job]
      /\ completed \in [Client -> 0 .. TotalTxnsPerClient]
      /\ TotalTxnsPerClient \in Nat
  BY BenchAssumption DEF BenchInv, LoopInv, BenchTypes
<1>4. completed[c] + 1 \in 1 .. TotalTxnsPerClient
  BY <1>2, <1>3
<1>5. /\ state[t] = "committed" => IsCommitted(t)
      /\ state[t] = "aborted" => result[t] # NoResult /\ ~ IsCommitted(t)
      /\ IsCommitted(t) => result[t] # NoResult
  BY <1>2 DEF BenchInv, LoopInv, StateInv, IsCommitted, NoResult
<1>6. job[c].conflict \in BOOLEAN
  BY <1>2 DEF Job
<1>7. CASE RecordCommitted(c)
  <2>1. /\ state[t] = "committed" /\ job' = [job EXCEPT ![c] = NoJob]
        /\ completed' = [completed EXCEPT ![c] = @ + 1]
    BY <1>7 DEF RecordCommitted
  <2>2. completed' \in [Client -> 0 .. TotalTxnsPerClient]
    BY <1>3, <1>4, <2>1
  <2>3. ~ RecordAborted(c) /\ ~ RecordConflicted(c)
    BY <1>2, <2>1 DEF RecordAborted, RecordConflicted
  <2> QED
    BY <1>1, <1>2, <1>3, <1>4, <1>5, <1>7, <2>1, <2>2, <2>3
<1>8. CASE RecordAborted(c)
  <2>1. /\ state[t] = "aborted" /\ ~ job[c].conflict /\ completed' = completed
        /\ job' = [job EXCEPT ![c].conflict = TRUE]
    BY <1>8 DEF RecordAborted
  <2>2. /\ job'[c] = [job[c] EXCEPT !.conflict = TRUE]
        /\ \A d \in Client \ {c} : job'[d] = job[d]
    BY <1>3, <2>1
  <2>3. /\ job'[c] \in Job /\ job'[c].txn = t /\ job'[c].conflict
        /\ job'[c].readKeys = job[c].readKeys /\ job'[c].writeKeys = job[c].writeKeys
    BY <1>2, <2>2 DEF Job
  <2>4. job' \in [Client -> {NoJob} \cup Job]
    BY <1>3, <2>1, <2>2, <2>3
  <2>5. ~ RecordCommitted(c) /\ ~ RecordConflicted(c)
    BY <2>1 DEF RecordCommitted, RecordConflicted
  <2> QED
    BY <1>1, <1>2, <1>3, <1>4, <1>5, <1>8, <2>1, <2>2, <2>3, <2>4, <2>5
<1>9. CASE RecordConflicted(c)
  <2>1. /\ job[c].conflict /\ job' = [job EXCEPT ![c] = NoJob]
        /\ completed' = IF retryOnAbort THEN completed ELSE [completed EXCEPT ![c] = @ + 1]
    BY <1>9 DEF RecordConflicted
  <2>2. completed' \in [Client -> 0 .. TotalTxnsPerClient]
    BY <1>3, <1>4, <2>1
  <2>3. ~ RecordAborted(c) /\ ~ RecordCommitted(c)
    BY <1>2, <2>1 DEF RecordAborted, RecordCommitted
  <2> QED
    BY <1>1, <1>2, <1>3, <1>4, <1>5, <1>9, <2>1, <2>2, <2>3
<1> QED
  BY <1>7, <1>8, <1>9

LEMMA BenchSteps ==
    [BenchNext]_allVars =>
        \/ \E c \in Client :
            \/ StartTxn(c) \/ Work(c) \/ CertifyFor(c)
            \/ RecordCommitted(c) \/ RecordAborted(c) \/ RecordConflicted(c)
        \/ RunWithReturns
        \/ UNCHANGED <<vars, collector, retryOnAbort, job, completed, report>>
BY DEF BenchNext, RunClient, allVars, benchVars

-----------------------------------------------------------------------------
\* The clients drive the layers as ImmediateSystem allows.
LEMMA InitImplements == BenchInit => Init
<1> SUFFICES ASSUME BenchInit PROVE LoadedStore
  BY DEF BenchInit, Init
<1>1. Itoa(0) \in Value
  BY BenchAssumption, MaxTxnsAssumption
<1> DEFINE initial == [k \in Key |-> Itoa(0)]
<1>2. initial \in [Key -> Value] /\ data = Loaded(NewMemStore, initial)
  BY <1>1 DEF BenchInit
<1> HIDE DEF initial
<1> QED
  BY <1>2 DEF LoadedStore

LEMMA WrittenValues ==
    ASSUME BenchInv, NEW t \in Txn, NEW o \in observed[t]
    PROVE  Itoa(Atoi(o.value) + 1) \in Value
<1>1. PICK n \in Nat : n + 1 <= MaxTxns /\ o.value = Itoa(n)
  BY DEF BenchInv, LoopInv, ValueInv, ReadsSmall
<1>2. n + 1 \in 0 .. MaxTxns /\ Atoi(o.value) = n
  BY <1>1, AtoiItoa, MaxTxnsAssumption
<1> QED
  BY <1>2, BenchAssumption

LEMMA StepImplements == BenchInv /\ [BenchNext]_allVars => [Next]_vars
<1> SUFFICES ASSUME BenchInv, [BenchNext]_allVars PROVE [Next]_vars
  OBVIOUS
<1>1. ASSUME NEW c \in Client, StartTxn(c) PROVE Next
  BY <1>1 DEF StartTxn, Next
<1>2. ASSUME NEW c \in Client, Work(c) PROVE Next
  <2> DEFINE t == job[c].txn
  <2>1. /\ t \in Txn /\ UNCHANGED <<data, certVars, mu>>
        /\ \/ \E k \in Key : Read(t, k)
           \/ \E k \in Key, o \in observed[t] : Write(t, k, Itoa(Atoi(o.value) + 1))
           \/ Commit(t)
           \/ CommitReturn(t, result[t])
    BY <1>2, WorkFacts DEF certVars
  <2> HIDE DEF t
  <2>2. \A o \in observed[t] : Itoa(Atoi(o.value) + 1) \in Value
    BY <2>1, WrittenValues
  <2>3. Execute(t)
    BY <2>1, <2>2 DEF Execute
  <2> QED
    BY <2>1, <2>3 DEF Next
<1>3. ASSUME NEW c \in Client, CertifyFor(c) PROVE Next
  <2>1. job[c].txn \in Txn
    BY <1>3, CertifyFacts
  <2> QED
    BY <1>3, <2>1 DEF CertifyFor, Next
<1>4. ASSUME NEW c \in Client, RecordCommitted(c) \/ RecordAborted(c) \/ RecordConflicted(c)
      PROVE  UNCHANGED vars
  BY <1>4, RecordFacts
<1>5. RunWithReturns => UNCHANGED vars
  BY DEF RunWithReturns
<1> QED
  BY <1>1, <1>2, <1>3, <1>4, <1>5, BenchSteps

LEMMA StepInvariants == BenchInv /\ [BenchNext]_allVars => TypeOK' /\ IInv'
BY StepImplements, NextTypeOK, NextIInv DEF BenchInv

-----------------------------------------------------------------------------
\* What the three records do to the collector's counters.
LEMMA CollectorFacts ==
    ASSUME BenchInv, NEW c \in Client
    PROVE  /\ RecordCommitted(c) =>
                /\ DOMAIN collector' = DOMAIN collector
                /\ collector'.totalCommitted = collector.totalCommitted + 1
                /\ collector'.totalAborted = collector.totalAborted
                /\ collector'.conflictCount = collector.conflictCount
           /\ RecordAborted(c) =>
                /\ DOMAIN collector' = DOMAIN collector
                /\ collector'.totalCommitted = collector.totalCommitted
                /\ collector'.totalAborted = collector.totalAborted + 1
                /\ collector'.conflictCount = collector.conflictCount
           /\ RecordConflicted(c) =>
                /\ DOMAIN collector' = DOMAIN collector
                /\ collector'.totalCommitted = collector.totalCommitted
                /\ collector'.totalAborted = collector.totalAborted
                /\ collector'.conflictCount = collector.conflictCount + 1
<1>1. DOMAIN collector = {"totalCommitted", "totalAborted", "conflictCount", "latencies"}
  BY DEF BenchInv, LoopInv, BenchTypes
<1>2. ASSUME NEW l, NEW n,
             collector' = [collector EXCEPT !.totalCommitted = n, !.latencies = l]
      PROVE  /\ DOMAIN collector' = DOMAIN collector
             /\ collector'.totalCommitted = n
             /\ collector'.totalAborted = collector.totalAborted
             /\ collector'.conflictCount = collector.conflictCount
  BY <1>1, <1>2
<1>3. ASSUME NEW l, NEW n,
             collector' = [collector EXCEPT !.totalAborted = n, !.latencies = l]
      PROVE  /\ DOMAIN collector' = DOMAIN collector
             /\ collector'.totalCommitted = collector.totalCommitted
             /\ collector'.totalAborted = n
             /\ collector'.conflictCount = collector.conflictCount
  BY <1>1, <1>3
<1>4. RecordConflict =>
             /\ DOMAIN collector' = DOMAIN collector
             /\ collector'.totalCommitted = collector.totalCommitted
             /\ collector'.totalAborted = collector.totalAborted
             /\ collector'.conflictCount = collector.conflictCount + 1
  BY <1>1 DEF RecordConflict
<1>5. RecordCommitted(c) => \E l : collector' =
        [collector EXCEPT !.totalCommitted = collector.totalCommitted + 1, !.latencies = l]
  BY DEF RecordCommitted, RecordCommit
<1>6. RecordAborted(c) => \E l : collector' =
        [collector EXCEPT !.totalAborted = collector.totalAborted + 1, !.latencies = l]
  BY DEF RecordAborted, RecordAbort
<1>7. RecordConflicted(c) => RecordConflict
  BY DEF RecordConflicted
<1> QED
  BY <1>2, <1>3, <1>4, <1>5, <1>6, <1>7

LEMMA TypesNext == BenchInv /\ [BenchNext]_allVars => BenchTypes'
<1> SUFFICES ASSUME BenchInv, [BenchNext]_allVars PROVE BenchTypes'
  OBVIOUS
<1>0. BenchTypes
  BY DEF BenchInv, LoopInv
<1>1. ASSUME NEW c \in Client, StartTxn(c) PROVE BenchTypes'
  BY <1>0, <1>1, StartFacts DEF BenchTypes
<1>2. ASSUME NEW c \in Client, Work(c) \/ CertifyFor(c) PROVE BenchTypes'
  BY <1>0, <1>2 DEF Work, CertifyFor, benchVars, BenchTypes
<1>3. ASSUME NEW c \in Client, RecordCommitted(c) \/ RecordAborted(c) \/ RecordConflicted(c)
      PROVE  BenchTypes'
  <2>1. /\ retryOnAbort' \in BOOLEAN
        /\ job' \in [Client -> {NoJob} \cup Job]
        /\ completed' \in [Client -> 0 .. TotalTxnsPerClient]
    BY <1>0, <1>3, RecordFacts DEF BenchTypes
  <2> QED
    BY <1>0, <1>3, <2>1, CollectorFacts DEF BenchTypes
<1>4. RunWithReturns => BenchTypes'
  BY <1>0 DEF RunWithReturns, BenchTypes
<1>5. ASSUME UNCHANGED <<vars, collector, retryOnAbort, job, completed, report>>
      PROVE  BenchTypes'
  BY <1>0, <1>5 DEF BenchTypes
<1> QED
  BY <1>1, <1>2, <1>3, <1>4, <1>5, BenchSteps

\* A step of the execution layer on t: what stays.
LEMMA WorkKeeps ==
    ASSUME BenchInv, NEW c \in Client, Work(c), NEW t, t = job[c].txn
    PROVE  /\ idCounter' = idCounter
           /\ \A u \in Txn \ {t} :
                UNCHANGED <<state[u], readSet[u], writeSet[u], observed[u]>>
           /\ state[t] \in {"active", "submitted"}
           /\ state[t] = "submitted" => UNCHANGED <<readSet[t], writeSet[t], observed[t]>>
           /\ state[t] = "active" => result[t] = NoResult
<1>0. t \in Txn /\ ExecTypeOK /\ AnsweredNotActive
  BY WorkFacts DEF BenchInv, TypeOK, IInv, HistoryInv
<1>1. CASE \E k \in Key : Read(t, k)
  BY <1>0, <1>1 DEF Read, ReadFrom, RecordRead, Active, ExecTypeOK, AnsweredNotActive
<1>2. CASE \E k \in Key, o \in observed[t] : Write(t, k, Itoa(Atoi(o.value) + 1))
  BY <1>0, <1>2 DEF Write, Active, ExecTypeOK, AnsweredNotActive
<1>3. CASE Commit(t)
  BY <1>0, <1>3 DEF Commit, Active, ExecTypeOK, AnsweredNotActive
<1>4. CASE CommitReturn(t, result[t])
  BY <1>0, <1>4 DEF CommitReturn, ExecTypeOK
<1> QED
  BY <1>1, <1>2, <1>3, <1>4, WorkFacts

LEMMA AppendKeys ==
    ASSUME NEW ws \in Seq(WriteEntry), NEW w \in WriteEntry
    PROVE  KeysOf(Append(ws, w)) = KeysOf(ws) \cup {w.key}
<1>1. Len(ws) \in Nat /\ Len(Append(ws, w)) = Len(ws) + 1
  OBVIOUS
<1>2. /\ \A i \in 1 .. Len(ws) : Append(ws, w)[i] = ws[i]
      /\ Append(ws, w)[Len(ws) + 1] = w
  OBVIOUS
<1> QED
  BY <1>1, <1>2 DEF KeysOf

\* The write set of a job stays within the keys that the client has picked.
LEMMA WorkKeys ==
    ASSUME BenchInv, NEW c \in Client, Work(c), NEW t, t = job[c].txn
    PROVE  KeysOf(writeSet'[t]) \subseteq job[c].writeKeys
<1>0. t \in Txn /\ writeSet \in [Txn -> Seq(WriteEntry)]
  BY WorkFacts DEF BenchInv, TypeOK, ExecTypeOK
<1>1. KeysOf(writeSet[t]) \subseteq job[c].writeKeys
  BY DEF BenchInv, LoopInv, JobInv, Working, Work
<1>2. CASE UNCHANGED writeSet
  BY <1>1, <1>2
<1>3. CASE \E k \in Key, o \in observed[t] :
              k \in job[c].writeKeys /\ Write(t, k, Itoa(Atoi(o.value) + 1))
  <2>1. PICK k \in Key, o \in observed[t] :
              k \in job[c].writeKeys /\ Write(t, k, Itoa(Atoi(o.value) + 1))
    BY <1>3
  <2> DEFINE w == [key |-> k, value |-> Itoa(Atoi(o.value) + 1)]
  <2>2. writeSet'[t] = Append(writeSet[t], w)
    BY <1>0, <2>1 DEF Write
  <2>3. w \in WriteEntry /\ w.key = k
    BY <1>0, WrittenValues DEF WriteEntry
  <2> HIDE DEF w
  <2>4. KeysOf(Append(writeSet[t], w)) = KeysOf(writeSet[t]) \cup {k}
    BY <1>0, <2>3, AppendKeys
  <2> QED
    BY <1>1, <2>1, <2>2, <2>4
<1> QED
  BY <1>2, <1>3, WorkFacts DEF Read, ReadFrom, Commit, CommitReturn

-----------------------------------------------------------------------------
\* What a client's Begin does to the other clients' jobs.
LEMMA StartOthers ==
    ASSUME BenchInv, NEW c \in Client, StartTxn(c), NEW t, t = idCounter + 1
    PROVE  \A d \in Client : job[d] # NoJob =>
             /\ d # c /\ job'[d] = job[d] /\ job[d].txn \in Txn
             /\ job[d].txn # t /\ job[d].txn <= t
             /\ UNCHANGED state[job[d].txn]
<1> SUFFICES ASSUME NEW d \in Client, job[d] # NoJob
             PROVE  /\ d # c /\ job'[d] = job[d] /\ job[d].txn \in Txn
                    /\ job[d].txn # t /\ job[d].txn <= t
                    /\ UNCHANGED state[job[d].txn]
  OBVIOUS
<1>1. d # c /\ job'[d] = job[d] /\ idCounter \in Nat /\ t \in Txn
  BY StartFacts
<1>2. job[d].txn \in Txn /\ job[d].txn <= idCounter
  BY JobFacts DEF BenchInv, LoopInv, JobInv, Working
<1>3. job[d].txn # t /\ job[d].txn <= t
  BY <1>1, <1>2 DEF Txn
<1>4. \A u \in Txn \ {t} : state'[u] = state[u]
  BY StartFacts
<1> QED
  BY <1>1, <1>2, <1>3, <1>4

LEMMA StartJob ==
    ASSUME BenchInv, NEW c \in Client, StartTxn(c)
    PROVE  JobInv'
<1> DEFINE t == idCounter + 1
<1>0. JobInv
  BY DEF BenchInv, LoopInv
<1>1. /\ t \in Txn /\ idCounter' = t /\ result[t] = NoResult /\ idCounter \in Nat
      /\ UNCHANGED <<writeSet, result, completed>>
      /\ job[c] = NoJob /\ completed[c] < TotalTxnsPerClient
      /\ \A d \in Client \ {c} : job'[d] = job[d]
      /\ job'[c].txn = t /\ job'[c] # NoJob /\ ~ job'[c].conflict
      /\ job'[c].writeKeys \subseteq job'[c].readKeys
      /\ Cardinality(job'[c].writeKeys) = WritesEach
  BY StartFacts
<1>2. KeysOf(writeSet[t]) = {}
  <2>1. writeSet[t] = << >>
    BY <1>1, StartFacts DEF BenchInv, LoopInv, StateInv
  <2>2. KeysOf(<< >>) = {}
    BY DEF KeysOf
  <2> QED
    BY <2>1, <2>2
<1>3. \A d \in Client : job[d] # NoJob =>
        /\ d # c /\ job'[d] = job[d]
        /\ job[d].txn # t /\ job[d].txn <= t
        /\ UNCHANGED state[job[d].txn]
  BY StartOthers
<1> HIDE DEF t
<1>4. \A d \in Client : job'[d] # NoJob => Working(d)'
  <2> SUFFICES ASSUME NEW d \in Client, job'[d] # NoJob PROVE Working(d)'
    OBVIOUS
  <2>1. CASE d = c
    <3>1. t <= t
      BY <1>1 DEF t
    <3> QED
      BY <1>1, <1>2, <2>1, <3>1 DEF Working
  <2>2. CASE d # c
    <3>1. job'[d] = job[d] /\ job[d] # NoJob /\ Working(d)
      BY <1>0, <1>1, <2>2 DEF JobInv
    <3> QED
      BY <1>1, <1>3, <3>1 DEF Working
  <2> QED
    BY <2>1, <2>2
<1>5. \A d, e \in Client : d # e /\ job'[d] # NoJob => job'[d].txn # job'[e].txn
  <2>1. NoJob.txn # t
    BY <1>1 DEF NoJob, NoTxn, Txn
  <2> QED
    BY <1>0, <1>1, <1>3, <2>1 DEF JobInv
<1>6. \A u \in Txn : u <= idCounter' /\ result'[u] = NoResult => InJob(u)'
  <2> SUFFICES ASSUME NEW u \in Txn, u <= t, result[u] = NoResult PROVE InJob(u)'
    BY <1>1
  <2>1. CASE u = t
    BY <1>1, <2>1 DEF InJob
  <2>2. CASE u # t
    <3>1. u <= idCounter
      BY <1>1, <2>2 DEF t, Txn
    <3>2. PICK d \in Client : job[d].txn = u
      BY <1>0, <3>1 DEF JobInv, InJob
    <3>3. job[d] # NoJob
      BY <3>2 DEF NoJob, NoTxn, Txn
    <3> QED
      BY <1>3, <3>2, <3>3 DEF InJob
  <2> QED
    BY <2>1, <2>2
<1> QED
  BY <1>4, <1>5, <1>6 DEF JobInv

LEMMA WorkJob ==
    ASSUME BenchInv, NEW c \in Client, Work(c)
    PROVE  JobInv'
<1> DEFINE t == job[c].txn
<1>0. JobInv
  BY DEF BenchInv, LoopInv
<1>1. UNCHANGED <<result, job, completed, idCounter>> /\ t \in Txn /\ job[c] # NoJob
  BY WorkFacts, WorkKeeps DEF Work
<1>2. /\ \A u \in Txn \ {t} : UNCHANGED <<state[u], writeSet[u]>>
      /\ state[t] \in {"active", "submitted"}
      /\ KeysOf(writeSet'[t]) \subseteq job[c].writeKeys
  BY WorkKeeps, WorkKeys
<1>3. ASSUME NEW d \in Client, job[d] # NoJob PROVE Working(d)'
  <2>1. Working(d)
    BY <1>0, <1>3 DEF JobInv
  <2>2. CASE d = c
    BY <1>1, <1>2, <2>1, <2>2 DEF Working
  <2>3. CASE d # c
    <3>1. job[d].txn \in Txn \ {t}
      BY <1>0, <1>3, <2>3, JobFacts DEF JobInv, BenchInv, LoopInv
    <3> QED
      BY <1>1, <1>2, <2>1, <3>1 DEF Working
  <2> QED
    BY <2>2, <2>3
<1>4. \A u : InJob(u)' <=> InJob(u)
  BY <1>1 DEF InJob
<1> QED
  BY <1>0, <1>1, <1>3, <1>4 DEF JobInv

LEMMA CertifyJob ==
    ASSUME BenchInv, NEW c \in Client, CertifyFor(c)
    PROVE  JobInv'
<1> DEFINE t == job[c].txn
<1>0. JobInv
  BY DEF BenchInv, LoopInv
<1>1. UNCHANGED <<state, writeSet, job, completed, idCounter>> /\ t \in Txn
  BY CertifyFacts
<1>2. \A u \in Txn \ {t} : result'[u] = result[u]
  BY CertifyFacts DEF Answered
<1>3. \A d \in Client : Working(d)' <=> Working(d)
  BY <1>1 DEF Working
<1>4. \A u : InJob(u)' <=> InJob(u)
  BY <1>1 DEF InJob
<1>5. InJob(t)
  BY DEF InJob
<1> QED
  BY <1>0, <1>1, <1>2, <1>3, <1>4, <1>5 DEF JobInv

LEMMA RecordJob ==
    ASSUME BenchInv, NEW c \in Client,
           RecordCommitted(c) \/ RecordAborted(c) \/ RecordConflicted(c)
    PROVE  JobInv'
<1> DEFINE t == job[c].txn
<1>0. JobInv /\ BenchTypes
  BY DEF BenchInv, LoopInv
<1>1. /\ UNCHANGED <<state, writeSet, result, idCounter>>
      /\ \A d \in Client \ {c} : job'[d] = job[d]
      /\ t \in Txn /\ job[c] # NoJob /\ result[t] # NoResult
      /\ job'[c] = NoJob \/ RecordAborted(c)
  BY RecordFacts DEF vars, execVars, certVars
<1>2. /\ \A d \in Client \ {c} : completed'[d] = completed[d]
      /\ RecordAborted(c) => completed' = completed
  <2>1. completed' = completed \/ completed' = [completed EXCEPT ![c] = @ + 1]
    BY RecordFacts
  <2>2. completed \in [Client -> 0 .. TotalTxnsPerClient]
    BY <1>0 DEF BenchTypes
  <2> QED
    BY <2>1, <2>2, RecordFacts
<1>3. RecordAborted(c) =>
        /\ job'[c].txn = t /\ state[t] = "aborted"
        /\ job'[c].readKeys = job[c].readKeys /\ job'[c].writeKeys = job[c].writeKeys
  BY RecordFacts
<1>4. ASSUME NEW d \in Client, job'[d] # NoJob PROVE Working(d)'
  <2>1. CASE d = c
    <3>1. Working(c) /\ RecordAborted(c)
      BY <1>0, <1>1, <1>4, <2>1 DEF JobInv
    <3> QED
      BY <1>1, <1>2, <1>3, <2>1, <3>1 DEF Working
  <2>2. CASE d # c
    <3>1. Working(d) /\ job'[d] = job[d]
      BY <1>0, <1>1, <1>4, <2>2 DEF JobInv
    <3> QED
      BY <1>1, <1>2, <2>2, <3>1 DEF Working
  <2> QED
    BY <2>1, <2>2
<1>5. \A d \in Client : job'[d].txn = job[d].txn \/ (d = c /\ job'[d] = NoJob)
  BY <1>1, <1>3
<1>6. \A d, e \in Client : d # e /\ job'[d] # NoJob => job'[d].txn # job'[e].txn
  <2>1. \A d \in Client : job'[d] # NoJob => job[d] # NoJob /\ job'[d].txn = job[d].txn
    BY <1>1, <1>3
  <2>2. \A d \in Client : job[d] # NoJob => job[d].txn # NoJob.txn
    BY <1>0, JobFacts
  <2> QED
    BY <1>0, <1>5, <2>1, <2>2 DEF JobInv
<1>7. \A u \in Txn : u <= idCounter' /\ result'[u] = NoResult => InJob(u)'
  BY <1>0, <1>1, <1>5 DEF JobInv, InJob
<1> QED
  BY <1>4, <1>6, <1>7 DEF JobInv

LEMMA JobNext == BenchInv /\ [BenchNext]_allVars => JobInv'
<1> SUFFICES ASSUME BenchInv, [BenchNext]_allVars PROVE JobInv'
  OBVIOUS
<1>1. ASSUME UNCHANGED <<vars, job, completed>> PROVE JobInv'
  <2>1. UNCHANGED <<state, writeSet, result, idCounter, job, completed>> /\ JobInv
    BY <1>1 DEF vars, execVars, certVars, BenchInv, LoopInv
  <2> QED
    BY <2>1 DEF JobInv, Working, InJob
<1> QED
  BY <1>1, StartJob, WorkJob, CertifyJob, RecordJob, BenchSteps DEF RunWithReturns

-----------------------------------------------------------------------------
\* A transaction that is answered has been submitted and does not change.
LEMMA StateNext == BenchInv /\ [BenchNext]_allVars => StateInv'
<1> SUFFICES ASSUME BenchInv, [BenchNext]_allVars PROVE StateInv'
  OBVIOUS
<1>0. /\ StateInv /\ state \in [Txn -> TxnState] /\ result \in [Txn -> TxnResult]
      /\ \A u \in Txn : result[u] = NoResult => ~ IsCommitted(u)
  BY DEF BenchInv, LoopInv, TypeOK, ExecTypeOK, ImmTypeOK, CertTypeOK, IsCommitted, NoResult
<1>1. ASSUME UNCHANGED <<state, result, readSet, writeSet>> PROVE StateInv'
  BY <1>0, <1>1 DEF StateInv, IsCommitted
<1>2. ASSUME NEW c \in Client, StartTxn(c) PROVE StateInv'
  <2> DEFINE t == idCounter + 1
  <2>1. /\ t \in Txn /\ state'[t] = "active"
        /\ \A u \in Txn \ {t} : state'[u] = state[u]
        /\ UNCHANGED <<readSet, writeSet, result>>
    BY <1>2, StartFacts
  <2> HIDE DEF t
  <2> QED
    BY <1>0, <2>1 DEF StateInv, IsCommitted
<1>3. ASSUME NEW c \in Client, Work(c) PROVE StateInv'
  <2> DEFINE t == job[c].txn
  <2>1. /\ t \in Txn /\ UNCHANGED result
        /\ \A u \in Txn \ {t} : UNCHANGED <<state[u], readSet[u], writeSet[u]>>
        /\ state[t] \in {"active", "submitted"}
    BY <1>3, WorkFacts, WorkKeeps
  <2>2. Cardinality(job[c].writeKeys) = WritesEach
    BY <1>3 DEF BenchInv, LoopInv, JobInv, Working, Work
  <2>3. CASE \/ \E k \in Key : Read(t, k)
             \/ \E k \in Key, o \in observed[t] : Write(t, k, Itoa(Atoi(o.value) + 1))
    <3>1. state'[t] = "active"
      BY <2>1, <2>3 DEF Read, ReadFrom, Write, Active
    <3> HIDE DEF t
    <3> QED
      BY <1>0, <2>1, <3>1 DEF StateInv, IsCommitted
  <2>4. CASE Commit(t) /\ KeysOf(writeSet[t]) = job[c].writeKeys
    <3>1. state'[t] = "submitted" /\ writeSet'[t] = writeSet[t]
      BY <1>0, <2>1, <2>4 DEF Commit
    <3>2. Cardinality(KeysOf(writeSet'[t])) = WritesEach
      BY <2>2, <2>4, <3>1
    <3> HIDE DEF t
    <3> QED
      BY <1>0, <2>1, <3>1, <3>2 DEF StateInv, IsCommitted
  <2>5. CASE CommitReturn(t, result[t])
    <3>1. /\ state[t] = "submitted" /\ UNCHANGED writeSet
          /\ result[t] # NoResult
          /\ state'[t] = IF IsCommitted(t) THEN "committed" ELSE "aborted"
      BY <1>0, <2>1, <2>5 DEF CommitReturn, IsCommitted, NoResult
    <3> HIDE DEF t
    <3> QED
      BY <1>0, <2>1, <3>1 DEF StateInv, IsCommitted
  <2> QED
    BY <1>3, <2>3, <2>4, <2>5, WorkFacts
<1>4. ASSUME NEW c \in Client, CertifyFor(c) PROVE StateInv'
  <2> DEFINE t == job[c].txn
  <2>1. /\ t \in Txn /\ UNCHANGED <<state, readSet, writeSet>> /\ state[t] = "submitted"
        /\ \A u \in Txn \ {t} : result'[u] = result[u]
    BY <1>4, CertifyFacts DEF Waiting, Answered
  <2> HIDE DEF t
  <2> QED
    BY <1>0, <2>1 DEF StateInv, IsCommitted
<1>5. ASSUME NEW c \in Client, RecordCommitted(c) \/ RecordAborted(c) \/ RecordConflicted(c)
      PROVE  StateInv'
  BY <1>1, <1>5, RecordFacts DEF vars, execVars, certVars
<1>6. ASSUME RunWithReturns \/ UNCHANGED <<vars, collector, retryOnAbort, job, completed, report>>
      PROVE  StateInv'
  BY <1>1, <1>6 DEF RunWithReturns, vars, execVars, certVars
<1> QED
  BY <1>2, <1>3, <1>4, <1>5, <1>6, BenchSteps

-----------------------------------------------------------------------------
\* A step that commits nobody and leaves the write sets of the committed.
LEMMA WritersKept ==
    ASSUME \A u \in Txn : IsCommitted(u)' <=> IsCommitted(u),
           \A u \in Txn : IsCommitted(u) => writeSet'[u] = writeSet[u], NEW k
    PROVE  Writers(k)' = Writers(k)
BY DEF Writers, CommittedTxns, Writes

\* A counter that a transaction reads before it commits can be incremented.
LEMMA CountBelow ==
    ASSUME NEW t \in Txn, ~ IsCommitted(t), NEW k
    PROVE  Cardinality(Writers(k)) \in Nat /\ Cardinality(Writers(k)) + 1 <= MaxTxns
<1>1. Writers(k) \subseteq Txn \ {t}
  BY DEF Writers, CommittedTxns
<1>2. IsFiniteSet(Txn \ {t}) /\ Cardinality(Txn \ {t}) = MaxTxns - 1
  BY TxnFinite, FS_RemoveElement
<1>3. Cardinality(Writers(k)) <= Cardinality(Txn \ {t})
  BY <1>1, <1>2, FS_Subset
<1>4. Cardinality(Writers(k)) \in Nat
  BY <1>1, TxnSubsetFinite
<1> QED
  BY <1>2, <1>3, <1>4, MaxTxnsAssumption

LEMMA WorkValue ==
    ASSUME BenchInv, NEW c \in Client, Work(c)
    PROVE  ValueInv'
<1>t. PICK t : t = job[c].txn
  OBVIOUS
<1>0. ValueInv /\ observed \in [Txn -> SUBSET Observation] /\ writeSet \in [Txn -> Seq(WriteEntry)]
  BY DEF BenchInv, LoopInv, TypeOK, ExecTypeOK
<1>1. /\ t \in Txn /\ UNCHANGED <<data, result>>
      /\ \A u \in Txn \ {t} : UNCHANGED <<writeSet[u], observed[u]>>
      /\ state[t] = "submitted" => UNCHANGED <<writeSet[t], observed[t]>>
      /\ state[t] \in {"active", "submitted"}
      /\ state[t] = "active" => result[t] = NoResult
  BY <1>t, WorkFacts, WorkKeeps
<1>2. state[t] = "active" => ~ IsCommitted(t)
  BY <1>1 DEF IsCommitted, NoResult
<1>3. CountersExact'
  <2>1. /\ \A u \in Txn : IsCommitted(u)' <=> IsCommitted(u)
        /\ \A u \in Txn : IsCommitted(u) => writeSet'[u] = writeSet[u]
    BY <1>1, <1>2 DEF IsCommitted
  <2>2. ASSUME NEW k \in Key PROVE Writers(k)' = Writers(k)
    BY <2>1, WritersKept
  <2>3. ASSUME NEW k \in Key PROVE (data[k].value = Itoa(Cardinality(Writers(k))))'
    BY <1>0, <1>1, <2>2 DEF ValueInv, CountersExact
  <2> QED
    BY <2>3 DEF CountersExact
<1>4. CASE UNCHANGED <<writeSet, observed>>
  BY <1>0, <1>3, <1>4 DEF ValueInv, ReadsSmall, WritesIncrement
<1>5. ASSUME NEW k \in Key, Read(t, k) PROVE ValueInv'
  <2>1. /\ observed'[t] = observed[t] \cup {[key |-> k, value |-> data[k].value]}
        /\ UNCHANGED writeSet /\ state[t] = "active"
    BY <1>0, <1>1, <1>5 DEF Read, ReadFrom, Get, Active
  <2>2. \E n \in Nat : n + 1 <= MaxTxns /\ data[k].value = Itoa(n)
    BY <1>0, <1>1, <1>2, <2>1, CountBelow DEF ValueInv, CountersExact
  <2>3. /\ \A u \in Txn : observed[u] \subseteq observed'[u]
        /\ \A u \in Txn : \A o \in observed'[u] : o \in observed[u] \/ o.value = data[k].value
    BY <1>1, <2>1
  <2>4. ReadsSmall'
    BY <1>0, <2>2, <2>3 DEF ValueInv, ReadsSmall
  <2>5. WritesIncrement'
    <3> SUFFICES ASSUME NEW u \in Txn, NEW i \in 1 .. Len(writeSet[u])
                 PROVE  \E o \in observed'[u] :
                          /\ o.key = writeSet[u][i].key
                          /\ writeSet[u][i].value = Itoa(Atoi(o.value) + 1)
      BY <2>1 DEF WritesIncrement
    <3> QED
      BY <1>0, <2>3 DEF ValueInv, WritesIncrement
  <2> QED
    BY <1>3, <2>4, <2>5 DEF ValueInv
<1>6. ASSUME NEW k \in Key, NEW o \in observed[t], o.key = k,
             Write(t, k, Itoa(Atoi(o.value) + 1))
      PROVE  ValueInv'
  <2> DEFINE w == [key |-> k, value |-> Itoa(Atoi(o.value) + 1)]
  <2>1. writeSet'[t] = Append(writeSet[t], w) /\ UNCHANGED observed
    BY <1>0, <1>1, <1>6 DEF Write
  <2>2. /\ w \in WriteEntry /\ w.key = k /\ w.value = Itoa(Atoi(o.value) + 1)
        /\ writeSet[t] \in Seq(WriteEntry)
    BY <1>0, <1>1, WrittenValues DEF WriteEntry
  <2> HIDE DEF w
  <2>3. \A i \in 1 .. Len(writeSet'[t]) :
          \/ i \in 1 .. Len(writeSet[t]) /\ writeSet'[t][i] = writeSet[t][i]
          \/ writeSet'[t][i] = w
    BY <2>1, <2>2
  <2>4. ReadsSmall'
    BY <1>0, <2>1 DEF ValueInv, ReadsSmall
  <2>5. WritesIncrement'
    <3> SUFFICES ASSUME NEW u \in Txn, NEW i \in 1 .. Len(writeSet'[u])
                 PROVE  \E p \in observed[u] :
                          /\ p.key = writeSet'[u][i].key
                          /\ writeSet'[u][i].value = Itoa(Atoi(p.value) + 1)
      BY <2>1 DEF WritesIncrement
    <3>1. CASE u = t /\ writeSet'[t][i] = w
      BY <1>6, <2>2, <3>1
    <3>2. CASE i \in 1 .. Len(writeSet[u]) /\ writeSet'[u][i] = writeSet[u][i]
      BY <1>0, <3>2 DEF ValueInv, WritesIncrement
    <3> QED
      BY <1>1, <2>3, <3>1, <3>2
  <2> QED
    BY <1>3, <2>4, <2>5 DEF ValueInv
<1> QED
  BY <1>t, <1>4, <1>5, <1>6, WorkFacts DEF Commit, CommitReturn

\* The record that commits t adds one to the counters that t writes: what t
\* has read of them is still current.
LEMMA CommitValue ==
    ASSUME BenchInv, NEW t \in Txn, result[t] = NoResult, Answered(t, Committed(commitSeq)),
           data' = Installed(t, commitSeq), commitSeq \in Nat,
           UNCHANGED <<writeSet, observed>>,
           \A r \in readSet[t] : r.versionSeen = data[r.key].version
    PROVE  ValueInv'
<1>0. /\ ValueInv /\ writeSet[t] \in Seq(WriteEntry) /\ ObservedCurrent /\ ReadsRecorded
      /\ \A o \in observed[t] : o.key \in Key
  BY DEF BenchInv, LoopInv, TypeOK, ExecTypeOK, IInv, HistoryInv, Observation
<1>1. /\ ~ IsCommitted(t) /\ IsCommitted(t)'
      /\ \A u \in Txn \ {t} : IsCommitted(u)' <=> IsCommitted(u)
  BY DEF IsCommitted, Answered, NoResult, Committed
<1>2. ASSUME NEW k \in Key PROVE (data[k].value = Itoa(Cardinality(Writers(k))))'
  <2>0. data[k].value = Itoa(Cardinality(Writers(k)))
    BY <1>0 DEF ValueInv, CountersExact
  <2>1. CASE ~ Writes(t, k)
    <3>1. Writers(k)' = Writers(k)
      BY <1>1, <2>1 DEF Writers, CommittedTxns, Writes
    <3>2. data'[k] = data[k]
      BY <2>1, InstalledVersion
    <3> QED
      BY <2>0, <3>1, <3>2
  <2>2. CASE Writes(t, k)
    <3>1. Writers(k)' = Writers(k) \cup {t} /\ t \notin Writers(k)
      BY <1>1, <2>2 DEF Writers, CommittedTxns, Writes
    <3>2. IsFiniteSet(Writers(k))
      BY TxnSubsetFinite DEF Writers, CommittedTxns
    <3>3. Cardinality(Writers(k)') = Cardinality(Writers(k)) + 1
      BY <3>1, <3>2, FS_AddElement
    <3> DEFINE i == LastIndex(writeSet[t], k)
    <3>4. i \in 1 .. Len(writeSet[t]) /\ writeSet[t][i].key = k
      BY <1>0, <2>2, LastIndexOfKey DEF Writes
    <3>5. data'[k].value = writeSet[t][i].value
      <4>1. data'[k] = [value |-> LastWrite(writeSet[t], k).value, version |-> commitSeq]
        BY <2>2 DEF Installed
      <4>2. LastWrite(writeSet[t], k).value = writeSet[t][i].value
        BY DEF LastWrite
      <4> QED
        BY <4>1, <4>2
    <3> HIDE DEF i
    <3>6. PICK o \in observed[t] : o.key = k /\ writeSet[t][i].value = Itoa(Atoi(o.value) + 1)
      BY <1>0, <3>4 DEF ValueInv, WritesIncrement
    <3>7. PICK r \in readSet[t] : r.key = k
      BY <1>0, <3>6 DEF ReadsRecorded, Seen
    <3>8. o.value = data[k].value
      BY <1>0, <3>6, <3>7 DEF ObservedCurrent
    <3>9. Atoi(o.value) = Cardinality(Writers(k))
      BY <2>0, <3>8, AtoiItoa
    <3> QED
      BY <3>3, <3>5, <3>6, <3>9
  <2> QED
    BY <2>1, <2>2
<1>3. CountersExact'
  BY <1>2 DEF CountersExact
<1> QED
  BY <1>0, <1>3 DEF ValueInv, ReadsSmall, WritesIncrement

LEMMA ValueNext == BenchInv /\ [BenchNext]_allVars => ValueInv'
<1> SUFFICES ASSUME BenchInv, [BenchNext]_allVars PROVE ValueInv'
  OBVIOUS
<1>0. ValueInv
  BY DEF BenchInv, LoopInv
<1>1. ASSUME UNCHANGED <<data, writeSet, observed>>,
             \A u \in Txn : IsCommitted(u)' <=> IsCommitted(u)
      PROVE  ValueInv'
  <2>1. ASSUME NEW k \in Key PROVE (data[k].value = Itoa(Cardinality(Writers(k))))'
    <3>1. Writers(k)' = Writers(k)
      BY <1>1, WritersKept
    <3> QED
      BY <1>0, <1>1, <3>1 DEF ValueInv, CountersExact
  <2>2. CountersExact'
    BY <2>1 DEF CountersExact
  <2> QED
    BY <1>0, <1>1, <2>2 DEF ValueInv, ReadsSmall, WritesIncrement
<1>2. ASSUME NEW c \in Client, StartTxn(c) PROVE ValueInv'
  BY <1>1, <1>2, StartFacts DEF IsCommitted
<1>3. ASSUME NEW c \in Client, CertifyFor(c) PROVE ValueInv'
  <2>1. PICK t : t = job[c].txn
    OBVIOUS
  <2>2. t \in Txn /\ result[t] = NoResult /\ UNCHANGED <<readSet, writeSet, observed>>
    BY <1>3, <2>1, CertifyFacts DEF Waiting
  <2>3. CASE UNCHANGED data /\ Answered(t, Aborted("stale"))
    <3>1. \A u \in Txn : IsCommitted(u)' <=> IsCommitted(u)
      BY <2>2, <2>3 DEF IsCommitted, Answered, Aborted, NoResult
    <3> QED
      BY <1>1, <2>2, <2>3, <3>1
  <2>4. CASE UNCHANGED <<data, result>>
    BY <1>1, <2>2, <2>4 DEF IsCommitted
  <2>5. CASE /\ Answered(t, Committed(commitSeq))
             /\ data' = Installed(t, commitSeq) /\ commitSeq \in Nat
             /\ \A r \in readSet[t] : r.versionSeen = data[r.key].version
    BY <2>2, <2>5, CommitValue
  <2> QED
    BY <1>3, <2>1, <2>3, <2>4, <2>5, CertifyFacts
<1>4. ASSUME UNCHANGED vars PROVE ValueInv'
  BY <1>1, <1>4 DEF vars, execVars, certVars, IsCommitted
<1>5. ASSUME NEW c \in Client, RecordCommitted(c) \/ RecordAborted(c) \/ RecordConflicted(c)
      PROVE  ValueInv'
  BY <1>4, <1>5, RecordFacts
<1> QED
  BY <1>2, <1>3, <1>4, <1>5, WorkValue, BenchSteps DEF RunWithReturns

LEMMA LoopNext == BenchInv /\ [BenchNext]_allVars => LoopInv'
BY TypesNext, JobNext, StateNext, ValueNext DEF LoopInv

-----------------------------------------------------------------------------
LEMMA DoneFinite ==
    /\ IsFiniteSet(Done) /\ Cardinality(Done) \in Nat
    /\ IsFiniteSet(Client) /\ Cardinality(Client) \in Nat
    /\ IsFiniteSet(Client \X (1 .. TotalTxnsPerClient))
    /\ Cardinality(Client \X (1 .. TotalTxnsPerClient)) = Cardinality(Client) * TotalTxnsPerClient
<1>1. IsFiniteSet(Client) /\ TotalTxnsPerClient \in Nat
  BY BenchAssumption
<1>2. IsFiniteSet(1 .. TotalTxnsPerClient) /\ Cardinality(1 .. TotalTxnsPerClient) = TotalTxnsPerClient
  BY <1>1, FS_Interval
<1>3. /\ IsFiniteSet(Client \X (1 .. TotalTxnsPerClient))
      /\ Cardinality(Client \X (1 .. TotalTxnsPerClient)) = Cardinality(Client) * TotalTxnsPerClient
  BY <1>1, <1>2, FS_Product
<1>4. Done \subseteq Client \X (1 .. TotalTxnsPerClient)
  BY DEF Done
<1> QED
  BY <1>1, <1>3, <1>4, FS_Subset, FS_CardinalityType

\* One more transaction of c is completed.
LEMMA DoneGrows ==
    ASSUME BenchTypes, NEW c \in Client, completed[c] + 1 \in 1 .. TotalTxnsPerClient,
           completed' = [completed EXCEPT ![c] = @ + 1]
    PROVE  Cardinality(Done') = Cardinality(Done) + 1
<1> DEFINE p == <<c, completed[c] + 1>>
<1>1. \A d \in Client : completed[d] \in Nat
  BY BenchAssumption DEF BenchTypes
<1>2. completed'[c] = completed[c] + 1 /\ \A d \in Client \ {c} : completed'[d] = completed[d]
  BY DEF BenchTypes
<1>3. Done' = Done \cup {p} /\ p \notin Done
  <2>1. ASSUME NEW d \in Client, NEW i \in 1 .. TotalTxnsPerClient
        PROVE  i <= completed'[d] <=> (i <= completed[d] \/ <<d, i>> = p)
    BY <1>1, <1>2, <2>1
  <2>2. p \in Client \X (1 .. TotalTxnsPerClient) /\ ~ (p[2] <= completed[p[1]])
    BY <1>1
  <2> HIDE DEF p
  <2>3. ASSUME NEW q \in Client \X (1 .. TotalTxnsPerClient)
        PROVE  q[2] <= completed'[q[1]] <=> (q[2] <= completed[q[1]] \/ q = p)
    BY <2>1
  <2> QED
    BY <2>2, <2>3 DEF Done
<1> HIDE DEF p
<1> QED
  BY <1>3, DoneFinite, FS_AddElement

\* As long as a client works, RunWith has not returned.
LEMMA StillRunning ==
    ASSUME BenchInv, NEW c \in Client,
           \/ StartTxn(c) \/ Work(c) \/ CertifyFor(c)
           \/ RecordCommitted(c) \/ RecordAborted(c) \/ RecordConflicted(c)
    PROVE  report' = NoReport
<1>1. completed[c] \in 0 .. TotalTxnsPerClient /\ completed[c] < TotalTxnsPerClient
  <2>1. CASE StartTxn(c)
    BY <2>1 DEF StartTxn, BenchInv, LoopInv, BenchTypes
  <2>2. CASE job[c] # NoJob
    BY <2>2 DEF BenchInv, LoopInv, BenchTypes, JobInv, Working
  <2> QED
    BY <2>1, <2>2 DEF Work, CertifyFor, RecordCommitted, RecordAborted, RecordConflicted
<1>2. report = NoReport
  BY <1>1, BenchAssumption DEF BenchInv, CountInv
<1> QED
  BY <1>2 DEF StartTxn, Work, CertifyFor, RecordCommitted, RecordAborted, RecordConflicted,
              benchVars, Recorded

LEMMA CountedFinite ==
    ASSUME BenchTypes
    PROVE  /\ IsFiniteSet(RecordedCommits) /\ Cardinality(RecordedCommits) \in Nat
           /\ IsFiniteSet(Conflicted) /\ Cardinality(Conflicted) \in Nat
<1>1. RecordedCommits \subseteq Txn /\ Conflicted \subseteq Client
  BY DEF RecordedCommits, CommittedTxns, Conflicted
<1> QED
  BY <1>1, TxnSubsetFinite, DoneFinite, FS_Subset, FS_CardinalityType

LEMMA StartCount ==
    ASSUME BenchInv, NEW c \in Client, StartTxn(c)
    PROVE  CountInv'
<1>t. PICK t : t = idCounter + 1
  OBVIOUS
<1>1. /\ t \in Txn /\ result[t] = NoResult /\ job[c] = NoJob
      /\ job'[c].txn = t /\ ~ job'[c].conflict
      /\ \A d \in Client \ {c} : job'[d] = job[d]
      /\ UNCHANGED <<result, collector, retryOnAbort, completed>>
  BY <1>t, StartFacts
<1>2. ~ IsCommitted(t) /\ UNCHANGED CommittedTxns
  BY <1>1 DEF IsCommitted, NoResult, CommittedTxns
<1>3. NoJob.txn \notin Txn
  BY JobFacts DEF BenchInv, LoopInv
<1>4. ASSUME NEW u \in Txn, u # t PROVE InJob(u)' <=> InJob(u)
  BY <1>1, <1>3, <1>4 DEF InJob
<1>5. RecordedCommits' = RecordedCommits
  <2>1. \A u \in CommittedTxns : u \in Txn /\ u # t
    BY <1>2 DEF CommittedTxns
  <2> QED
    BY <1>2, <1>4, <2>1 DEF RecordedCommits
<1>6. Conflicted' = Conflicted
  BY <1>1 DEF Conflicted
<1>7. Done' = Done
  BY <1>1 DEF Done
<1> QED
  BY <1>1, <1>5, <1>6, <1>7, StillRunning DEF CountInv, BenchInv

LEMMA CertifyCount ==
    ASSUME BenchInv, NEW c \in Client, Work(c) \/ CertifyFor(c)
    PROVE  CountInv'
<1>t. PICK t : t = job[c].txn
  OBVIOUS
<1>1. UNCHANGED <<collector, retryOnAbort, job, completed>>
  BY DEF Work, CertifyFor, benchVars
<1>2. /\ t \in Txn
      /\ \A u \in Txn \ {t} : result'[u] = result[u]
  BY <1>t, WorkFacts, CertifyFacts DEF Answered
<1>3. InJob(t) /\ \A u : InJob(u)' <=> InJob(u)
  BY <1>t, <1>1 DEF InJob
<1>4. RecordedCommits' = RecordedCommits
  BY <1>2, <1>3 DEF RecordedCommits, CommittedTxns, IsCommitted
<1>5. Conflicted' = Conflicted /\ Done' = Done
  BY <1>1 DEF Conflicted, Done
<1> QED
  BY <1>1, <1>4, <1>5, StillRunning DEF CountInv, BenchInv

\* A client that leaves its transaction t: no other client has t.
LEMMA LeaveFacts ==
    ASSUME BenchInv, NEW c \in Client, NEW t, t = job[c].txn,
           RecordCommitted(c) \/ RecordConflicted(c)
    PROVE  /\ InJob(t) /\ ~ InJob(t)'
           /\ \A u \in Txn \ {t} : InJob(u)' <=> InJob(u)
           /\ UNCHANGED CommittedTxns
<1>1. /\ t \in Txn /\ job[c] # NoJob /\ job'[c] = NoJob
      /\ \A d \in Client \ {c} : job'[d] = job[d]
      /\ UNCHANGED vars
  BY RecordFacts
<1>2. \A d \in Client \ {c} : job[d].txn # t
  BY <1>1 DEF BenchInv, LoopInv, JobInv
<1>3. NoJob.txn \notin Txn
  BY JobFacts DEF BenchInv, LoopInv
<1>4. UNCHANGED CommittedTxns
  BY <1>1 DEF vars, certVars, CommittedTxns, IsCommitted
<1> QED
  BY <1>1, <1>2, <1>3, <1>4 DEF InJob

LEMMA RecordCount ==
    ASSUME BenchInv, NEW c \in Client,
           RecordCommitted(c) \/ RecordAborted(c) \/ RecordConflicted(c)
    PROVE  CountInv'
<1>t. PICK t : t = job[c].txn
  OBVIOUS
<1>0. /\ CountInv /\ BenchTypes /\ report' = NoReport
      /\ collector.totalCommitted \in Nat /\ collector.totalAborted \in Nat
      /\ collector.conflictCount \in Nat /\ retryOnAbort \in BOOLEAN
  BY StillRunning DEF BenchInv, LoopInv, BenchTypes
<1>1. /\ t \in Txn /\ job[c] # NoJob /\ completed[c] + 1 \in 1 .. TotalTxnsPerClient
      /\ UNCHANGED <<vars, retryOnAbort>>
      /\ \A d \in Client \ {c} : job'[d] = job[d]
  BY <1>t, RecordFacts
<1>2. /\ IsFiniteSet(RecordedCommits) /\ Cardinality(RecordedCommits) \in Nat
      /\ IsFiniteSet(Conflicted) /\ Cardinality(Conflicted) \in Nat
      /\ Cardinality(Done) \in Nat
  BY <1>0, CountedFinite, DoneFinite
<1>3. UNCHANGED CommittedTxns
  BY <1>1 DEF vars, certVars, CommittedTxns, IsCommitted
<1>4. CASE RecordCommitted(c)
  <2>1. /\ completed' = [completed EXCEPT ![c] = @ + 1]
        /\ ~ job[c].conflict /\ IsCommitted(t) /\ job'[c] = NoJob
    BY <1>t, <1>4, RecordFacts
  <2>2. RecordedCommits' = RecordedCommits \cup {t} /\ t \notin RecordedCommits
    <3>1. t \in CommittedTxns /\ CommittedTxns \subseteq Txn
      BY <1>1, <2>1 DEF CommittedTxns
    <3>2. /\ InJob(t) /\ ~ InJob(t)'
          /\ \A u \in Txn \ {t} : InJob(u)' <=> InJob(u)
      BY <1>t, <1>4, LeaveFacts
    <3> QED
      BY <1>3, <3>1, <3>2 DEF RecordedCommits
  <2>3. Cardinality(RecordedCommits') = Cardinality(RecordedCommits) + 1
    BY <1>2, <2>2, FS_AddElement
  <2>4. Conflicted' = Conflicted
    BY <1>1, <2>1 DEF Conflicted
  <2>5. Cardinality(Done') = Cardinality(Done) + 1
    BY <1>0, <1>1, <2>1, DoneGrows
  <2>6. /\ collector'.totalCommitted = collector.totalCommitted + 1
        /\ collector'.totalAborted = collector.totalAborted
        /\ collector'.conflictCount = collector.conflictCount
    BY <1>4, CollectorFacts
  <2> QED
    BY <1>0, <1>1, <1>2, <2>3, <2>4, <2>5, <2>6 DEF CountInv
<1>5. CASE RecordAborted(c)
  <2>1. /\ completed' = completed /\ ~ job[c].conflict
        /\ job'[c].txn = t /\ job'[c].conflict
    BY <1>t, <1>5, RecordFacts
  <2>2. job'[c] # NoJob
    BY <1>0, <1>1, <2>1, JobFacts
  <2>3. \A u : InJob(u)' <=> InJob(u)
    BY <1>t, <1>1, <2>1 DEF InJob
  <2>4. RecordedCommits' = RecordedCommits
    BY <1>3, <2>3 DEF RecordedCommits
  <2>5. Conflicted' = Conflicted \cup {c} /\ c \notin Conflicted
    BY <1>1, <2>1, <2>2 DEF Conflicted
  <2>6. Cardinality(Conflicted') = Cardinality(Conflicted) + 1
    BY <1>2, <2>5, FS_AddElement
  <2>7. Done' = Done
    BY <2>1 DEF Done
  <2>8. /\ collector'.totalCommitted = collector.totalCommitted
        /\ collector'.totalAborted = collector.totalAborted + 1
        /\ collector'.conflictCount = collector.conflictCount
    BY <1>5, CollectorFacts
  <2> QED
    BY <1>0, <1>1, <1>2, <2>4, <2>6, <2>7, <2>8 DEF CountInv
<1>6. CASE RecordConflicted(c)
  <2>1. /\ completed' = IF retryOnAbort THEN completed
                        ELSE [completed EXCEPT ![c] = @ + 1]
        /\ job[c].conflict /\ ~ IsCommitted(t) /\ job'[c] = NoJob
    BY <1>t, <1>6, RecordFacts
  <2>2. RecordedCommits' = RecordedCommits
    <3>1. t \notin CommittedTxns /\ CommittedTxns \subseteq Txn
      BY <2>1 DEF CommittedTxns
    <3>2. \A u \in Txn \ {t} : InJob(u)' <=> InJob(u)
      BY <1>t, <1>6, LeaveFacts
    <3> QED
      BY <1>3, <3>1, <3>2 DEF RecordedCommits
  <2>3. Conflicted' = Conflicted \ {c} /\ c \in Conflicted
    BY <1>1, <2>1 DEF Conflicted
  <2>4. Cardinality(Conflicted') = Cardinality(Conflicted) - 1
    BY <1>2, <2>3, FS_RemoveElement
  <2>5. CASE retryOnAbort
    <3>1. Done' = Done
      BY <2>1, <2>5 DEF Done
    <3> QED
      BY <1>0, <1>1, <1>2, <1>6, <2>2, <2>4, <2>5, <3>1, CollectorFacts DEF CountInv
  <2>6. CASE ~ retryOnAbort
    <3>1. Cardinality(Done') = Cardinality(Done) + 1
      BY <1>0, <1>1, <2>1, <2>6, DoneGrows
    <3>2. /\ collector'.totalCommitted = collector.totalCommitted
          /\ collector'.totalAborted = collector.totalAborted
          /\ collector'.conflictCount = collector.conflictCount + 1
      BY <1>6, CollectorFacts
    <3> QED
      BY <1>0, <1>1, <1>2, <2>2, <2>4, <2>6, <3>1, <3>2 DEF CountInv
  <2> QED
    BY <2>5, <2>6
<1> QED
  BY <1>4, <1>5, <1>6

LEMMA CountNext == BenchInv /\ [BenchNext]_allVars => CountInv'
<1> SUFFICES ASSUME BenchInv, [BenchNext]_allVars PROVE CountInv'
  OBVIOUS
<1>1. ASSUME UNCHANGED <<vars, collector, retryOnAbort, job, completed>>
      PROVE  /\ RecordedCommits' = RecordedCommits
             /\ Conflicted' = Conflicted /\ Done' = Done
  <2>1. UNCHANGED <<result, job, completed>>
    BY <1>1 DEF vars, certVars
  <2> QED
    BY <2>1 DEF RecordedCommits, CommittedTxns, IsCommitted, InJob, Conflicted, Done
<1>2. CASE UNCHANGED <<vars, collector, retryOnAbort, job, completed, report>>
  BY <1>1, <1>2 DEF CountInv, BenchInv
<1>3. CASE RunWithReturns
  <2>1. /\ UNCHANGED <<vars, collector, retryOnAbort, job, completed>>
        /\ \A c \in Client : completed[c] = TotalTxnsPerClient
        /\ report' = Report
    BY <1>3 DEF RunWithReturns
  <2>2. /\ Report.TotalCommitted = collector.totalCommitted
        /\ Report.TotalAborted = collector.totalAborted
        /\ Report.ConflictCount = collector.conflictCount
    BY DEF Report
  <2> QED
    BY <1>1, <2>1, <2>2 DEF CountInv, BenchInv
<1> QED
  BY <1>2, <1>3, StartCount, CertifyCount, RecordCount, BenchSteps

-----------------------------------------------------------------------------
LEMMA StaleFact ==
    /\ Stale \subseteq Txn /\ CommittedTxns \subseteq Txn
    /\ \A t \in Stale : result[t] # NoResult
    /\ \A t \in CommittedTxns : result[t] # NoResult
BY DEF Stale, CommittedTxns, IsCommitted, NoResult

\* A client has no open transaction that has read, but for its job.
LEMMA OneOpen ==
    ASSUME BenchInv, NEW own, NEW blame, Blamed(own, blame), NEW c \in Client, job[c] # NoJob,
           NEW t, t = job[c].txn, NEW x \in Txn, x # t, result[x] = NoResult, own[x] = own[t]
    PROVE  readSet[x] = {}
<1>1. CASE x <= idCounter
  <2>1. PICK d \in Client : job[d].txn = x
    BY <1>1 DEF BenchInv, LoopInv, JobInv, InJob
  <2>2. job[d] # NoJob
    BY <2>1, JobFacts DEF BenchInv, LoopInv
  <2>3. own[x] = d /\ own[t] = c
    BY <2>1, <2>2 DEF Blamed
  <2> QED
    BY <2>1, <2>3
<1>2. CASE ~ (x <= idCounter)
  <2>1. x > idCounter
    BY <1>2 DEF BenchInv, TypeOK, ExecTypeOK, Txn
  <2> QED
    BY <2>1 DEF BenchInv, LoopInv, StateInv, IInv, HistoryInv, NotBegun
<1> QED
  BY <1>1, <1>2

LEMMA StartRetry ==
    ASSUME BenchInv, NEW c \in Client, StartTxn(c)
    PROVE  RetryInv'
<1>t. PICK t : t = idCounter + 1
  OBVIOUS
<1>b. PICK own, blame : Blamed(own, blame)
  BY DEF BenchInv, RetryInv
<1>1. /\ t \in Txn /\ idCounter \in Nat /\ idCounter' = t /\ result[t] = NoResult
      /\ state[t] = "unborn" /\ job'[c].txn = t /\ UNCHANGED <<readSet, writeSet, result>>
  BY <1>t, StartFacts
<1>2. \A d \in Client : job'[d] # NoJob =>
        d = c \/ (job[d] # NoJob /\ job'[d] = job[d] /\ job[d].txn \in Txn /\ job[d].txn # t)
  <2>1. \A d \in Client \ {c} : job'[d] = job[d]
    BY <1>t, StartFacts
  <2> QED
    BY <1>t, <2>1, StartOthers
<1>3. readSet[t] = {}
  BY <1>1 DEF BenchInv, LoopInv, StateInv
<1>4. Stale' = Stale /\ CommittedTxns' = CommittedTxns
  BY <1>1 DEF Stale, CommittedTxns, IsCommitted
<1>5. \A s \in Stale \cup CommittedTxns : s \in Txn /\ s # t
  BY <1>1, StaleFact
<1> DEFINE own2 == [u \in Txn |-> IF u = t THEN c ELSE own[u]]
<1>6. own2[t] = c /\ \A u \in Txn : u # t => own2[u] = own[u]
  BY <1>1
<1> HIDE DEF own2
<1>7. \A u \in Txn : u <= idCounter' => own2[u] \in Client
  <2>1. \A u \in Txn : u <= idCounter' => u = t \/ u <= idCounter
    BY <1>t, <1>1 DEF Txn
  <2> QED
    BY <1>b, <1>6, <2>1 DEF Blamed
<1>8. \A d \in Client : job'[d] # NoJob => own2[job'[d].txn] = d
  BY <1>b, <1>1, <1>2, <1>6 DEF Blamed
<1>9. \A s \in Stale : blame[s] \in CommittedTxns /\ own2[blame[s]] # own2[s]
  BY <1>b, <1>5, <1>6 DEF Blamed
<1>10. \A s, u \in Stale : s # u /\ own2[s] = own2[u] => blame[s] # blame[u]
  BY <1>b, <1>5, <1>6 DEF Blamed
<1>11. ASSUME NEW x \in Txn, NEW u \in CommittedTxns, result[x] = NoResult,
              Known(own2, blame, x, u), NEW r \in readSet[x], Writes(u, r.key)
       PROVE  result[u].commitSeq <= r.versionSeen
  <2>1. x # t /\ u # t /\ u \in Txn
    BY <1>3, <1>5, <1>11
  <2>2. Known(own, blame, x, u)
    BY <1>5, <1>6, <1>11, <2>1 DEF Known
  <2> QED
    BY <1>b, <1>11, <2>2 DEF Blamed
<1>12. Blamed(own2, blame)'
  BY <1>1, <1>4, <1>7, <1>8, <1>9, <1>10, <1>11 DEF Blamed, Known, Writes
<1> QED
  BY <1>12 DEF RetryInv

LEMMA WorkRetry ==
    ASSUME BenchInv, NEW c \in Client, Work(c)
    PROVE  RetryInv'
<1>t. PICK t : t = job[c].txn
  OBVIOUS
<1>b. PICK own, blame : Blamed(own, blame)
  BY DEF BenchInv, RetryInv
<1>1. /\ t \in Txn /\ UNCHANGED <<data, result, job, idCounter>>
      /\ \A u \in Txn \ {t} : UNCHANGED <<readSet[u], writeSet[u]>>
      /\ state[t] \in {"active", "submitted"}
      /\ state[t] = "submitted" => UNCHANGED <<readSet[t], writeSet[t]>>
      /\ state[t] = "active" => result[t] = NoResult
  BY <1>t, WorkFacts, WorkKeeps
<1>2. Stale' = Stale /\ CommittedTxns' = CommittedTxns
  BY <1>1 DEF Stale, CommittedTxns, IsCommitted
<1>3. \A u \in CommittedTxns : u \in Txn /\ writeSet'[u] = writeSet[u]
  BY <1>1, StaleFact
<1>4. \A u \in CommittedTxns : \A k : Writes(u, k)' <=> Writes(u, k)
  BY <1>3 DEF Writes
<1>5. \A x \in Txn : \A r \in readSet'[x] :
        r \in readSet[x] \/ (r.key \in Key /\ r.versionSeen = data[r.key].version)
  <2>1. CASE UNCHANGED readSet
    BY <2>1
  <2>2. ASSUME NEW k \in Key, Read(t, k)
        PROVE  readSet'[t] \subseteq readSet[t] \cup {[key |-> k, versionSeen |-> data[k].version]}
    BY <1>1, <2>2 DEF Read, ReadFrom, RecordRead, Get, BenchInv, TypeOK, ExecTypeOK
  <2>3. CASE \E k \in Key : Read(t, k)
    BY <1>1, <2>2, <2>3
  <2> QED
    BY <1>t, <2>1, <2>3, WorkFacts DEF Write, Commit, CommitReturn
<1>6. \A u \in CommittedTxns, k \in Key : Writes(u, k) => result[u].commitSeq <= data[k].version
  <2>1. \A u \in Txn : result[u].commitSeq \in Nat
    BY DEF BenchInv, TypeOK, ImmTypeOK, CertTypeOK, TxnResult
  <2>2. \A k \in Key : data[k].version \in Nat
    BY DEF BenchInv, TypeOK, StoreTypeOK, ReadResult
  <2> SUFFICES ASSUME NEW u \in CommittedTxns, NEW k \in Key, Writes(u, k)
               PROVE  result[u].commitSeq <= data[k].version
    OBVIOUS
  <2>3. u \in Txn
    BY StaleFact
  <2> DEFINE v == LastWrite(writeSet[u], k).value
  <2>4. \/ data[k].version > result[u].commitSeq
        \/ data[k] = [value |-> v, version |-> result[u].commitSeq]
    BY <2>3 DEF CommittedTxns, BenchInv, IInv, HistoryInv, StoreHoldsLastCommit
  <2> HIDE DEF v
  <2> QED
    BY <2>1, <2>2, <2>3, <2>4
<1>7. ASSUME NEW x \in Txn, NEW u \in CommittedTxns, result[x] = NoResult,
             Known(own, blame, x, u), NEW r \in readSet'[x], Writes(u, r.key)
      PROVE  result[u].commitSeq <= r.versionSeen
  <2>1. CASE r \in readSet[x]
    BY <1>b, <1>7, <2>1 DEF Blamed
  <2>2. CASE r.key \in Key /\ r.versionSeen = data[r.key].version
    BY <1>6, <1>7, <2>2
  <2> QED
    BY <1>5, <2>1, <2>2
<1>8. \A x, u : Known(own, blame, x, u)' <=> Known(own, blame, x, u)
  BY <1>2 DEF Known
<1>9. Blamed(own, blame)'
  BY <1>b, <1>1, <1>2, <1>4, <1>7, <1>8 DEF Blamed
<1> QED
  BY <1>9 DEF RetryInv

\* A transaction is turned down: the commit that replaced what it read is one
\* that its client has not made and has not been turned down for before.
LEMMA StaleRetry ==
    ASSUME BenchInv, NEW c \in Client, NEW t \in Txn, t = job[c].txn, job[c] # NoJob,
           result[t] = NoResult, Answered(t, Aborted("stale")),
           UNCHANGED <<idCounter, job, readSet, writeSet>>,
           \E r \in readSet[t] : r.versionSeen # data[r.key].version
    PROVE  RetryInv'
<1>b. PICK own, blame : Blamed(own, blame)
  BY DEF BenchInv, RetryInv
<1>1. /\ result'[t] # NoResult /\ result'[t].decision = "stale"
      /\ \A u \in Txn \ {t} : result'[u] = result[u]
  BY DEF Answered, Aborted, NoResult
<1>2. Stale' = Stale \cup {t} /\ t \notin Stale
  BY <1>1, StaleFact DEF Stale
<1>3. CommittedTxns' = CommittedTxns /\ t \notin CommittedTxns
  BY <1>1, StaleFact DEF CommittedTxns, IsCommitted
<1>4. PICK r \in readSet[t] : r.versionSeen # data[r.key].version
  OBVIOUS
<1>5. PICK u \in Txn : IsCommitted(u) /\ Writes(u, r.key) /\ result[u].commitSeq = data[r.key].version
  BY <1>4 DEF BenchInv, IInv, HistoryInv, ReplacedByCommit
<1>6. u \in CommittedTxns /\ ~ (result[u].commitSeq <= r.versionSeen)
  <2>1. r.versionSeen \in Nat /\ data[r.key].version \in Nat
    BY DEF BenchInv, TypeOK, ExecTypeOK, ReadEntry, StoreTypeOK, ReadResult
  <2>2. r.versionSeen <= data[r.key].version
    BY DEF BenchInv, IInv, HistoryInv, ReadsNotAhead
  <2> QED
    BY <1>4, <1>5, <2>1, <2>2 DEF CommittedTxns
<1>7. ~ Known(own, blame, t, u)
  BY <1>b, <1>5, <1>6 DEF Blamed
<1> DEFINE blame2 == [x \in Txn |-> IF x = t THEN u ELSE blame[x]]
<1>8. blame2[t] = u /\ \A s \in Stale : s # t /\ blame2[s] = blame[s]
  BY <1>2, StaleFact
<1> HIDE DEF blame2
<1>9. \A s \in Stale' : blame2[s] \in CommittedTxns /\ own[blame2[s]] # own[s]
  BY <1>b, <1>2, <1>6, <1>7, <1>8 DEF Blamed, Known
<1>10. \A s, x \in Stale' : s # x /\ own[s] = own[x] => blame2[s] # blame2[x]
  BY <1>b, <1>2, <1>7, <1>8 DEF Blamed, Known
<1>11. ASSUME NEW x \in Txn, NEW v \in CommittedTxns, result'[x] = NoResult,
              Known(own, blame2, x, v)', NEW q \in readSet[x], Writes(v, q.key)
       PROVE  result'[v].commitSeq <= q.versionSeen
  <2>1. x # t /\ result[x] = NoResult /\ result'[v] = result[v]
    BY <1>1, <1>3, <1>11, StaleFact
  <2>2. own[x] # own[t]
    BY <1>b, <1>11, <2>1, OneOpen
  <2>3. Known(own, blame, x, v)
    BY <1>2, <1>8, <1>11, <2>2 DEF Known
  <2> QED
    BY <1>b, <1>11, <2>1, <2>3 DEF Blamed
<1>12. \A v, k : Writes(v, k)' <=> Writes(v, k)
  BY DEF Writes
<1>13. Blamed(own, blame2)'
  BY <1>b, <1>3, <1>9, <1>10, <1>11, <1>12 DEF Blamed
<1> QED
  BY <1>13 DEF RetryInv

\* A commit is known to its client alone, whose next transaction is not open.
LEMMA CommitRetry ==
    ASSUME BenchInv, NEW c \in Client, NEW t \in Txn, t = job[c].txn, job[c] # NoJob,
           result[t] = NoResult, NEW seq, Answered(t, Committed(seq)),
           UNCHANGED <<idCounter, job, readSet, writeSet>>
    PROVE  RetryInv'
<1>b. PICK own, blame : Blamed(own, blame)
  BY DEF BenchInv, RetryInv
<1>1. /\ result'[t] # NoResult /\ result'[t].decision = "committed"
      /\ \A u \in Txn \ {t} : result'[u] = result[u]
  BY DEF Answered, Committed, NoResult
<1>2. Stale' = Stale /\ t \notin Stale
  BY <1>1, StaleFact DEF Stale
<1>3. CommittedTxns' = CommittedTxns \cup {t} /\ t \notin CommittedTxns
  BY <1>1, StaleFact DEF CommittedTxns, IsCommitted
<1>4. ASSUME NEW x \in Txn, NEW v \in CommittedTxns', result'[x] = NoResult,
             Known(own, blame, x, v), NEW q \in readSet[x], Writes(v, q.key)
      PROVE  result'[v].commitSeq <= q.versionSeen
  <2>1. x # t /\ result[x] = NoResult
    BY <1>1, <1>4
  <2>2. own[x] # own[t]
    BY <1>b, <1>4, <2>1, OneOpen
  <2>3. v # t /\ v \in CommittedTxns
    BY <1>b, <1>3, <1>4, <2>2 DEF Known, Blamed
  <2>4. result'[v] = result[v]
    BY <1>1, <2>3, StaleFact
  <2> QED
    BY <1>b, <1>4, <2>1, <2>3, <2>4 DEF Blamed
<1>5. \A v, k : Writes(v, k)' <=> Writes(v, k)
  BY DEF Writes
<1>6. \A x, v : Known(own, blame, x, v)' <=> Known(own, blame, x, v)
  BY <1>2 DEF Known
<1>7. Blamed(own, blame)'
  BY <1>b, <1>2, <1>3, <1>4, <1>5, <1>6 DEF Blamed
<1> QED
  BY <1>7 DEF RetryInv

LEMMA RetryNext == BenchInv /\ [BenchNext]_allVars => RetryInv'
<1> SUFFICES ASSUME BenchInv, [BenchNext]_allVars PROVE RetryInv'
  OBVIOUS
<1>1. ASSUME UNCHANGED <<idCounter, readSet, writeSet, result>>,
             \A c \in Client : job'[c] # NoJob => job[c] # NoJob /\ job'[c].txn = job[c].txn
      PROVE  RetryInv'
  <2>1. PICK own, blame : Blamed(own, blame)
    BY DEF BenchInv, RetryInv
  <2>2. Stale' = Stale /\ CommittedTxns' = CommittedTxns
    BY <1>1 DEF Stale, CommittedTxns, IsCommitted
  <2>3. \A x, v : Known(own, blame, x, v)' <=> Known(own, blame, x, v)
    BY <2>2 DEF Known
  <2>4. \A v, k : Writes(v, k)' <=> Writes(v, k)
    BY <1>1 DEF Writes
  <2>5. Blamed(own, blame)'
    BY <1>1, <2>1, <2>2, <2>3, <2>4 DEF Blamed
  <2> QED
    BY <2>5 DEF RetryInv
<1>2. ASSUME NEW c \in Client, CertifyFor(c) PROVE RetryInv'
  <2>1. PICK t : t = job[c].txn
    OBVIOUS
  <2>2. /\ t \in Txn /\ job[c] # NoJob /\ result[t] = NoResult
        /\ UNCHANGED <<idCounter, job, readSet, writeSet>>
    BY <1>2, <2>1, CertifyFacts DEF Waiting
  <2>3. CASE Answered(t, Aborted("stale")) /\ \E r \in readSet[t] : r.versionSeen # data[r.key].version
    BY <2>1, <2>2, <2>3, StaleRetry
  <2>4. CASE UNCHANGED result
    BY <1>1, <2>2, <2>4
  <2>5. CASE Answered(t, Committed(commitSeq))
    <3>1. PICK seq : seq = commitSeq
      OBVIOUS
    <3> QED
      BY <2>1, <2>2, <2>5, <3>1, CommitRetry
  <2> QED
    BY <1>2, <2>1, <2>3, <2>4, <2>5, CertifyFacts
<1>3. ASSUME NEW c \in Client, RecordCommitted(c) \/ RecordAborted(c) \/ RecordConflicted(c)
      PROVE  RetryInv'
  <2>1. /\ job[c] # NoJob /\ UNCHANGED vars
        /\ \A d \in Client \ {c} : job'[d] = job[d]
        /\ job'[c] = NoJob \/ job'[c].txn = job[c].txn
    BY <1>3, RecordFacts
  <2> QED
    BY <1>1, <2>1 DEF vars, execVars, certVars
<1>4. ASSUME RunWithReturns \/ UNCHANGED <<vars, collector, retryOnAbort, job, completed, report>>
      PROVE  RetryInv'
  BY <1>1, <1>4 DEF RunWithReturns, vars, execVars, certVars
<1> QED
  BY <1>2, <1>3, <1>4, StartRetry, WorkRetry, BenchSteps

-----------------------------------------------------------------------------
LEMMA InitBenchInv == BenchInit => BenchInv
<1> SUFFICES ASSUME BenchInit PROVE BenchInv
  OBVIOUS
<1>1. TypeOK /\ IInv
  BY InitImplements, InitTypeOK, InitIInv
<1>2. /\ idCounter = 0 /\ \A c \in Client : job[c] = NoJob /\ completed[c] = 0
      /\ \A t \in Txn : /\ state[t] = "unborn" /\ readSet[t] = {} /\ writeSet[t] = << >>
                        /\ observed[t] = {} /\ result[t] = NoResult
  BY DEF BenchInit, NewEngine, NewImmediateCertifier, NewCertifier
<1>3. CommittedTxns = {} /\ Stale = {}
  BY <1>2 DEF CommittedTxns, Stale, IsCommitted, NoResult
<1>4. IsFiniteSet({}) /\ Cardinality({}) = 0
  BY FS_EmptySet
<1>5. BenchTypes
  <2>1. collector = [totalCommitted |-> 0, totalAborted |-> 0, conflictCount |-> 0,
                     latencies |-> EmptyBag]
    BY DEF BenchInit, NewCollector
  <2>2. /\ job \in [Client -> {NoJob} \cup Job]
        /\ completed \in [Client -> 0 .. TotalTxnsPerClient]
        /\ retryOnAbort \in BOOLEAN
    BY BenchAssumption DEF BenchInit
  <2> QED
    BY <2>1, <2>2 DEF BenchTypes
<1>6. JobInv
  BY <1>2 DEF JobInv, Txn
<1>7. StateInv
  BY <1>2 DEF StateInv
<1>8. ValueInv
  <2>1. ASSUME NEW k \in Key PROVE data[k].value = Itoa(Cardinality(Writers(k)))
    <3> DEFINE initial == [j \in Key |-> Itoa(0)]
    <3>1. initial[k] = Itoa(0) /\ DOMAIN initial = Key /\ data = Loaded(NewMemStore, initial)
      BY DEF BenchInit
    <3> HIDE DEF initial
    <3>2. data[k] = [value |-> initial[k], version |-> 1]
      BY <3>1 DEF Loaded
    <3>3. data[k].value = Itoa(0)
      BY <3>1, <3>2
    <3>4. Writers(k) = {}
      BY <1>3 DEF Writers
    <3> QED
      BY <1>4, <3>3, <3>4
  <2>2. CountersExact
    BY <2>1 DEF CountersExact
  <2> QED
    BY <1>2, <2>2 DEF ValueInv, ReadsSmall, WritesIncrement
<1>9. CountInv
  <2>1. RecordedCommits = {} /\ Conflicted = {}
    BY <1>2, <1>3 DEF RecordedCommits, Conflicted
  <2>2. Done = {}
    BY <1>2 DEF Done
  <2> QED
    BY <1>4, <2>1, <2>2 DEF CountInv, BenchInit, NewCollector
<1>10. RetryInv
  <2>1. ASSUME NEW own, NEW blame PROVE Blamed(own, blame)
    BY <1>2, <1>3 DEF Blamed, Txn
  <2> QED
    BY <2>1 DEF RetryInv
<1> QED
  BY <1>1, <1>5, <1>6, <1>7, <1>8, <1>9, <1>10 DEF BenchInv, LoopInv

LEMMA NextBenchInv == BenchInv /\ [BenchNext]_allVars => BenchInv'
BY StepInvariants, LoopNext, CountNext, RetryNext DEF BenchInv

(***************************************************************************)
(* The benchmark's inductive invariant holds, whatever the number of       *)
(* clients, keys and transactions (runClient, pickKeys, pickFromSlice and  *)
(* the layers they call).                                                  *)
(***************************************************************************)
THEOREM BenchInvariant == BenchSpec => []BenchInv
BY InitBenchInv, NextBenchInv, PTL DEF BenchSpec

(***************************************************************************)
(* The goroutines of RunWith use the layers only as ImmediateSystem allows *)
(* (runClient's values stay within those the store can hold), so whatever  *)
(* is proved of ImmediateSystem holds while the benchmark runs.            *)
(***************************************************************************)
THEOREM BenchImplements == BenchSpec => Spec
<1>1. BenchInit => Init
  BY InitImplements
<1>2. BenchInv /\ [BenchNext]_allVars => [Next]_vars
  BY StepImplements
<1> QED
  BY <1>1, <1>2, BenchInvariant, PTL DEF BenchSpec, Spec

-----------------------------------------------------------------------------
(***************************************************************************)
(* No increment is lost and none is made twice: while any number of        *)
(* clients race, abort and retry, each counter is the number of committed  *)
(* transactions that write it (runClient's read, strconv and write).       *)
(***************************************************************************)
THEOREM NoIncrementLost == BenchSpec => []IncrementsCounted
<1>1. BenchInv => IncrementsCounted
  <2> SUFFICES ASSUME BenchInv PROVE IncrementsCounted
    OBVIOUS
  <2>1. ASSUME NEW k \in Key
        PROVE  Atoi(data[k].value) = Cardinality({t \in CommittedTxns : Writes(t, k)})
    <3>1. data[k].value = Itoa(Cardinality(Writers(k)))
      BY DEF BenchInv, LoopInv, ValueInv, CountersExact
    <3> QED
      BY <3>1, AtoiItoa DEF Writers
  <2>2. ASSUME NEW t \in CommittedTxns
        PROVE  Cardinality(KeysOf(writeSet[t])) = Min({WritesPerTxn, ReadsPerTxn})
    <3>1. t \in Txn /\ result[t] # NoResult
      BY StaleFact
    <3>2. state[t] \notin {"unborn", "active"}
      BY <3>1 DEF BenchInv, IInv, HistoryInv, AnsweredNotActive
    <3> QED
      BY <3>1, <3>2 DEF BenchInv, LoopInv, StateInv, WritesEach
  <2> QED
    BY <2>1, <2>2 DEF IncrementsCounted
<1> QED
  BY <1>1, BenchInvariant, PTL

(***************************************************************************)
(* The report that RunWith returns agrees with the certifier and with the  *)
(* configuration, although clients record an abort in two calls of the     *)
(* Collector.                                                              *)
(***************************************************************************)
THEOREM ReportRight == BenchSpec => []ReportConsistent
<1>1. BenchInv => ReportConsistent
  <2> SUFFICES ASSUME BenchInv, report # NoReport
               PROVE  /\ report.TotalCommitted = Cardinality(CommittedTxns)
                      /\ report.ConflictCount = report.TotalAborted
                      /\ report.TotalCommitted + (IF retryOnAbort THEN 0 ELSE report.TotalAborted)
                             = Cardinality(Client) * TotalTxnsPerClient
    BY DEF ReportConsistent
  <2>1. CountInv /\ BenchTypes /\ \A c \in Client : completed[c] = TotalTxnsPerClient
    BY DEF BenchInv, LoopInv, CountInv
  <2>2. \A c \in Client : job[c] = NoJob
    BY <2>1, BenchAssumption DEF BenchInv, LoopInv, JobInv, Working
  <2>3. \A t \in Txn : ~ InJob(t)
    BY <2>1, <2>2, JobFacts DEF InJob
  <2>4. RecordedCommits = CommittedTxns
    BY <2>3 DEF RecordedCommits, CommittedTxns
  <2>5. Conflicted = {} /\ Cardinality(Conflicted) = 0
    BY <2>2, FS_EmptySet DEF Conflicted
  <2>6. Done = Client \X (1 .. TotalTxnsPerClient)
    BY <2>1, BenchAssumption DEF Done
  <2>7. Cardinality(Done) = Cardinality(Client) * TotalTxnsPerClient
    BY <2>6, DoneFinite
  <2>8. /\ collector.totalAborted = collector.conflictCount
        /\ collector.conflictCount \in Nat
    BY <2>1, <2>5 DEF CountInv, BenchTypes
  <2> QED
    BY <2>1, <2>4, <2>7, <2>8 DEF CountInv
<1> QED
  BY <1>1, BenchInvariant, PTL

-----------------------------------------------------------------------------
\* The pairs of a client and a commit of another client.
LEMMA OthersCommits ==
    ASSUME NEW C, IsFiniteSet(C), NEW own, \A u \in C : own[u] \in Client
    PROVE  LET P == {p \in Client \X C : own[p[2]] # p[1]}
           IN  /\ IsFiniteSet(P)
               /\ Cardinality(P) = (Cardinality(Client) - 1) * Cardinality(C)
<1> DEFINE P == {p \in Client \X C : own[p[2]] # p[1]}
           Q == {p \in Client \X C : own[p[2]] = p[1]}
           f == [u \in C |-> <<own[u], u>>]
<1>1. IsFiniteSet(Client) /\ Cardinality(Client) \in Nat /\ Cardinality(C) \in Nat
  BY BenchAssumption, FS_CardinalityType
<1>2. f \in Bijection(C, Q)
  <2>1. f \in [C -> Q]
    OBVIOUS
  <2>2. \A u, v \in C : f[u] = f[v] => u = v
    OBVIOUS
  <2>3. \A q \in Q : \E u \in C : f[u] = q
    OBVIOUS
  <2> HIDE DEF f, Q
  <2> QED
    BY <2>1, <2>2, <2>3 DEF Bijection, Injection, Surjection, IsInjective
<1>3. Cardinality(Q) = Cardinality(C)
  BY <1>2, FS_Bijection DEF ExistsBijection
<1> DEFINE S == Client \X C
<1>4. IsFiniteSet(S) /\ Cardinality(S) = Cardinality(Client) * Cardinality(C)
  BY <1>1, FS_Product
<1>5. P = S \ Q /\ S \cap Q = Q
  OBVIOUS
<1> HIDE DEF P, Q, S
<1>6. IsFiniteSet(P) /\ Cardinality(P) = Cardinality(S) - Cardinality(Q)
  <2>1. IsFiniteSet(S \ Q) /\ Cardinality(S \ Q) = Cardinality(S) - Cardinality(S \cap Q)
    BY <1>4, FS_Difference, Zenon
  <2> QED
    BY <1>5, <2>1, Zenon
<1>7. \A m, n \in Nat : m * n - n = (m - 1) * n
  OBVIOUS
<1>8. IsFiniteSet(P) /\ Cardinality(P) = (Cardinality(Client) - 1) * Cardinality(C)
  <2>1. Cardinality(P) = Cardinality(Client) * Cardinality(C) - Cardinality(C)
    BY <1>3, <1>4, <1>6
  <2>2. Cardinality(Client) * Cardinality(C) - Cardinality(C)
          = (Cardinality(Client) - 1) * Cardinality(C)
    BY <1>1, <1>7
  <2> QED
    BY <1>6, <2>1, <2>2
<1> QED
  BY <1>8 DEF P

(***************************************************************************)
(* What retrying costs is bounded for any number of clients: a commit      *)
(* turns down at most one transaction of every other client, since         *)
(* runClient starts anew and reads the committed version.                  *)
(***************************************************************************)
THEOREM RetriesBound == BenchSpec => []RetriesBounded
<1>1. BenchInv => RetriesBounded
  <2> SUFFICES ASSUME BenchInv PROVE RetriesBounded
    OBVIOUS
  <2>1. PICK own, blame : Blamed(own, blame)
    BY DEF BenchInv, RetryInv
  <2>2. \A t \in Txn : result[t] # NoResult => own[t] \in Client
    <3> SUFFICES ASSUME NEW t \in Txn, result[t] # NoResult PROVE own[t] \in Client
      OBVIOUS
    <3>1. state[t] # "unborn"
      BY DEF BenchInv, IInv, HistoryInv, AnsweredNotActive
    <3>2. ~ (t > idCounter)
      BY <3>1 DEF BenchInv, IInv, HistoryInv, NotBegun
    <3>3. t <= idCounter
      BY <3>2 DEF BenchInv, TypeOK, ExecTypeOK, Txn
    <3> QED
      BY <2>1, <3>3 DEF Blamed
  <2>3. /\ \A u \in CommittedTxns : own[u] \in Client
        /\ \A t \in Stale : own[t] \in Client
    BY <2>2, StaleFact
  <2> DEFINE P == {p \in Client \X CommittedTxns : own[p[2]] # p[1]}
             f == [t \in Stale |-> <<own[t], blame[t]>>]
  <2>4. IsFiniteSet(P) /\ Cardinality(P) = (Cardinality(Client) - 1) * Cardinality(CommittedTxns)
    BY <2>3, StaleFact, TxnSubsetFinite, OthersCommits
  <2>5. f \in [Stale -> P]
    BY <2>1, <2>3 DEF Blamed
  <2>6. \A s, t \in Stale : f[s] = f[t] => s = t
    BY <2>1 DEF Blamed
  <2> HIDE DEF f, P
  <2>7. f \in Injection(Stale, P)
    BY <2>5, <2>6 DEF Injection, IsInjective
  <2>8. Cardinality(Stale) <= Cardinality(P)
    BY <2>4, <2>7, FS_Injection
  <2> QED
    BY <2>4, <2>8 DEF RetriesBounded, Stale
<1> QED
  BY <1>1, BenchInvariant, PTL

-----------------------------------------------------------------------------
(***************************************************************************)
(* The collector's samples and the percentile of its report.               *)
(***************************************************************************)
Samples(b) ==
    /\ IsFiniteSet(DOMAIN b)
    /\ DOMAIN b \subseteq Nat
    /\ \A d \in DOMAIN b : b[d] \in Nat

SampleInv == "latencies" \in DOMAIN collector /\ Samples(collector.latencies)

LEMMA BagAddSamples ==
    ASSUME NEW b, Samples(b), NEW d \in Nat
    PROVE  Samples(B!BagAdd(b, d))
<1>1. IsFiniteSet(DOMAIN b \cup {d}) /\ DOMAIN b \cup {d} \subseteq Nat
  BY FS_AddElement DEF Samples
<1>2. CASE d \in DOMAIN b
  BY <1>2 DEF Samples, B!BagAdd
<1>3. CASE d \notin DOMAIN b
  <2>1. B!BagAdd(b, d) = [e \in DOMAIN b \cup {d} |-> IF e = d THEN 1 ELSE b[e]]
    BY <1>3 DEF B!BagAdd
  <2> QED
    BY <1>1, <2>1 DEF Samples
<1> QED
  BY <1>2, <1>3

\* A finite set of naturals has a bound.
LEMMA FiniteBounded ==
    ASSUME NEW S, IsFiniteSet(S), S \subseteq Nat
    PROVE  \E n \in Nat : \A x \in S : x <= n
<1> DEFINE w == [x \in S |-> x]
           n == SumFunctionOnSet(w, S)
<1>1. \A x \in S : w[x] \in Nat
  OBVIOUS
<1>2. n \in Nat /\ \A x \in S : n = w[x] + SumFunctionOnSet(w, S \ {x})
  BY <1>1, SumRemove
<1>3. ASSUME NEW x \in S PROVE x <= n
  <2>1. IsFiniteSet(S \ {x}) /\ \A y \in S \ {x} : w[y] \in Nat
    BY <1>1, FS_RemoveElement
  <2>2. SumFunctionOnSet(w, S \ {x}) \in Nat
    BY <2>1, SumRemove
  <2>3. n = w[x] + SumFunctionOnSet(w, S \ {x}) /\ w[x] = x /\ x \in Nat
    BY <1>2
  <2> HIDE DEF n, w
  <2> QED
    BY <1>2, <2>2, <2>3
<1> HIDE DEF n
<1> QED
  BY <1>2, <1>3

LEMMA LeastNat ==
    ASSUME NEW T, T \subseteq Nat, T # {}
    PROVE  Min(T) \in T /\ \A y \in T : Min(T) <= y
<1>1. \E x \in T : \A y \in T : x <= y
  BY NatMin
<1> QED
  BY <1>1 DEF Min

LEMMA IndexFacts ==
    ASSUME NEW n \in Nat \ {0}
    PROVE  /\ P95Index(n) \in 0 .. n - 1
           /\ (P95Index(n) + 1) * 100 >= n * 95
           /\ P95Index(n) * 100 <= n * 95
<1> DEFINE a == (n * 95) \div 100
           T == {a, n - 1}
           i == Min(T)
<1>1. a \in Nat /\ a * 100 <= n * 95 /\ n * 95 < (a + 1) * 100
  OBVIOUS
<1>2. n - 1 \in Nat
  OBVIOUS
<1> HIDE DEF a
<1>3. T \subseteq Nat /\ T # {}
  BY <1>1, <1>2
<1>4. i \in T /\ \A y \in T : i <= y
  <2> HIDE DEF T
  <2> QED
    BY <1>3, LeastNat
<1>5. i \in {a, n - 1} /\ i <= a /\ i <= n - 1
  BY <1>4
<1>6. P95Index(n) = i
  BY DEF P95Index, a
<1> HIDE DEF i
<1> QED
  BY <1>1, <1>2, <1>5, <1>6

LEMMA PercentileOf ==
    ASSUME NEW b, Samples(b), NEW n, n = Size(b), n > 0,
           NEW i, i = P95Index(n), NEW p, p = SortedAt(b, i)
    PROVE  /\ p \in DOMAIN b
           /\ UpTo(b, p) * 100 >= n * 95
           /\ (UpTo(b, p) - b[p]) * 100 <= n * 95
<1> DEFINE D == DOMAIN b
           Low(d) == {e \in D : e <= d}
           T == {d \in D : UpTo(b, d) > i}
<1>1. IsFiniteSet(D) /\ D \subseteq Nat /\ \A d \in D : b[d] \in Nat
  BY DEF Samples
<1>2. n = SumFunctionOnSet(b, D) /\ n \in Nat
  <2>1. n = SumFunctionOnSet(b, D)
    BY DEF Size, SumFunction
  <2> QED
    BY <1>1, <2>1, SumRemove
<1>3. n \in Nat \ {0} /\ D # {}
  BY <1>2, SumEmpty
<1>4. i \in 0 .. n - 1 /\ (i + 1) * 100 >= n * 95 /\ i * 100 <= n * 95
  BY <1>3, IndexFacts
<1>5. \A d : UpTo(b, d) = SumFunctionOnSet(b, Low(d))
  BY DEF UpTo
<1>6. ASSUME NEW S, S \subseteq D
      PROVE  /\ SumFunctionOnSet(b, S) \in Nat
             /\ \A x \in S : SumFunctionOnSet(b, S) = b[x] + SumFunctionOnSet(b, S \ {x})
  <2>1. IsFiniteSet(S) /\ \A x \in S : b[x] \in Nat
    BY <1>1, <1>6, FS_Subset
  <2> QED
    BY <2>1, SumRemove
<1>7. T # {}
  <2>1. PICK m \in Nat : \A x \in D : x <= m
    BY <1>1, FiniteBounded
  <2>2. Max(D) \in D /\ \A y \in D : y <= Max(D)
    BY <1>1, <1>3, <2>1, BoundedMax
  <2>3. Low(Max(D)) = D
    BY <2>2
  <2>4. UpTo(b, Max(D)) = n
    BY <1>2, <1>5, <2>3, Zenon
  <2> QED
    BY <1>3, <1>4, <2>2, <2>4
<1>8. p \in D /\ UpTo(b, p) > i /\ \A y \in T : p <= y
  <2>1. T \subseteq Nat /\ p = Min(T)
    BY <1>1 DEF SortedAt
  <2>2. p \in T /\ \A y \in T : p <= y
    <3> HIDE DEF T
    <3> QED
      BY <1>7, <2>1, LeastNat
  <2> QED
    BY <2>2
<1>9. p \in Nat /\ UpTo(b, p) \in Nat /\ b[p] \in Nat
  BY <1>1, <1>5, <1>6, <1>8
<1>10. UpTo(b, p) = b[p] + SumFunctionOnSet(b, Low(p) \ {p})
  <2>1. Low(p) \subseteq D /\ p \in Low(p)
    BY <1>8, <1>9
  <2> HIDE DEF Low
  <2> QED
    BY <1>5, <1>6, <2>1
<1>11. SumFunctionOnSet(b, Low(p) \ {p}) \in Nat /\ SumFunctionOnSet(b, Low(p) \ {p}) <= i
  <2> DEFINE L == Low(p) \ {p}
  <2>1. L \subseteq Nat /\ \A x \in L : x <= p /\ x # p
    BY <1>1
  <2>2. SumFunctionOnSet(b, L) \in Nat
    BY <1>6
  <2>3. CASE L = {}
    <3> HIDE DEF L
    <3>1. SumFunctionOnSet(b, L) = 0
      BY <2>3, SumEmpty, Zenon
    <3> QED
      BY <1>4, <2>2, <3>1 DEF L
  <2>4. CASE L # {}
    <3> DEFINE q == Max(L)
    <3>1. q \in L /\ \A y \in L : y <= q
      <4> HIDE DEF L
      <4> QED
        BY <1>9, <2>1, <2>4, BoundedMax
    <3> HIDE DEF q
    <3>2. q \in D /\ q < p
      BY <1>9, <2>1, <3>1
    <3>3. L = Low(q)
      BY <1>1, <1>9, <3>1, <3>2
    <3>4. q \notin T
      BY <1>1, <1>8, <1>9, <3>2
    <3>5. SumFunctionOnSet(b, L) = UpTo(b, q)
      BY <1>5, <3>3, Zenon
    <3> QED
      BY <1>4, <2>2, <3>2, <3>4, <3>5
  <2> QED
    BY <2>2, <2>3, <2>4
<1> HIDE DEF T, Low
<1>12. \A u, v, c : u \in Nat /\ v \in Nat /\ c \in Nat /\ u = c + v /\ u > i /\ v <= i =>
          u * 100 >= n * 95 /\ (u - c) * 100 <= n * 95
  BY <1>3, <1>4
<1> QED
  BY <1>8, <1>9, <1>10, <1>11, <1>12

LEMMA SampleNext == SampleInv /\ [BenchNext]_allVars => SampleInv'
<1> SUFFICES ASSUME SampleInv, [BenchNext]_allVars PROVE SampleInv'
  OBVIOUS
<1>1. ASSUME NEW c \in Client, RecordCommitted(c) \/ RecordAborted(c) PROVE SampleInv'
  <2>1. PICK d \in Latency : RecordCommit(d) \/ RecordAbort(d)
    BY <1>1 DEF RecordCommitted, RecordAborted
  <2>2. PICK b : b = B!BagAdd(collector.latencies, d)
    OBVIOUS
  <2>3. collector'.latencies = b /\ DOMAIN collector' = DOMAIN collector
    BY <2>1, <2>2 DEF RecordCommit, RecordAbort, SampleInv
  <2>4. Samples(b)
    BY <2>2, BagAddSamples, LatencyAssumption DEF SampleInv
  <2> QED
    BY <2>3, <2>4 DEF SampleInv
<1>2. ASSUME NEW c \in Client, RecordConflicted(c) PROVE SampleInv'
  <2>1. collector'.latencies = collector.latencies /\ DOMAIN collector' = DOMAIN collector
    BY <1>2 DEF RecordConflicted, RecordConflict
  <2> QED
    BY <2>1 DEF SampleInv
<1>3. ASSUME UNCHANGED collector PROVE SampleInv'
  BY <1>3 DEF SampleInv
<1>4. ASSUME NEW c \in Client, StartTxn(c) \/ Work(c) \/ CertifyFor(c) PROVE UNCHANGED collector
  BY <1>4 DEF StartTxn, Work, CertifyFor, benchVars
<1>5. RunWithReturns => UNCHANGED collector
  BY DEF RunWithReturns
<1> QED
  BY <1>1, <1>2, <1>3, <1>4, <1>5, BenchSteps

(***************************************************************************)
(* The percentile that the report gives is one, whatever latencies the     *)
(* clients have recorded and however many.                                 *)
(***************************************************************************)
THEOREM PercentileCorrect == BenchSpec => []PercentileRight
<1>1. BenchInit => SampleInv
  <2>1. ASSUME BenchInit PROVE SampleInv
    <3>1. collector.latencies = EmptyBag /\ "latencies" \in DOMAIN collector
      BY <2>1 DEF BenchInit, NewCollector
    <3>2. DOMAIN EmptyBag = {}
      BY DEF EmptyBag, SetToBag
    <3> QED
      BY <3>1, <3>2, FS_EmptySet DEF SampleInv, Samples
  <2> QED
    BY <2>1
<1>2. SampleInv => PercentileRight
  <2>1. SUFFICES ASSUME SampleInv, NEW b, b = collector.latencies, NEW n, n = Size(b), n > 0,
                        NEW p, p = Report.P95Latency
                 PROVE  /\ p \in DOMAIN b
                        /\ UpTo(b, p) * 100 >= n * 95
                        /\ (UpTo(b, p) - b[p]) * 100 <= n * 95
    BY DEF PercentileRight
  <2>2. p = SortedAt(b, P95Index(n))
    BY <2>1 DEF Report
  <2> QED
    BY <2>1, <2>2, PercentileOf DEF SampleInv
<1> QED
  BY <1>1, <1>2, SampleNext, PTL DEF BenchSpec
=============================================================================

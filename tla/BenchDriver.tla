---------------------------- MODULE BenchDriver -----------------------------
(***************************************************************************)
(* The benchmark driver (pkg/benchmark) on the layers in one process with  *)
(* immediate certification: NumClients goroutines increment counters,      *)
(* retry what was aborted if RetryOnAbort is set, and record what happened *)
(* in one Collector, whose report RunWith returns when all are done.       *)
(***************************************************************************)
EXTENDS ImmediateSystem, Metrics, Strconv

CONSTANTS
    Client,               \* the goroutines, NumClients of them
    ReadsPerTxn, WritesPerTxn, TotalTxnsPerClient

\* pickKeys draws until it has ReadsPerTxn distinct keys, so there have to be
\* that many.  A commit makes each of the other clients retry at most once.
\* A counter is incremented at most once by a transaction.
ASSUME BenchAssumption ==
    /\ ReadsPerTxn \in 0 .. Cardinality(Key)
    /\ WritesPerTxn \in Nat /\ TotalTxnsPerClient \in Nat
    /\ IsFiniteSet(Client)
    /\ \A n \in 0 .. MaxTxns : Itoa(n) \in Value
    /\ MaxTxns >= Cardinality(Client) * Cardinality(Client) * TotalTxnsPerClient
    /\ MaxWrites >= WritesPerTxn
    /\ NoValue = << >>

VARIABLES
    retryOnAbort,   \* RetryOnAbort, as the run is configured
    job,            \* the transaction each client is working on, or NoJob
    completed,      \* runClient's counter
    report          \* what RunWith has returned, or NoReport

benchVars == <<collector, retryOnAbort, job, completed, report>>

allVars == <<vars, benchVars>>

NoJob == [txn |-> NoTxn]

NoReport == [TotalCommitted |-> 0]

BenchInit ==
    /\ data = Loaded(NewMemStore, [k \in Key |-> Itoa(0)])
    /\ NewEngine
    /\ NewImmediateCertifier
    /\ collector = NewCollector
    /\ retryOnAbort \in BOOLEAN
    /\ job = [c \in Client |-> NoJob]
    /\ completed = [c \in Client |-> 0]
    /\ report = NoReport

\* pickKeys: whatever the contention mode, some distinct keys.
PickKeys == kSubset(ReadsPerTxn, Key)

\* pickFromSlice: all of the keys if they are no more than asked for.
PickFromSlice(keys) == kSubset(Min({WritesPerTxn, Cardinality(keys)}), keys)

StartTxn(c) ==
    /\ job[c] = NoJob
    /\ completed[c] < TotalTxnsPerClient
    /\ Begin
    /\ \E readKeys \in PickKeys : \E writeKeys \in PickFromSlice(readKeys) :
        job' = [job EXCEPT ![c] = [txn |-> idCounter + 1, readKeys |-> readKeys,
                                   writeKeys |-> writeKeys, conflict |-> FALSE]]
    /\ UNCHANGED <<data, certVars, mu, collector, retryOnAbort, completed, report>>

HasRead(j, k) == \E o \in observed[j.txn] : o.key = k

OldValue(j, k) == (CHOOSE o \in observed[j.txn] : o.key = k).value

\* The body of runClient's loop: the reads, then the increments, then Commit.
Increment(j) ==
    \/ \E k \in j.readKeys : ~ HasRead(j, k) /\ Read(j.txn, k)
    \/ /\ \A k \in j.readKeys : HasRead(j, k)
       /\ IF j.writeKeys \subseteq KeysOf(writeSet[j.txn])
          THEN Commit(j.txn)
          ELSE \E k \in j.writeKeys \ KeysOf(writeSet[j.txn]) :
                   Write(j.txn, k, Itoa(Atoi(OldValue(j, k)) + 1))
    \/ CommitReturn(j.txn, result[j.txn])

Work(c) ==
    /\ job[c] # NoJob
    /\ Increment(job[c])
    /\ UNCHANGED <<data, certVars, mu, benchVars>>

Recorded == UNCHANGED <<vars, retryOnAbort, report>>

RecordCommitted(c) ==
    /\ job[c] # NoJob
    /\ state[job[c].txn] = "committed"
    /\ \E latency \in Latency : RecordCommit(latency)
    /\ completed' = [completed EXCEPT ![c] = @ + 1]
    /\ job' = [job EXCEPT ![c] = NoJob]
    /\ Recorded

RecordAborted(c) ==
    /\ job[c] # NoJob
    /\ state[job[c].txn] = "aborted"
    /\ ~ job[c].conflict
    /\ \E latency \in Latency : RecordAbort(latency)
    /\ job' = [job EXCEPT ![c].conflict = TRUE]
    /\ UNCHANGED completed
    /\ Recorded

\* Mutant: an aborted transaction counts in both modes.
RecordConflictedCounts(c) ==
    /\ job[c] # NoJob
    /\ job[c].conflict
    /\ RecordConflict
    /\ completed' = [completed EXCEPT ![c] = @ + 1]
    /\ job' = [job EXCEPT ![c] = NoJob]
    /\ Recorded

\* A second call of the collector; then the loop goes on or starts anew.
RecordConflicted(c) ==
    /\ job[c] # NoJob
    /\ job[c].conflict
    /\ RecordConflict
    /\ completed' = IF retryOnAbort THEN completed ELSE [completed EXCEPT ![c] = @ + 1]
    /\ job' = [job EXCEPT ![c] = NoJob]
    /\ Recorded

\* wg.Wait has returned.
RunWithReturns ==
    /\ report = NoReport
    /\ \A c \in Client : completed[c] = TotalTxnsPerClient
    /\ report' = Report
    /\ UNCHANGED <<vars, collector, retryOnAbort, job, completed>>

RunClient(c) ==
    \/ StartTxn(c) \/ Work(c)
    \/ RecordCommitted(c) \/ RecordAborted(c) \/ RecordConflicted(c)

CertifyFor(c) == job[c] # NoJob /\ Certify(job[c].txn) /\ UNCHANGED benchVars

BenchNext ==
    \/ \E c \in Client : RunClient(c)
    \/ \E c \in Client : CertifyFor(c)
    \/ RunWithReturns
    \/ report # NoReport /\ UNCHANGED allVars

BenchSpec == BenchInit /\ [][BenchNext]_allVars

(***************************************************************************)
(* Fairness: the goroutines run.  One inside SubmitCommit is never blocked *)
(* for good: the holder of the mutex runs on, and sync.Mutex hands the     *)
(* lock to the longest waiter once it has waited for a millisecond, which  *)
(* is strong fairness for each waiter.                                     *)
(***************************************************************************)
FairBenchSpec ==
    /\ BenchSpec
    /\ \A c \in Client : WF_allVars(RunClient(c)) /\ SF_allVars(CertifyFor(c))
    /\ WF_allVars(RunWithReturns)

-----------------------------------------------------------------------------
CommittedTxns == {t \in Txn : IsCommitted(t)}

\* No increment is lost and none is made twice, while clients race and retry:
\* every counter is the number of the committed transactions that write it, and
\* each of them writes as many keys as it is configured to.
IncrementsCounted ==
    /\ \A k \in Key :
        Atoi(data[k].value) = Cardinality({t \in CommittedTxns : Writes(t, k)})
    /\ \A t \in CommittedTxns :
        Cardinality(KeysOf(writeSet[t])) = Min({WritesPerTxn, ReadsPerTxn})

(***************************************************************************)
(* What retrying costs is bounded: a commit turns down at most one         *)
(* transaction of every other client, so the retry loop is never a         *)
(* livelock in which clients only abort each other.                        *)
(***************************************************************************)
RetriesBounded ==
    Cardinality({t \in Txn : result[t].decision = "stale"})
        <= (Cardinality(Client) - 1) * Cardinality(CommittedTxns)

(***************************************************************************)
(* The report agrees with the certifier and with the configuration         *)
(* (driver_test.go, MetricsConsistent: without retries committed and       *)
(* aborted make clients times transactions; with retries committed alone   *)
(* does), although every client records an abort in two calls.             *)
(***************************************************************************)
ReportConsistent ==
    report # NoReport =>
        /\ report.TotalCommitted = Cardinality(CommittedTxns)
        /\ report.ConflictCount = report.TotalAborted
        /\ report.TotalCommitted + (IF retryOnAbort THEN 0 ELSE report.TotalAborted)
               = Cardinality(Client) * TotalTxnsPerClient

\* The benchmark comes to an end: every client gets all of its transactions
\* through, although any of them may be aborted again and again.
BenchFinishes == <>(report # NoReport)
=============================================================================

# Verification of the CCaaS prototype

TLA+ models of the three-layer transactional key-value system in this
repository (storage, certifier, execution), TLC configurations that check them
on small instances, and TLAPS proofs of the main properties for instances of
any size.

## 1. The system

| Part | Source | State | Operations |
| --- | --- | --- | --- |
| Shared types | `pkg/types` | none | read and write entries, request, commit record, result |
| Storage | `pkg/storage/storage.go` | `data`: key to (value, version), one RWMutex | `Get`, `ApplyCommit` (all writes or none; versions must grow), `LoadInitialData` (version 1), `DumpState` |
| Immediate certifier | `pkg/ccaas/immediate.go` | `latestVersion`, `commitSeq`, one mutex | `SubmitCommit` (validate, number, update map, call the store), `SyncFromStorage` |
| Epoch certifier | `pkg/ccaas/epoch.go` | the same, `currentBatch`, ticker, `stopCh`, `doneCh` | `SubmitCommit` (enqueue and wait), `run`/`processEpoch`/`certifyTxn` in a background goroutine, `Start`, `Stop`, `SyncFromStorage` |
| Execution | `pkg/execution/execution.go` | id counter; per transaction read set, write set, flags | `Begin`, `Read`, `Write`, `Commit`, `Abort` |
| gRPC adapters | `pkg/storage/grpc_*.go`, `pkg/ccaas/grpc_*.go` | connections | the same interfaces over RPC, errors turned into "not found", "aborted" or nothing |
| Processes | `cmd/storage-server`, `cmd/ccaas-server` | a server each | start, serve, graceful shutdown |
| Clients | `cmd/demo`, `cmd/benchmark`, `pkg/benchmark`, `pkg/metrics` | counters | bank transfers, read-modify-write workload with retries, report |

How the parts interact. A transaction reads from the store directly and buffers
its writes. `Commit` hands read versions and writes to the certifier. The
certifier alone decides; it writes the accepted record to the store and only
then answers. Readers are never blocked and see the store change between two
reads of one transaction. Everything the certifier knows is its own version
map, which it updates *before* it calls the store.

What is hard here: the races between reads and other transactions' commits; the
window in which map and store disagree; the swap of the epoch's batch against
arriving requests, and against `Stop`; the fate of an error of the store; and,
once the layers are separate processes, lost and late calls, restarts, reloads
and transaction ids that are unique per process only. `PROJECT.json` lists these
hazards with their lines and the properties aimed at them.

What makes each part correct: the *store* applies a record atomically and never
moves a version back; the *certifier* commits a transaction only if all it read
is still current at its commit, aborts it only if it is not, keeps its map equal
to the store and answers every request; the *execution layer* records, for every
key, the version of the first value it hands out; *together* they are strictly
serializable and lose no committed write.

## 2. Modules

| Module | What it models |
| --- | --- |
| `TxnTypes` | the exchanged records; keys and last writes of a write set |
| `MemStore` | `data` and the store's methods, each atomic (it runs under the store's lock) |
| `Execution` | `Engine` and `Txn`: `Begin`, `Read`, `Write`, `Commit`, `CommitReturn`, `Abort` |
| `Certifier` | what both certifiers share: map, counter, results, validation, commit record |
| `ImmediateCertifier` | `SubmitCommit` in three steps under `mu`: `SubmitCommitStale`, `SubmitCommitAssign`, `SubmitCommitApply` |
| `EpochCertifier` | batches and the `run` goroutine: `Tick`/`StopCase` (swap the batch), then for each request in id order `CertifyTxnStale`, `CertifyTxnConflict` or `CertifyTxnAssign` and `CertifyTxnApply`; `Stop` |
| `SerialStore` | the abstract specification: a store on which transactions commit in one atomic step, if all they observed is current |
| `Transactions` | execution layer and certifier together: the properties of the commit history, the mapping to `SerialStore` |
| `ImmediateSystem`, `EpochSystem` | the composed systems and their properties |
| `RemoteStore` | the store behind gRPC: which calls may fail and what a failure does; commit records that are executed after their caller has given up (`ApplyLate`), or after its successor has started (`ApplyStray`) |
| `Deployment` | client, ccaas-server and storage-server as processes, whichever certifier runs: start-up (`Load`, `Sync`), a second client's `Reload`, calls of `SubmitCommit` that are lost on either way, death (`Die`), `Restart` and graceful `Exit` of ccaas-server |
| `RemoteImmediate` | `Deployment` with the immediate certifier: the handler of `SubmitCommit` (`Validate`, `Apply`, `ApplyFails`), `Signal`, `Crash` |
| `RemoteEpoch` | `Deployment` with the epoch certifier: `Enqueue`, the `run` goroutine with failing and panicking calls of the store, the signal handler (`Signal`, `StopReturns`), `Crash`, `Boot` |
| `Strconv` | `strconv.Itoa` and `Atoi` on the values of the store |
| `RemoteTransfers` | `cmd/demo` on `RemoteImmediate`: `StartTransfer`, the steps of a `Transfer`, `Count`, `PrintBalance` |
| `Metrics` | `pkg/metrics`: the collector and its report |
| `BenchDriver` | `pkg/benchmark` on `ImmediateSystem` with `Metrics`: the loop of `runClient`, recording, `RunWith` |
| `MCImmediate`, `MCEpoch`, `MCRemote`, `MCRemoteEpoch`, `MCRemoteTransfers`, `MCBench` | instances for TLC |
| `TransactionLemmas` | lemmas on sums and maxima, on write sets, commit records and `ApplyCommit`; what each operation of `Transactions` does to types, to the history and to the refinement, whichever certifier runs |
| `ImmediateProofs`, `EpochProofs` | the proofs about `ImmediateSystem` and `EpochSystem` |
| `DeploymentLemmas` | what each step of `Deployment` does to the facts that both remote systems rest on |
| `RemoteImmediateProofs`, `RemoteEpochProofs` | the proofs about `RemoteImmediate` and `RemoteEpoch` |
| `BenchProofs` | the proofs about `BenchDriver` and `Metrics` |
| `TransferProofs` | the proofs about `RemoteTransfers` |

Correspondence of state. Go's zero values are kept: a key that is missing from
`data` or `latestVersion` is the empty string with version 0, which no stored
entry has (loads use 1, commits a number above 0). `state[t]` stands for the two
flags of `Txn` and for "inside Commit". `readSet[t]` is a set because only
membership matters to validation; `writeSet[t]` is a sequence because the order of
two writes of a key matters. `observed[t]` records the values that `Read` returned
from the store: it is what the application has acted on, and what
serializability is about. `result[t]` is the answer of `SubmitCommit` from the
moment it is determined; `CommitReturn` is its arrival at the caller. In
`EpochCertifier` a batch is a set, because the code sorts it by id before use;
`IdRank` is the position of an id in string order, in which "txn-10" precedes
"txn-9"; transactions of different engines may have the same rank, because they may
have the same id. `startVersion` is a history variable that only a property reads.

Granularity. A method under a lock is one step unless it calls another component
while it holds the lock. `SubmitCommit` therefore splits at the call of
`ApplyCommit`. `Commit` and the append to the epoch's batch are one step, since
nobody can observe the difference.

Failures. The code sets no deadlines and no retries, so a call fails when its
connection breaks. A failed `ApplyCommit` is lost, or storage-server executes its
record at some later time (`late`, `ApplyLate`); the record that was executed
before the error arrived is the case in which that time is at once. A failed
`SubmitCommit` never reached ccaas-server, or its handler runs on without a caller.
A failed `Get` is "not found", a failed `DumpState` an empty store. `LoadInitialData`
and `SyncFromStorage` fail without effect, or with their full effect, which is then
that of a success; that they take effect only after the client has begun to run
transactions is left out. `installed` is a history variable. gRPC's own transparent
retry only repeats calls that the server has not processed, so no call is executed twice.

ccaas-server may die at any moment (`Crash`). Its handlers die with it; a record that it was
handing to the store is lost or still arrives. `Restart` is a new process that builds its
certifier from `DumpState`, which may fail. Nothing makes it wait for what the old process
has sent (`scripts/restart-ccaas.sh` sleeps for 0.3 s), so a record that is late then may be
executed before `DumpState`, or at any time after it. From the restart on such a record is a
*stray* (`strays`, `ApplyStray`): the new map and counter know nothing of it.
`faults["stray"]` counts the strays that the store has accepted, so that a property can say
what such an arrival puts an end to. On a signal the epoch certifier's `Stop` runs while the
server still accepts calls; after it, and at once with the immediate certifier,
`GracefulStop` refuses new calls and waits for the handlers. storage-server does not fail:
its store is in memory, and the deployment ends with it. A panic inside an epoch is put at
the call of the store, the only place of the loop that leaves the certifier's own code.
`Reload` is a second client process that loads the store again when the first one has ended
and its calls are over; what is late then is a stray as well. A load while another client's
transactions run is not modelled (the scripts run one client at a time), and would defeat
validation, since it gives a changed entry the version 1 again.

Clients. A transfer of the demo and a transaction of the benchmark take the steps of their
loop one by one (each read, each write, `Commit`), so that the steps of all clients and
servers interleave. The random choices (accounts, amounts, keys) are free choices. Values
are numerals (`Strconv`), since what is written is computed from what was read; a failed
read counts as 0 because the code ignores `Atoi`'s error. `counts` are the demo's
`committed` and `aborted`, `balances` holds what `Get` has returned to `printResults` so
far. In `Metrics` the samples are bags and ratios are pairs; `p95idx`, computed in floating
point, is the integer quotient (the two agree for every slice length up to a million, and
differ nowhere in the range of the model).

The bodies named as mutants (`SubmitCommitAssignMapKept` and so on) are wrong
versions of the definition that follows them. Each property is shown to fail
when one of them replaces the right one; nothing else uses them.

## 3. Runs

| Run | Instance | Question |
| --- | --- | --- |
| `immediate` | 2 keys, 2 values, 2 transactions, 2 writes each | safety of immediate certification: write skew, lost updates, non-repeatable reads, phantoms, repeated writes |
| `immediate_contention` | 1 key, 2 values, 3 transactions | the inductive invariant, and the refinement with a third transaction in between |
| `epoch` | 2 keys, 2 values, 2 transactions | safety of epoch certification with `Stop` at any time |
| `epoch_contention` | 1 key, 3 transactions, two of them with the same id, ids in another order than begins | the decision of an epoch against its declarative definition; requests around the swap |
| `remote` | 2 keys, 2 values, 2 transactions; a lost or late record, a lost request or reply, a stop or a kill and a restart, or a reload; strays | what the store holds and what transactions saw when calls are lost or late, when transactions span a restart, when records outlive their process, and after versions went back to 1 |
| `remote_epoch` | 1 key, 2 transactions, 2 of: failed `ApplyCommit`, panic, kill, stop; strays | the remote epoch certifier: safety, and that waiting `Commit`s return |
| `transfers` | 2 accounts, 2 clients with one transfer each, any 2 failures (of the load too), stops or kills; strays | money is conserved in the store, the demo ends and prints the right sum, a stopped server exits |
| `bench` | 3 clients, 1 key, 2 latencies, with and without retries | counters, retries, report and end of the benchmark |
| `epoch_stop`, `remote_read_failure`, `remote_abort`, `remote_epoch_apply` | one failure, or one `Stop` | expected violations, see section 5 |

Properties. `Serializable` is the refinement of `SerialStore`: the commit point is the step
in which the store applies the record. `NoInterveningWrite` says the same of the recorded
history in terms of versions. `StoreHoldsLastCommit`: no lost update. `AbortJustified`: no
spurious abort for a stale read (an epoch's aborts for conflicting writes are covered by
`EpochDecision`). `CommitOrder`: numbers are handed out in commit order. `VersionsAgree` and
`NoApplyError`: certifier and store never drift apart. `EpochDecision`: a request commits
exactly if its reads are current at the start of the epoch and no committed member of the
batch with a smaller id writes anything it touches; so arrival order does not matter.
Between two requests with the same id, which only different client processes can have, the
write-write check is void and the read check remains: `OneWinnerPerKey` holds for different
ids, `NoInterveningWrite`, a part of `IInv`, for all. `PendingExactlyOnce`,
`EveryCommitReturns`, `BatchedCommitReturns` as their names say. With failing calls:
`ReportedCommitInStore`, a commit that the client was told of is never undone, not even by a
record that arrives late; `InstalledHistorySerial`, the records the store has applied are a
serial history in the order of their numbers, those of transactions that were reported as
aborted included, and a read-only transaction saw a prefix of it;
`AbortRejectsInterleaving`, the counterpart of `AbortJustified`; `ShutdownCompletes`, a
server that was told to stop exits; `ObservedAtCommit`, what a transaction saw is what the
store holds when it commits. `ReportedCommitInStore` holds with the immediate certifier
whatever happens. The others hold only as long as certain calls succeed and no stray is
accepted (section 5), and the passing runs check them in that form: `AbortUnlessCallFails`,
`ObservedUnlessGetFails`, `CommitKeptUnlessCallFails` (with epochs; also no `ApplyCommit`
and no synchronisation with the store has failed), and `InstalledHistorySerial` (also no
restarted certifier has failed to read the store). A record that arrives late, but at the
certifier that sent it or before the next one has called `DumpState`, is excluded nowhere.
`IInv` is, in each of the four systems, the inductive invariant of section 4; the runs
`immediate_contention`, `epoch_contention`, `transfers` and `remote_epoch` check it. A
mutant of `InstalledHistorySerial` in `transfers` is a plausible repair of `SubmitCommit`,
which sets the version map back when `ApplyCommit` fails: it is wrong, because the record
may still arrive. At the clients: `Conservation`, the balances in the store add up at every
moment, whatever has failed, unless `LoadInitialData` has, which leaves a store without
money, or a stray has been accepted; `PrintedSum`, so does what the demo prints, whatever
has failed, if every account was found and no transfer that was counted as aborted is in the
store: one whose reply was lost, or whose record was late, can reach the store between two
of the reads; `IncrementsCounted`, each counter of the benchmark is the number of committed
transactions that write it, and each of those writes as many keys as configured;
`RetriesBounded`, a commit makes each other client retry at most once, so the retry loop
ends (`BenchFinishes`); `ReportConsistent`, the report is that of the certifier and of the
configuration; `PercentileRight`, the reported 95th percentile is one; `DemoFinishes`. The
benchmark's runs record few samples, so `MCBench` also assumes, and TLC evaluates, that the
percentile's index is right for every number of samples up to 2000 (`P95IndexRight`).

Bounds. `MaxTxns` and `MaxWrites` bound how much the application does; nothing in
the code depends on them. Conflicts between two transactions need two keys at most
(write skew) and two transactions; the third transaction is for decisions that
depend on an aborted or a committed third, and for waiting behind a holder.
In `transfers` the values are the numerals up to an initial balance to which every transfer
has been credited, since a client computes its writes from two reads that need not fit
together, and with strays even such a transfer may be let pass.
Two values tell a changed value from an unchanged one and let a key return to an
earlier value under a new version; where only versions matter one value is enough.
Keys are symmetric. `MaxFaults` bounds how often something goes wrong, `Faulty` names
what may. In `remote`, where the transactions are arbitrary, it is one thing; in
`transfers` and `remote_epoch` it is two, so that an abandoned record meets a restart, a
restart meets a failing `DumpState`, a record outlives two kills, and a panic meets a
stop. Several kills, a failed
`Get` and a failed synchronisation are in `transfers`. Deadlock is
checked for the immediate systems, local and remote, and for the clients, in which
only the finished state may stop. It is not checked for the epoch systems, which do
come to rest after `Stop`. In the benchmark `MaxTxns` is the
most that the clients can begin, as `RetriesBounded` shows, so it cuts off nothing.

Fairness. Immediate (in `BenchDriver` and `RemoteTransfers`): strong fairness for each
caller of `SubmitCommit`, because `sync.Mutex` hands the lock to a waiter after a
millisecond (starvation mode). Epoch: weak fairness of the `run` goroutine (the ticker keeps
firing, the goroutine is runnable) and of receiving a result from a buffered channel.
Remote: the same for the handlers and the `run` goroutine while the process lives, and weak
fairness for a call to return to the client once its reply is there or its connection is
gone, and for `GracefulStop` to return once all handlers have. Nothing is assumed of
restarts, nor of late records and strays. The clients of the demo and of the benchmark are
goroutines that run. No fairness for any other application: it may leave a transaction open
for ever.

## 4. Proofs

The theorems hold for every `Key`, `Value`, `MaxTxns`, `MaxWrites`, `MaxFaults`, `Faulty`
and `IdRank`, from the named assumptions of the modules: the empty string is a value
(`ValueAssumption`), the bounds are naturals, `Faulty` names failures that the model has
(`FaultyAssumption`), ids have a rank (`IdRankAssumption`; ranks may coincide). Those of
`BenchProofs` also hold for every `Client` and configuration that `BenchAssumption`
allows: the clients are finitely many, there are enough keys to draw from, and the values
include the decimal numbers up to `MaxTxns`. Those of `TransferProofs` hold for every
`Client`, number of transfers, balance and amount (`DemoAssumption`: the accounts are
finitely many, and the values include what a transfer may compute).

| Module | Theorems |
| --- | --- |
| `ImmediateProofs` | `TypeCorrect`, `InductiveInvariant`, `MapAgreesWithStore` (`VersionsAgree`), `StoreAcceptsCertified` (`NoApplyError`), `ReadsAreStable` (`NoInterveningWrite`), `NoLostUpdate` (`StoreHoldsLastCommit`), `NoSpuriousAbort` (`AbortJustified`), the action property `NumbersFollowCommits` (`CommitOrder`), the refinement `ImmediateSerializable` (`Serializable`) |
| `EpochProofs` | the same for epochs (without `NoApplyError`, which is about the immediate certifier's error path), `NoRequestLost` (`PendingExactlyOnce`), `DecisionsDeterministic` (`EpochDecision`), `SingleWinner` (`OneWinnerPerKey`), `EpochSerializable` |
| `RemoteImmediateProofs` | `TypeCorrect`, `InductiveInvariant`, `ReportedCommitsHeld` (`ReportedCommitInStore`), `InstalledSerial` (`InstalledHistorySerial`), `ObservedCurrentAtCommit` (`ObservedUnlessGetFails`), `AbortsJustified` (`AbortUnlessCallFails`) |
| `RemoteEpochProofs` | `TypeCorrect`, `InductiveInvariant`, `ReportedCommitsKept` (`CommitKeptUnlessCallFails`), `InstalledSerial` |
| `BenchProofs` | `BenchInvariant`, the refinement `BenchImplements` (`BenchSpec => Spec` of `ImmediateSystem`), `NoIncrementLost` (`IncrementsCounted`), `RetriesBound` (`RetriesBounded`), `ReportRight` (`ReportConsistent`), `PercentileCorrect` (`PercentileRight`) |
| `TransferProofs` | the refinement `DemoImplements` (`DemoSpec => RemoteSpec`), `MoneyConserved` (`Conservation`), `ExpectedPrinted` (`PrintedSum`) |

**One process.** None of the properties is inductive alone. That a commit is
serializable needs, at the step in which the store applies the record, that every
value the transaction observed is current. Validation compared versions with the
map some steps earlier, so the invariant carries: map and store agree
(`VersionsAgree`); what validation found stays true until the record is applied
(`HolderReadsCurrent`, `InstallingReadsCurrent`); every observed key has a read-set
entry (`ReadsRecorded`); and an entry whose version is still the store's implies that
*all* values observed for that key are the store's (`ObservedCurrent`). The last is what
makes recording the first read only sufficient: a second read with another value implies
that the version has moved on, since versions only grow (`NumbersBounded`,
`ReadsNotAhead`). `ReplacedByCommit` gives each outdated version the commit that replaced
it, which is the reason that `NoSpuriousAbort` needs. What does not depend on the
certifier is `HistoryInv`; `TransactionLemmas` shows once, for both systems, that
`Begin`, the operations, an abort with a reason and a commit on current reads preserve
it and refine `SerialStore`. What is left for each system is one lemma per action that
shows that the certifier only aborts with a reason and only commits on current reads.

**Epochs.** `EpochDecision` compares the answers with the versions at the start of the
epoch; the loop compares with a map that its own commits change, and with
`claimedKeys`. `EpochVersions` says that the two maps differ exactly in the keys that
committed members of the batch write; `ClaimsExact`, that `claimedKeys` holds exactly
those keys, with the ids of their writers; `AnsweredInOrder`, that every member that has
been answered precedes every one that has not. `OneWinnerPerKey` then follows from
`EpochDecision` alone.

**Several processes.** With lost and late calls a transaction can have a number in the
store, in a record that is still under way, or in the record that the certifier is just
handing over. `Numbers(t, H)` is the set of them, `H` being the transaction of that last
kind: `Holder` for the immediate certifier, `Installing` for the epoch certifier.
`DeployInv(H)` is about all of them, and has a part for each kind of failure that the
properties exclude: `ClientInv` and `VersionInv` hold whatever happens; `SerialInv`, that
these numbers are a serial history (of which `InstalledHistorySerial` is the installed
part), unless a restarted certifier has missed a record, because it could not read the store
or the record, a stray, was accepted later; `ReadInv`, that what was
read is either current or known to be replaced, unless also a `Get` failed;
`NumbersFresh`, that the next number is above all versions of the store, unless a
synchronisation failed or a stray was accepted. A stray that has not arrived has no part in
`Numbers`: its number may be given to another record. What is known of it in any case is
`StrayRecords`, in `ClientInv`: its client has given it up, and if it arrives its
transaction is installed for the first time. The key fact is `MapCoversNumbers`: the map is never behind a
record that it has let pass, even if that record has not arrived, since `SubmitCommit`
updates the map before it calls the store and leaves it when the call fails. A record
that arrives late then cannot invalidate a later validation (`SentReadsCurrent`).
`AbortInv`, that map and store agree and that a stale read has a record to blame, holds
for the immediate certifier as long as no call fails at all. `BatchRequests` is what the
epoch certifier adds. A restart takes the largest version in the store, which exists
because the versions are bounded (`StoreBounded`): the proof does not assume that `Key`
is finite. `DeploymentLemmas` has a lemma per step of `Deployment`, for any `H`.

**The benchmark.** `BenchImplements` shows that the clients only do what
`ImmediateSystem` lets an application do, so its theorems hold while the benchmark runs.
That is not a matter of names: a client writes the successor of a number it has read,
which has to be one of the values of the store, and so the refinement needs the bound on
the counters, which in turn needs the refinement (what a committing transaction has read
is current, by `IInv`). One induction, over `BenchInv`, gives both, together with

* `JobInv` and `StateInv`: a transaction that has begun and is not answered is the job
  of exactly one client, and its write set stays within the keys that client has picked;
* `ValueInv`: the counter of a key is the number of its committed writers, and every
  write is one more than what was read (`NoIncrementLost`);
* `CountInv`: the collector has been told of exactly the commits that are no client's job
  any more, and of one conflict less than aborts for every client between its two calls;
  when `RunWith` returns, no client has a job (`ReportRight`);
* `RetryInv`: transactions can be given a client (`own`), and every abort a commit that
  it is due to (`blame`), such that no client is turned down twice for the same commit
  nor for its own. What a client has committed or has been turned down for is in the store
  before its next transaction reads. `RetriesBound` counts the pairs of a client and a
  commit of another client. The invariant says that `own` and `blame` exist; the program
  has no such variables, and neither has the model.

**The percentile.** `Report` picks the least latency up to which there are more samples
than the index says. `PercentileCorrect` rests on `SampleInv`, that the samples are a finite bag of
naturals, on `PercentileOf`, that for such a bag the least latency exists and at most as
many samples as the index says are below it, and on the arithmetic of `P95Index`
(`IndexFacts`).

**The demo.** As for the benchmark, the refinement and the properties need each other: a
balance that is computed is a value of the store only because the transfers in the store
bound what an account may hold (`Ceiling`: each of them, strays included, credits one
account once), and that holds because the store's history is the one that
`RemoteImmediate` allows. `Whole` is the invariant of `RemoteImmediate` together with
`DemoInv`, whose parts are:

* `Jobs`, `Untouched`, `Progress`: a transaction under way is the transfer of one client,
  whose read and write sets are those of a point in the loop's body (`InBody`);
* `ReadsKept`: an account is read once, and what was read there is what the store holds as
  long as the version is the same, although calls fail: an account whose `Get` has failed
  counts as empty and has version 0;
* `Sent`: whatever has left a client, strays included, takes from one account that it has
  read what it gives to the other;
* `Funds`: once loaded, the store holds a numeral in each account;
* `Undisturbed`: until a stray is accepted, three things hold. `InFlight`: as long as a
  record is neither in the store nor lost (`Sends`: it is being handed
  over, or is late), what it has read stays current, the map has its number, and no two
  records under way write the same account. `MapKnows`: the certifier's map is either empty,
  after a failed `DumpState`, or has a version for every account that is not behind the
  store's. In the first case every transfer that has found money is turned down, so a
  restart that takes the store for empty, which does break `InstalledHistorySerial`, cannot
  break `Conservation`. `Balanced`: the accounts add up;
* `Refused`: no client is told of the commit of a late record or of a stray; and `Strayed`:
  once a stray was accepted, some transaction is in the store that was never reported as
  committed. When all clients are done, that is a transfer that was counted as aborted, and
  so what the antecedent of `PrintedSum` excludes: this is why the printed sum needs no
  exception for strays;
* `Printing`: what has been read by `printResults` is still in the store, unless a transfer
  that was counted as aborted has reached it.

`InstallTransfer` is the step that matters: the record finds both accounts as its transfer
has read them, and moves an amount from one to the other. `InstallStore` says what is left
of that for a stray.

**Lemmas about data.** `TransactionLemmas` reduces `Applied(d, Record(req, seq))` to a
pointwise description and shows that a record with a fresh number is not rejected. It
needs that `Max` of a bounded nonempty set of naturals exists, which is derived from the
well-foundedness of `<`. Sums are `SumFunctionOnSet`, whose definition is a fold; the
induction over the finite set is made on a set of naturals (`SetInduction`), which needs
no theorem with an operator parameter. It gives that a sum is that of its summands in any
order (`SumTable`), that an element may be taken out (`SumRemove`) and that moving an
amount from one summand to another leaves the sum (`SumMoved`).

Only model-checked: liveness (`BatchedCommitReturns`, `ShutdownCompletes`,
`DemoFinishes`, `BenchFinishes`, and the violated `EveryCommitReturns`), which is out of
the prover's reach, and that every action can happen. Every invariant and action property
that a passing run checks is also a theorem.

## 5. Findings

`epoch_stop`: `SubmitCommit` of the epoch certifier can block for ever. When `Stop`
is called, `run` takes the batch a last time and ends. A `SubmitCommit` that
appends after that swap is in a batch that nobody takes. `cmd/ccaas-server` calls
`Stop` before `GracefulStop`, so such a request can still arrive, and `GracefulStop` then waits
for it without end: the process does not exit. `BatchedCommitReturns` is the part that
does hold, and with the immediate certifier `ShutdownCompletes` does.

`remote_read_failure`: `GRPCStoreClient.Get` reports an RPC error as a missing key, and
`Read` passes that on as the empty string. If it is the first read of the key, version 0
goes into the read set and validation refuses the transaction. If the key was read
before, nothing is recorded and the transaction commits on a value that never existed.

`remote_abort`: when `ApplyCommit` fails and the record is lost, `latestVersion` stays
ahead of the store. Every later transaction that reads the key is aborted as stale,
without a conflict, until a blind write of the key or `SyncFromStorage`; a benchmark
client that retries aborted transactions on such a key does not make progress.

`remote_epoch_apply`: the epoch certifier ignores the error of `ApplyCommit`. With a
remote store that means that a client is told of a commit that is nowhere. In one
process the error cannot occur (`VersionsAgree`).

Four limits that the passing properties state as conditions:

* A ccaas-server that starts while `DumpState` fails takes the store for empty. Reads of
  existing keys are then refused, but a transaction that read a key as missing, before
  another one created it, is not (`InstalledHistorySerial`, `ObservedUnlessGetFails`).
* A record that arrives after the next ccaas-server has read the store has a version that the
  new map does not know. A transaction that read the key before it arrived passes validation
  and may commit on what was replaced (`InstalledHistorySerial`, `ObservedUnlessGetFails`,
  and in the demo `Conservation`); one that reads the key afterwards is aborted as stale
  without a conflict, as in `remote_abort` (`AbortUnlessCallFails`). Its number may also be
  given to another commit, which the store then rejects: the immediate certifier reports an
  abort (`ReportedCommitInStore` holds), the epoch certifier drops the error and reports a
  commit that is not in the store (`CommitKeptUnlessCallFails`; with the failures `crash` and
  `stray` alone, one key and two values, TLC finds it in 17 steps). A start that waits for
  the old process's calls to end would avoid all of this.
* Two clients' transactions with the same id can both write a key in one epoch. They
  stay serializable (`OneWinnerPerKey`, `NoInterveningWrite`).
* The demo can print FAIL although no money is lost: it reads the accounts one by one,
  and a transfer whose reply was lost may still be under way (`PrintedSum`,
  `Conservation`).

## 6. Not modelled

Several clients at once: a load while another client's transactions run, and a load or
synchronisation that storage-server or ccaas-server executes late. They are the next
step for `Deployment`.

Left out for good: `RecordEpochSize` of the metrics, which nothing calls, generated protobuf
code and the `.proto` files (field copies), flag parsing and output of the commands, scripts
and Terraform, the distributions behind the workload's random choices, elapsed time and
throughput. The demo and the benchmark on the epoch certifier take the same steps in front
of a certifier that is checked on its own. Strings are model values; numbers are unbounded
naturals (a 64-bit commit counter does not overflow in practice).

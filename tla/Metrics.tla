------------------------------ MODULE Metrics -------------------------------
(***************************************************************************)
(* The Collector of pkg/metrics.  Its methods run under one mutex, so each *)
(* of them is one atomic step.  The samples are bags: their order never    *)
(* matters.  Durations are numbers; a ratio is a pair of numbers, <<0, 1>> *)
(* when the code leaves the field at zero.  The elapsed time, and with it  *)
(* the throughput, is left out, and so are the epoch sizes: no part of the *)
(* program calls RecordEpochSize.                                          *)
(***************************************************************************)
EXTENDS Naturals, Bags, FiniteSetsExt

B == INSTANCE BagsExt

CONSTANT Latency   \* the durations that a transaction may take

ASSUME LatencyAssumption == Latency \subseteq Nat

VARIABLE collector

NewCollector ==
    [totalCommitted |-> 0, totalAborted |-> 0, conflictCount |-> 0,
     latencies |-> EmptyBag]

RecordCommit(latency) ==
    collector' = [collector EXCEPT !.totalCommitted = @ + 1,
                                   !.latencies = B!BagAdd(@, latency)]

RecordAbort(latency) ==
    collector' = [collector EXCEPT !.totalAborted = @ + 1,
                                   !.latencies = B!BagAdd(@, latency)]

RecordConflict == collector' = [collector EXCEPT !.conflictCount = @ + 1]

\* How many samples b holds, and how many of them are at most d.
Size(b) == SumFunction(b)

UpTo(b, d) == SumFunctionOnSet(b, {e \in DOMAIN b : e <= d})

\* Mutant: one place too low.
SortedAtOneLow(b, i) == Min({d \in DOMAIN b : UpTo(b, d) >= i})

\* sorted[i], counting from 0, when sorted holds the samples b.
SortedAt(b, i) == Min({d \in DOMAIN b : UpTo(b, d) > i})

\* int(float64(n) * 0.95), kept within the slice.
P95Index(n) == Min({(n * 95) \div 100, n - 1})

Report ==
    LET total   == collector.totalCommitted + collector.totalAborted
        samples == Size(collector.latencies)
    IN  [TotalCommitted |-> collector.totalCommitted,
         TotalAborted   |-> collector.totalAborted,
         ConflictCount  |-> collector.conflictCount,
         AbortRate      |-> IF total > 0 THEN <<collector.totalAborted, total>> ELSE <<0, 1>>,
         AvgLatency     |-> IF samples > 0 THEN B!SumBag(collector.latencies) \div samples ELSE 0,
         P95Latency     |-> IF samples > 0
                            THEN SortedAt(collector.latencies, P95Index(samples)) ELSE 0]

-----------------------------------------------------------------------------
(***************************************************************************)
(* The reported 95th percentile is one: at least 95 of 100 samples are not *)
(* above it and at most 95 of 100 are below it, at every number of         *)
(* samples, also where the index of the sorted slice is cut to its end.    *)
(***************************************************************************)
PercentileRight ==
    LET b == collector.latencies
        n == Size(b)
        p == Report.P95Latency
    IN  n > 0 => /\ p \in DOMAIN b
                 /\ UpTo(b, p) * 100 >= n * 95
                 /\ (UpTo(b, p) - b[p]) * 100 <= n * 95

\* What PercentileRight comes to for n samples that all differ.
P95IndexRight(n) ==
    LET i == P95Index(n)
    IN  i \in 0 .. n - 1 /\ (i + 1) * 100 >= n * 95 /\ i * 100 <= n * 95
=============================================================================

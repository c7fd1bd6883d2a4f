------------------------------ MODULE MCBench -------------------------------
(* Small instances of BenchDriver for TLC. *)
EXTENDS BenchDriver

Empty == << >>

Counts == Numerals(MaxTxns)

\* The runs record few samples; the index is checked on its own for more.
ASSUME P95IndexAssumption == \A n \in 1 .. 2000 : P95IndexRight(n)
=============================================================================

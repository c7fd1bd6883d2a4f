------------------------------ MODULE Strconv -------------------------------
(***************************************************************************)
(* strconv.Itoa and strconv.Atoi as cmd/demo and pkg/benchmark use them on *)
(* the values of the store.  A numeral is a sequence that holds its        *)
(* number, the empty string is the empty sequence; no other strings occur. *)
(* Atoi's error is ignored everywhere, so "" counts as 0.                  *)
(***************************************************************************)
EXTENDS Naturals, Sequences, FiniteSetsExt

Itoa(n) == <<n>>

Atoi(s) == IF s = << >> THEN 0 ELSE Head(s)

\* The strings of numbers up to max, and the empty string.
Numerals(max) == {<< >>} \cup {Itoa(n) : n \in 0 .. max}

\* The sum of what a store d holds.
Total(d) == SumFunction([k \in DOMAIN d |-> Atoi(d[k].value)])
=============================================================================

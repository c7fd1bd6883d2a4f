---------------------------- MODULE MCImmediate -----------------------------
(* Small instances of ImmediateSystem for TLC. *)
EXTENDS ImmediateSystem, TLC

\* Keys are interchangeable; so are the values other than the empty string.
Symm == Permutations(Key) \cup Permutations(Value \ {NoValue})
=============================================================================

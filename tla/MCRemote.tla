------------------------------ MODULE MCRemote ------------------------------
(* Small instances of RemoteImmediate for TLC. *)
EXTENDS RemoteImmediate, TLC

\* Keys are interchangeable; so are the values other than the empty string.
Symm == Permutations(Key) \cup Permutations(Value \ {NoValue})
=============================================================================

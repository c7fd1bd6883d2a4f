---------------------------- MODULE SerialStore -----------------------------
(***************************************************************************)
(* What the three layers together promise to an application: a             *)
(* transactional key-value store.  A transaction observes and buffers      *)
(* whatever it likes while it is open.  If it commits, it does so in one   *)
(* instant between its request and the answer; at that instant every value *)
(* it observed is the current one, and all of its writes become current.   *)
(* If it aborts, it leaves no trace.                                       *)
(***************************************************************************)
EXTENDS TxnTypes

VARIABLES db, outcome, observed, writeSet

vars == <<db, outcome, observed, writeSet>>

Init ==
    /\ db \in [Key -> Value]
    /\ outcome = [t \in Txn |-> "open"]
    /\ observed = [t \in Txn |-> {}]
    /\ writeSet = [t \in Txn |-> << >>]

Observe(t, k, v) ==
    /\ outcome[t] = "open"
    /\ observed' = [observed EXCEPT ![t] = @ \cup {[key |-> k, value |-> v]}]
    /\ UNCHANGED <<db, outcome, writeSet>>

Buffer(t, k, v) ==
    /\ outcome[t] = "open"
    /\ writeSet' = [writeSet EXCEPT ![t] = Append(@, [key |-> k, value |-> v])]
    /\ UNCHANGED <<db, outcome, observed>>

Commit(t) ==
    /\ outcome[t] = "open"
    /\ \A o \in observed[t] : db[o.key] = o.value
    /\ db' = [k \in Key |-> IF k \in KeysOf(writeSet[t])
                            THEN LastWrite(writeSet[t], k).value ELSE db[k]]
    /\ outcome' = [outcome EXCEPT ![t] = "committed"]
    /\ UNCHANGED <<observed, writeSet>>

Abort(t) ==
    /\ outcome[t] = "open"
    /\ outcome' = [outcome EXCEPT ![t] = "aborted"]
    /\ UNCHANGED <<db, observed, writeSet>>

Next ==
    \E t \in Txn :
        \/ \E k \in Key, v \in Value : Observe(t, k, v) \/ Buffer(t, k, v)
        \/ Commit(t)
        \/ Abort(t)

Spec == Init /\ [][Next]_vars
=============================================================================

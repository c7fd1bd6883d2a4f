---------------------------- MODULE Transactions ----------------------------
(***************************************************************************)
(* Transactions of the execution layer in front of a certifier, whichever  *)
(* implementation of the interface it is, and what the two layers together *)
(* must guarantee about the history of commits.                            *)
(***************************************************************************)
EXTENDS Execution, Certifier

\* LoadInitialData on a new store, before the certifier is made from it.
LoadedStore ==
    \E loaded \in SUBSET Key :
        \E initial \in [loaded -> Value] : data = Loaded(NewMemStore, initial)

\* Commit of t has called SubmitCommit, which has not returned.
Waiting(t) == state[t] = "submitted" /\ result[t] = NoResult

\* A step of the execution layer: the store and the certifier do not move.
Execute(t) ==
    /\ \/ \E k \in Key : Read(t, k) \/ \E v \in Value : Write(t, k, v)
       \/ Commit(t)
       \/ CommitReturn(t, result[t])
       \/ Abort(t)
    /\ UNCHANGED <<data, certVars>>

\* The application has finished all of its transactions.
Finished ==
    /\ idCounter = MaxTxns
    /\ \A t \in Txn : state[t] \in {"committed", "aborted"}

-----------------------------------------------------------------------------
IsCommitted(t) == result[t].decision = "committed"

Writes(t, k) == k \in KeysOf(writeSet[t])

(***************************************************************************)
(* Optimistic concurrency control over the history: what a committed       *)
(* transaction read was neither overwritten by a commit that precedes it   *)
(* nor produced by one that follows it.  Reads happen long before          *)
(* SubmitCommit and race with every other transaction's ApplyCommit.       *)
(***************************************************************************)
NoInterveningWrite ==
    \A t \in Txn : IsCommitted(t) =>
        \A r \in readSet[t] :
            /\ r.versionSeen < result[t].commitSeq
            /\ \A u \in Txn \ {t} : IsCommitted(u) /\ Writes(u, r.key) =>
                ~ (/\ r.versionSeen < result[u].commitSeq
                   /\ result[u].commitSeq < result[t].commitSeq)

(***************************************************************************)
(* No lost update: the store holds, for every key, the last value that the *)
(* committed transaction with the highest sequence number wrote to it.     *)
(***************************************************************************)
StoreHoldsLastCommit ==
    \A t \in Txn, k \in Key : IsCommitted(t) /\ Writes(t, k) =>
        \/ data[k].version > result[t].commitSeq
        \/ data[k] = [value   |-> LastWrite(writeSet[t], k).value,
                      version |-> result[t].commitSeq]

(***************************************************************************)
(* Aborts for stale reads are never spurious: a transaction that           *)
(* SubmitCommit turned down as stale really read a version that some       *)
(* committed transaction has replaced (README: aborts "are how the         *)
(* certifier rejects non-serialisable interleavings").  Aborts for         *)
(* conflicting writes within an epoch are a matter of EpochDecision.       *)
(***************************************************************************)
AbortJustified ==
    \A t \in Txn : result[t].decision = "stale" =>
        \E r \in readSet[t], u \in Txn \ {t} :
            /\ IsCommitted(u)
            /\ Writes(u, r.key)
            /\ result[u].commitSeq > r.versionSeen

\* A step that commits t gives it a number above that of every commit before
\* it, so sequence numbers are the order in which SubmitCommit returned.
CommitOrder ==
    [][\A t \in Txn : ~ IsCommitted(t) /\ IsCommitted(t)' =>
        \A u \in Txn : IsCommitted(u) => result[u].commitSeq < result'[t].commitSeq]_result

\* Every Commit call returns, whatever the other transactions do.
EveryCommitReturns ==
    \A t \in Txn : state[t] = "submitted" ~> state[t] \in {"committed", "aborted"}

(***************************************************************************)
(* Strict serializability: the layers implement the serial store.  The     *)
(* commit point is the step in which ApplyCommit changes the store.        *)
(***************************************************************************)
Outcome(t) ==
    IF IsCommitted(t) THEN "committed"
    ELSE IF result[t].decision # "none" \/ state[t] = "aborted" THEN "aborted"
    ELSE "open"

Serial == INSTANCE SerialStore WITH
    db      <- [k \in Key |-> data[k].value],
    outcome <- [t \in Txn |-> Outcome(t)]

Serializable == Serial!Spec

-----------------------------------------------------------------------------
(***************************************************************************)
(* Facts the properties above rest on, which together with facts about the *)
(* certifier are inductive.                                                *)
(***************************************************************************)
NotBegun == \A t \in Txn : t > idCounter => state[t] = "unborn"

AnsweredNotActive ==
    \A t \in Txn : result[t] # NoResult => state[t] \notin {"unborn", "active"}

ReadsRecorded == \A t \in Txn : \A o \in observed[t] : Seen(t, o.key)

ReadsNotAhead ==
    \A t \in Txn : \A r \in readSet[t] : r.versionSeen <= data[r.key].version

\* As long as the version seen is current, so is every value observed.
ObservedCurrent ==
    \A t \in Txn : \A o \in observed[t], r \in readSet[t] :
        r.key = o.key /\ r.versionSeen = data[r.key].version
        => o.value = data[r.key].value

\* A version seen that is no longer current was replaced by a commit.
ReplacedByCommit ==
    \A t \in Txn : \A r \in readSet[t] : r.versionSeen # data[r.key].version =>
        \E u \in Txn : /\ IsCommitted(u)
                       /\ Writes(u, r.key)
                       /\ result[u].commitSeq = data[r.key].version

HistoryInv ==
    /\ NoInterveningWrite
    /\ StoreHoldsLastCommit
    /\ AbortJustified
    /\ NotBegun
    /\ AnsweredNotActive
    /\ ReadsRecorded
    /\ ReadsNotAhead
    /\ ObservedCurrent
    /\ ReplacedByCommit
=============================================================================
